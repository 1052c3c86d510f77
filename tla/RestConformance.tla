-------------------------- MODULE RestConformance --------------------------
(***************************************************************************)
(* The REST merchant that the official conformance suite drives            *)
(* (rest-conformance.ts): its own checkouts, orders and idempotency map.   *)
(* No handler awaits, so each request is one step; what is hard is the     *)
(* order of requests, retries under a key and keys used again.  A reply is *)
(* kept under its key as a reference to the checkout, which later requests *)
(* change; only complete keeps a copy.  The totals are a function of the   *)
(* line items, which are one value here (a cart), and are left out.        *)
(***************************************************************************)
EXTENDS Integers, Sequences

CONSTANTS
  Keys, NoKey,   \* idempotency keys
  Carts, Empty,  \* request bodies: line items, or none
  None,
  MaxCheckouts, MaxShipments  \* bounds

RestAssumption ==
  /\ NoKey \notin Keys /\ Empty \notin Carts
  /\ MaxCheckouts \in Nat /\ MaxShipments \in Nat

Ids == 1..MaxCheckouts
Bodies == Carts \cup {Empty}
Final == {"completed", "canceled"}

VARIABLES
  checkouts,  \* the checkouts, in the order they were created
  orders,     \* the orders, in the order they were placed
  idemp,      \* of each key used: the hash of the body it came with, the status and the reply
  first,      \* history, of each key used: the route that answered it and what the reply showed
  answer      \* the key of the last request and the status it was answered with

vars == <<checkouts, orders, idemp, first, answer>>

Init ==
  /\ checkouts = <<>>
  /\ orders = <<>>
  /\ idemp = [k \in {} |-> None]
  /\ first = [k \in {} |-> None]
  /\ answer = [key |-> NoKey, status |-> 0]

-----------------------------------------------------------------------------
(***************************************************************************)
(* Replies and the idempotency map.                                        *)
(***************************************************************************)
\* A reply is the live checkout, or a copy of it.
Live(id) == [live |-> TRUE, id |-> id, copy |-> None]
CopyOf(id, co) == [live |-> FALSE, id |-> id, copy |-> co]

\* What a reply says once it is serialized, with the checkouts as they are then.
Shown(reply, cs) == IF reply.live THEN cs[reply.id] ELSE reply.copy

Answer(req, status) ==
  /\ answer' = [key |-> req.key, status |-> status]
  /\ UNCHANGED <<checkouts, orders, idemp, first>>

\* idemReplay: a known key is answered from the map, or 409 for another body.
Known(req) == req.key \in DOMAIN idemp

Replay(req) ==
  Answer(req, IF idemp[req.key].hash # req.body THEN 409 ELSE idemp[req.key].status)

\* Map.set
With(map, key, value) ==
  [k \in DOMAIN map \cup {key} |-> IF k = key THEN value ELSE map[k]]

\* withIdem: the reply is kept under its key, whatever the key held.
Reply(req, status, reply) ==
  /\ answer' = [key |-> req.key, status |-> status]
  /\ IF req.key = NoKey THEN UNCHANGED <<idemp, first>>
     ELSE /\ idemp' = With(idemp, req.key, [hash |-> req.body, status |-> status, reply |-> reply])
          /\ first' = With(first, req.key,
                           [route |-> req.route, body |-> Shown(reply, checkouts')])

-----------------------------------------------------------------------------
(***************************************************************************)
(* The routes.                                                             *)
(***************************************************************************)
Exists(id) == id \in DOMAIN checkouts

\* Mutant of Modifiable: a canceled checkout can still be changed.
ModifiableIfCanceled(id) == checkouts[id].status # "completed"

Modifiable(id) == checkouts[id].status \notin Final

Create(req) ==
  /\ req.route = "create"
  /\ IF Known(req) THEN Replay(req)
     ELSE IF req.body = Empty THEN Answer(req, 400)
     ELSE /\ Len(checkouts) < MaxCheckouts
          /\ checkouts' = Append(checkouts, [status |-> "ready", cart |-> req.body, order |-> 0])
          /\ orders' = orders
          /\ Reply(req, 201, Live(Len(checkouts) + 1))

\* get and get order: nothing changes.
Get(req) ==
  /\ req.route = "get"
  /\ Answer(req, IF Exists(req.id) THEN 200 ELSE 404)

\* PUT looks at the status before it looks at the key.  No line items: they stay.
Update(req) ==
  /\ req.route = "update"
  /\ IF ~Exists(req.id) THEN Answer(req, 404)
     ELSE IF ~Modifiable(req.id) THEN Answer(req, 409)
     ELSE IF Known(req) THEN Replay(req)
     ELSE /\ checkouts' = [checkouts EXCEPT ![req.id].cart = IF req.body = Empty THEN @ ELSE req.body]
          /\ orders' = orders
          /\ Reply(req, 200, Live(req.id))

Cancel(req) ==
  /\ req.route = "cancel"
  /\ IF Known(req) THEN Replay(req)
     ELSE IF ~Exists(req.id) THEN Answer(req, 404)
     ELSE IF ~Modifiable(req.id) THEN Answer(req, 409)
     ELSE /\ checkouts' = [checkouts EXCEPT ![req.id].status = "canceled"]
          /\ orders' = orders
          /\ Reply(req, 200, Live(req.id))

\* Mutant of Complete: the status is looked at before the key, as PUT does, and a
\* completed checkout is completed once more.
CompleteAgain(req) ==
  /\ req.route = "complete"
  /\ IF ~Exists(req.id) THEN Answer(req, 404)
     ELSE IF checkouts[req.id].status = "canceled" THEN Answer(req, 409)
     ELSE LET order == Len(orders) + 1 IN
          /\ Len(orders) < MaxCheckouts
          /\ orders' = Append(orders, [checkout |-> req.id, cart |-> checkouts[req.id].cart, events |-> 0])
          /\ checkouts' = [checkouts EXCEPT ![req.id].status = "completed", ![req.id].order = order]
          /\ Reply(req, 200, CopyOf(req.id, checkouts'[req.id]))

Complete(req) ==
  /\ req.route = "complete"
  /\ IF Known(req) THEN Replay(req)
     ELSE IF ~Exists(req.id) THEN Answer(req, 404)
     ELSE IF ~Modifiable(req.id) THEN Answer(req, 409)
     ELSE LET order == Len(orders) + 1
              done == [checkouts[req.id] EXCEPT !.status = "completed", !.order = order] IN
          /\ orders' = Append(orders, [checkout |-> req.id, cart |-> done.cart, events |-> 0])
          /\ checkouts' = [checkouts EXCEPT ![req.id] = done]
          /\ Reply(req, 200, CopyOf(req.id, done))

\* simulate-shipping, with or without the shared secret: one more event each time.
SimulateShipping(req) ==
  /\ req.route = "ship"
  /\ \/ Answer(req, 403)
     \/ req.id \notin DOMAIN orders /\ Answer(req, 404)
     \/ /\ req.id \in DOMAIN orders
        /\ orders[req.id].events < MaxShipments
        /\ orders' = [orders EXCEPT ![req.id].events = @ + 1]
        /\ answer' = [key |-> NoKey, status |-> 200]
        /\ UNCHANGED <<checkouts, idemp, first>>

Requests ==
  [route: {"create", "update", "cancel", "complete"}, id: Ids, key: Keys \cup {NoKey}, body: Bodies]
  \cup [route: {"get", "ship"}, id: Ids, key: {NoKey}, body: {Empty}]

Handle(req) ==
  Create(req) \/ Get(req) \/ Update(req) \/ Cancel(req) \/ Complete(req) \/ SimulateShipping(req)

Next == \E req \in Requests : Handle(req)

Spec == Init /\ [][Next]_vars

-----------------------------------------------------------------------------
(***************************************************************************)
(* Properties.                                                             *)
(***************************************************************************)
\* Types of the maps.
Checkout == [status: {"ready"} \cup Final, cart: Carts, order: Nat]
Entry == [hash: Bodies, status: Nat,
          reply: [live: BOOLEAN, id: Nat, copy: Checkout \cup {None}]]
TypeOK ==
  /\ checkouts \in Seq(Checkout)
  /\ orders \in Seq([checkout: Nat, cart: Carts, events: Nat])
  /\ DOMAIN idemp \subseteq Keys /\ DOMAIN first = DOMAIN idemp
  /\ \A k \in DOMAIN idemp :
       idemp[k] \in Entry /\ idemp[k].reply.id \in DOMAIN checkouts

\* A checkout that is completed or canceled never changes again, whatever is
\* retried, replayed or sent under a used key.
FinalCheckouts ==
  [][\A id \in DOMAIN checkouts :
       checkouts[id].status \in Final => checkouts'[id] = checkouts[id]]_vars

\* An order is its checkout's only one and holds the cart the checkout was completed
\* with; a canceled checkout has none.
OrderIsItsCheckout ==
  /\ \A o \in DOMAIN orders :
       LET co == orders[o].checkout IN
       /\ co \in DOMAIN checkouts
       /\ checkouts[co].status = "completed"
       /\ checkouts[co].order = o
       /\ checkouts[co].cart = orders[o].cart
  /\ \A id \in DOMAIN checkouts :
       checkouts[id].status = "completed" => checkouts[id].order \in DOMAIN orders

\* A request under a key that was answered before executes nothing, at whatever route
\* and with whatever body it arrives, and whatever happened in between.
KeyStep ==
  LET key == answer'.key IN key \in DOMAIN first => UNCHANGED <<checkouts, orders>>
KeyRunsOnce == [][KeyStep]_vars

\* What the reply to a completed or a cancelled checkout said, every replay of it says,
\* although the map holds a reference.  (Replies to create and update do change.)
FinalRepliesStay ==
  \A k \in DOMAIN first : first[k].route \in {"cancel", "complete"}
    => Shown(idemp[k].reply, checkouts) = first[k].body
=============================================================================
