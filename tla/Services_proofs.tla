--------------------------- MODULE Services_proofs ---------------------------
(***************************************************************************)
(* Proofs about what runs beside the purchase: the services of Services    *)
(* (the REST merchant, carts, negotiation, linking, passkeys, mandates),   *)
(* and the JSON-RPC layer of JsonRpc, for every value of their constants.  *)
(***************************************************************************)
EXTENDS JsonRpc, Services, Sums, Sequences, TLAPS

(***************************************************************************)
(* One service runs; a step of it is a step of its module, and the others  *)
(* stay where they are.                                                    *)
(***************************************************************************)
LEMMA PartStep ==
  ASSUME [ServicesNext]_servicesVars
  PROVE  /\ part' = part
         /\ part = "rest" => [R!Next]_(R!vars)
         /\ part # "rest" => UNCHANGED R!vars
         /\ part = "carts" => [C!Next]_(C!vars)
         /\ part = "negotiation" => [N!Next]_(N!vars)
         /\ part = "mandates" => [M!Next]_(M!vars)
         /\ part = "linking" => [L!Next]_(L!vars)
         /\ part = "passkeys" => [P!Next]_(P!vars)
  <1>. USE DEF R!vars, C!vars, N!vars, M!vars, L!vars, P!vars, restVars, cartVars, negotiationVars,
               mandateVars, linkingVars, passkeyVars
  <1>1. CASE UNCHANGED servicesVars
    BY <1>1 DEF servicesVars
  <1>2. CASE ServicesNext
    BY <1>2 DEF ServicesNext
  <1>. QED BY <1>1, <1>2

LEMMA PartInit ==
  ASSUME ServicesInit
  PROVE  /\ part = "rest" => R!Init
         /\ part = "carts" => C!Init
         /\ part = "negotiation" => N!Init
         /\ part = "mandates" => M!Init
         /\ part = "linking" => L!Init
         /\ part = "passkeys" => P!Init
  BY DEF ServicesInit

-----------------------------------------------------------------------------
(***************************************************************************)
(* The REST merchant.  What a request may do: every handler that changes   *)
(* something answers a request under a fresh key or no key, and keeps its  *)
(* reply.                                                                  *)
(***************************************************************************)
Order == [checkout: Nat, cart: Carts, events: Nat]

\* The maps stay: a replay, a refusal or a read.
Unmoved == UNCHANGED <<checkouts, orders, idemp, first>>

Shipped ==
  /\ UNCHANGED <<checkouts, idemp, first>>
  /\ answer'.key = NoRestKey
  /\ \E o \in DOMAIN orders : orders' = [orders EXCEPT ![o].events = @ + 1]

\* A handler ran: it left checkout id as co and kept a reply about it.
Kept(req, id, co, reply) ==
  /\ req \in R!Requests /\ req.route \in {"create", "update", "cancel", "complete"}
  /\ req.key \notin DOMAIN idemp
  /\ answer'.key = req.key
  /\ id \in DOMAIN checkouts' /\ checkouts'[id] = co /\ co \in R!Checkout
  /\ reply \in {R!Live(id), R!CopyOf(id, co)}
  /\ \E status \in Nat : R!Reply(req, status, reply)

Created(req) ==
  LET id == Len(checkouts) + 1
      co == [status |-> "ready", cart |-> req.body, order |-> 0] IN
  /\ req.route = "create"
  /\ checkouts' = Append(checkouts, co)
  /\ orders' = orders
  /\ Kept(req, id, co, R!Live(id))

Changed(req, co) ==
  /\ req.id \in DOMAIN checkouts /\ checkouts[req.id].status \notin R!Final
  /\ checkouts' = [checkouts EXCEPT ![req.id] = co]

Updated(req) ==
  LET co == [checkouts[req.id] EXCEPT !.cart = IF req.body = Empty THEN @ ELSE req.body] IN
  /\ req.route = "update"
  /\ Changed(req, co)
  /\ orders' = orders
  /\ Kept(req, req.id, co, R!Live(req.id))

Canceled(req) ==
  LET co == [checkouts[req.id] EXCEPT !.status = "canceled"] IN
  /\ req.route = "cancel"
  /\ Changed(req, co)
  /\ orders' = orders
  /\ Kept(req, req.id, co, R!Live(req.id))

Completed(req) ==
  LET order == Len(orders) + 1
      co == [checkouts[req.id] EXCEPT !.status = "completed", !.order = order] IN
  /\ req.route = "complete"
  /\ Changed(req, co)
  /\ orders' = Append(orders, [checkout |-> req.id, cart |-> co.cart, events |-> 0])
  /\ Kept(req, req.id, co, R!CopyOf(req.id, co))

\* Every step is one of these.
LEMMA RestSteps ==
  ASSUME R!TypeOK, [R!Next]_(R!vars)
  PROVE  \/ Unmoved \/ Shipped
         \/ \E req \in R!Requests : Created(req) \/ Updated(req) \/ Canceled(req) \/ Completed(req)
  <1>. USE ServicesAssumption DEF R!RestAssumption
  <1>1. CASE UNCHANGED R!vars
    BY <1>1 DEF R!vars, Unmoved
  <1>2. ASSUME NEW req \in R!Requests, R!Handle(req)
        PROVE  \/ Unmoved \/ Shipped
               \/ Created(req) \/ Updated(req) \/ Canceled(req) \/ Completed(req)
    <2>1. checkouts \in Seq(R!Checkout) /\ orders \in Seq(Order)
      BY DEF R!TypeOK, Order
    <2>2. CASE R!Create(req)
      <3>1. CASE R!Known(req) \/ req.body = Empty
        BY <2>2, <3>1 DEF R!Create, R!Replay, R!Answer, Unmoved
      <3>2. CASE ~R!Known(req) /\ req.body # Empty
        <4>. DEFINE id == Len(checkouts) + 1
                    co == [status |-> "ready", cart |-> req.body, order |-> 0]
        <4>1. /\ req.route = "create" /\ orders' = orders
              /\ checkouts' = Append(checkouts, co) /\ R!Reply(req, 201, R!Live(id))
          BY <2>2, <3>2 DEF R!Create
        <4>2. req.body \in Carts
          BY <3>2, <4>1 DEF R!Requests, R!Bodies
        <4>3. co \in R!Checkout
          BY <4>2 DEF R!Checkout
        <4>. HIDE DEF co
        <4>4. id \in DOMAIN checkouts' /\ checkouts'[id] = co
          BY <2>1, <4>1, <4>3
        <4>5. answer'.key = req.key /\ req.key \notin DOMAIN idemp
          BY <3>2, <4>1 DEF R!Reply, R!Known
        <4>6. Kept(req, id, co, R!Live(id))
          BY <4>1, <4>3, <4>4, <4>5 DEF Kept
        <4>. QED BY <4>1, <4>6 DEF Created, co
      <3>. QED BY <3>1, <3>2
    <2>3. CASE R!Get(req)
      BY <2>3 DEF R!Get, R!Answer, Unmoved
    <2>4. CASE R!Update(req)
      <3>1. CASE ~R!Exists(req.id) \/ ~R!Modifiable(req.id) \/ R!Known(req)
        BY <2>4, <3>1 DEF R!Update, R!Replay, R!Answer, Unmoved
      <3>2. CASE R!Exists(req.id) /\ R!Modifiable(req.id) /\ ~R!Known(req)
        <4>. DEFINE co == [checkouts[req.id] EXCEPT !.cart = IF req.body = Empty THEN @ ELSE req.body]
        <4>1. /\ req.route = "update" /\ orders' = orders
              /\ checkouts' = [checkouts EXCEPT ![req.id].cart = IF req.body = Empty THEN @ ELSE req.body]
              /\ R!Reply(req, 200, R!Live(req.id))
          BY <2>4, <3>2 DEF R!Update
        <4>2. req.id \in DOMAIN checkouts /\ checkouts[req.id].status \notin R!Final
          BY <3>2 DEF R!Exists, R!Modifiable
        <4>3. checkouts[req.id] \in R!Checkout /\ req.body \in R!Bodies
          BY <2>1, <4>1, <4>2 DEF R!Requests
        <4>4. co \in R!Checkout
          BY <4>3 DEF R!Checkout, R!Bodies
        <4>5. checkouts' = [checkouts EXCEPT ![req.id] = co]
          BY <4>1
        <4>. HIDE DEF co
        <4>6. Changed(req, co) /\ req.id \in DOMAIN checkouts' /\ checkouts'[req.id] = co
          BY <2>1, <4>2, <4>5 DEF Changed
        <4>7. answer'.key = req.key /\ req.key \notin DOMAIN idemp
          BY <3>2, <4>1 DEF R!Reply, R!Known
        <4>8. Kept(req, req.id, co, R!Live(req.id))
          BY <4>1, <4>4, <4>6, <4>7 DEF Kept
        <4>. QED BY <4>1, <4>6, <4>8 DEF Updated, co
      <3>. QED BY <3>1, <3>2
    <2>5. CASE R!Cancel(req)
      <3>1. CASE R!Known(req) \/ ~R!Exists(req.id) \/ ~R!Modifiable(req.id)
        BY <2>5, <3>1 DEF R!Cancel, R!Replay, R!Answer, Unmoved
      <3>2. CASE ~R!Known(req) /\ R!Exists(req.id) /\ R!Modifiable(req.id)
        <4>. DEFINE co == [checkouts[req.id] EXCEPT !.status = "canceled"]
        <4>1. /\ req.route = "cancel" /\ orders' = orders
              /\ checkouts' = [checkouts EXCEPT ![req.id].status = "canceled"]
              /\ R!Reply(req, 200, R!Live(req.id))
          BY <2>5, <3>2 DEF R!Cancel
        <4>2. req.id \in DOMAIN checkouts /\ checkouts[req.id].status \notin R!Final
          BY <3>2 DEF R!Exists, R!Modifiable
        <4>3. checkouts[req.id] \in R!Checkout
          BY <2>1, <4>2
        <4>4. co \in R!Checkout
          BY <4>3 DEF R!Checkout, R!Final
        <4>5. checkouts' = [checkouts EXCEPT ![req.id] = co]
          BY <4>1
        <4>. HIDE DEF co
        <4>6. Changed(req, co) /\ req.id \in DOMAIN checkouts' /\ checkouts'[req.id] = co
          BY <2>1, <4>2, <4>5 DEF Changed
        <4>7. answer'.key = req.key /\ req.key \notin DOMAIN idemp
          BY <3>2, <4>1 DEF R!Reply, R!Known
        <4>8. Kept(req, req.id, co, R!Live(req.id))
          BY <4>1, <4>4, <4>6, <4>7 DEF Kept
        <4>. QED BY <4>1, <4>6, <4>8 DEF Canceled, co
      <3>. QED BY <3>1, <3>2
    <2>6. CASE R!Complete(req)
      <3>1. CASE R!Known(req) \/ ~R!Exists(req.id) \/ ~R!Modifiable(req.id)
        BY <2>6, <3>1 DEF R!Complete, R!Replay, R!Answer, Unmoved
      <3>2. CASE ~R!Known(req) /\ R!Exists(req.id) /\ R!Modifiable(req.id)
        <4>. DEFINE order == Len(orders) + 1
                    co == [checkouts[req.id] EXCEPT !.status = "completed", !.order = order]
        <4>1. /\ req.route = "complete"
              /\ orders' = Append(orders, [checkout |-> req.id, cart |-> co.cart, events |-> 0])
              /\ checkouts' = [checkouts EXCEPT ![req.id] = co]
              /\ R!Reply(req, 200, R!CopyOf(req.id, co))
          BY <2>6, <3>2 DEF R!Complete
        <4>2. req.id \in DOMAIN checkouts /\ checkouts[req.id].status \notin R!Final
          BY <3>2 DEF R!Exists, R!Modifiable
        <4>3. checkouts[req.id] \in R!Checkout /\ order \in Nat
          BY <2>1, <4>2
        <4>4. co \in R!Checkout
          BY <4>3 DEF R!Checkout, R!Final
        <4>. HIDE DEF co
        <4>6. Changed(req, co) /\ req.id \in DOMAIN checkouts' /\ checkouts'[req.id] = co
          BY <2>1, <4>1, <4>2 DEF Changed
        <4>7. answer'.key = req.key /\ req.key \notin DOMAIN idemp
          BY <3>2, <4>1 DEF R!Reply, R!Known
        <4>8. Kept(req, req.id, co, R!CopyOf(req.id, co))
          BY <4>1, <4>4, <4>6, <4>7 DEF Kept
        <4>. QED BY <4>1, <4>6, <4>8 DEF Completed, co
      <3>. QED BY <3>1, <3>2
    <2>7. CASE R!SimulateShipping(req)
      <3>1. \/ \E status \in {403, 404} : R!Answer(req, status)
            \/ /\ req.id \in DOMAIN orders /\ answer' = [key |-> NoRestKey, status |-> 200]
               /\ orders' = [orders EXCEPT ![req.id].events = @ + 1]
               /\ UNCHANGED <<checkouts, idemp, first>>
        BY <2>7 DEF R!SimulateShipping
      <3>. QED BY <3>1 DEF R!Answer, Unmoved, Shipped
    <2>. QED BY <1>2, <2>2, <2>3, <2>4, <2>5, <2>6, <2>7 DEF R!Handle
  <1>. QED BY <1>1, <1>2 DEF R!Next

-----------------------------------------------------------------------------
(***************************************************************************)
(* The maps, and what is kept in them.                                     *)
(***************************************************************************)
\* A kept reply leaves the other keys alone.
LEMMA KeptMaps ==
  ASSUME NEW req \in R!Requests, NEW id, NEW co, NEW reply, Kept(req, id, co, reply),
         DOMAIN first = DOMAIN idemp
  PROVE  \/ /\ req.key = NoRestKey /\ UNCHANGED <<idemp, first>>
         \/ /\ req.key \in RestKeys
            /\ DOMAIN idemp' = DOMAIN idemp \cup {req.key} /\ DOMAIN first' = DOMAIN idemp'
            /\ \A k \in DOMAIN idemp : idemp'[k] = idemp[k] /\ first'[k] = first[k]
            /\ \E status \in Nat :
                 idemp'[req.key] = [hash |-> req.body, status |-> status, reply |-> reply]
            /\ first'[req.key] = [route |-> req.route, body |-> co]
  <1>1. PICK status \in Nat : R!Reply(req, status, reply)
    BY DEF Kept
  <1>2. req.key \in RestKeys \cup {NoRestKey} /\ req.key \notin DOMAIN idemp
    BY DEF Kept, R!Requests
  <1>3. R!Shown(reply, checkouts') = co
    BY DEF Kept, R!Shown, R!Live, R!CopyOf
  <1>4. CASE req.key = NoRestKey
    BY <1>1, <1>4 DEF R!Reply
  <1>5. CASE req.key # NoRestKey
    <2>1. /\ idemp' = R!With(idemp, req.key, [hash |-> req.body, status |-> status, reply |-> reply])
          /\ first' = R!With(first, req.key, [route |-> req.route, body |-> co])
      BY <1>1, <1>3, <1>5 DEF R!Reply
    <2>2. req.key \in RestKeys
      BY <1>2, <1>5
    <2>3. /\ DOMAIN idemp' = DOMAIN idemp \cup {req.key} /\ DOMAIN first' = DOMAIN idemp'
          /\ \A k \in DOMAIN idemp : idemp'[k] = idemp[k] /\ first'[k] = first[k]
      BY <1>2, <2>1 DEF R!With
    <2>4. /\ idemp'[req.key] = [hash |-> req.body, status |-> status, reply |-> reply]
          /\ first'[req.key] = [route |-> req.route, body |-> co]
      BY <2>1 DEF R!With
    <2>. QED BY <2>2, <2>3, <2>4
  <1>. QED BY <1>4, <1>5

\* The types of the map hold after a handler that kept a reply.
LEMMA KeptTyped ==
  ASSUME R!TypeOK, NEW req \in R!Requests, NEW id \in Nat, NEW co, NEW reply, Kept(req, id, co, reply),
         DOMAIN checkouts \subseteq DOMAIN checkouts'
  PROVE  /\ DOMAIN idemp' \subseteq RestKeys /\ DOMAIN first' = DOMAIN idemp'
         /\ \A k \in DOMAIN idemp' :
              idemp'[k] \in R!Entry /\ idemp'[k].reply.id \in DOMAIN checkouts'
  <1>1. /\ DOMAIN idemp \subseteq RestKeys /\ DOMAIN first = DOMAIN idemp
        /\ \A k \in DOMAIN idemp : idemp[k] \in R!Entry /\ idemp[k].reply.id \in DOMAIN checkouts
    BY DEF R!TypeOK
  <1>2. reply \in [live: BOOLEAN, id: Nat, copy: R!Checkout \cup {Null}] /\ reply.id = id
    <2>1. co \in R!Checkout /\ (reply = R!Live(id) \/ reply = R!CopyOf(id, co))
      BY DEF Kept
    <2>2. [live |-> TRUE, id |-> id, copy |-> Null] \in
            [live: BOOLEAN, id: Nat, copy: R!Checkout \cup {Null}]
      OBVIOUS
    <2>3. [live |-> FALSE, id |-> id, copy |-> co] \in
            [live: BOOLEAN, id: Nat, copy: R!Checkout \cup {Null}]
      BY <2>1
    <2>4. CASE reply = R!Live(id)
      <3>1. reply = [live |-> TRUE, id |-> id, copy |-> Null]
        BY <2>4 DEF R!Live
      <3>. QED BY <2>2, <3>1
    <2>5. CASE reply = R!CopyOf(id, co)
      <3>1. reply = [live |-> FALSE, id |-> id, copy |-> co]
        BY <2>5 DEF R!CopyOf
      <3>. QED BY <2>3, <3>1
    <2>. QED BY <2>1, <2>4, <2>5
  <1>3. req.body \in R!Bodies /\ id \in DOMAIN checkouts'
    BY DEF Kept, R!Requests, R!Bodies
  <1>4. \A status \in Nat : [hash |-> req.body, status |-> status, reply |-> reply] \in R!Entry
    BY <1>2, <1>3 DEF R!Entry
  <1>5. CASE req.key = NoRestKey /\ UNCHANGED <<idemp, first>>
    BY <1>1, <1>5
  <1>6. CASE ~(req.key = NoRestKey /\ UNCHANGED <<idemp, first>>)
    <2>1. /\ req.key \in RestKeys
          /\ DOMAIN idemp' = DOMAIN idemp \cup {req.key} /\ DOMAIN first' = DOMAIN idemp'
          /\ \A k \in DOMAIN idemp : idemp'[k] = idemp[k] /\ first'[k] = first[k]
          /\ \E status \in Nat :
               idemp'[req.key] = [hash |-> req.body, status |-> status, reply |-> reply]
          /\ first'[req.key] = [route |-> req.route, body |-> co]
      BY <1>1, <1>6, KeptMaps
    <2>2. PICK status \in Nat :
            idemp'[req.key] = [hash |-> req.body, status |-> status, reply |-> reply]
      BY <2>1
    <2>3. idemp'[req.key] \in R!Entry /\ idemp'[req.key].reply.id \in DOMAIN checkouts'
      BY <1>2, <1>3, <1>4, <2>2
    <2>. QED BY <1>1, <2>1, <2>3
  <1>. QED BY <1>5, <1>6

\* Every step keeps the types of the maps.
LEMMA RestTypeStep == R!TypeOK /\ [R!Next]_(R!vars) => R!TypeOK'
  <1>. SUFFICES ASSUME R!TypeOK, [R!Next]_(R!vars) PROVE R!TypeOK'
    OBVIOUS
  <1>1. checkouts \in Seq(R!Checkout) /\ orders \in Seq(Order)
    BY DEF R!TypeOK, Order
  <1>2. CASE Unmoved
    BY <1>2 DEF Unmoved, R!TypeOK
  <1>3. CASE Shipped
    <2>1. PICK o \in DOMAIN orders : orders' = [orders EXCEPT ![o].events = @ + 1]
      BY <1>3 DEF Shipped
    <2>2. orders[o] \in Order
      BY <1>1
    <2>3. [orders[o] EXCEPT !.events = @ + 1] \in Order
      BY <2>2 DEF Order
    <2>4. orders' \in Seq(Order)
      BY <1>1, <2>1, <2>3
    <2>. QED BY <1>3, <2>4 DEF Shipped, R!TypeOK, Order
  <1>4. ASSUME NEW req \in R!Requests, Created(req) PROVE R!TypeOK'
    <2>. DEFINE id == Len(checkouts) + 1
                co == [status |-> "ready", cart |-> req.body, order |-> 0]
    <2>1. /\ checkouts' = Append(checkouts, co) /\ orders' = orders /\ Kept(req, id, co, R!Live(id))
      BY <1>4 DEF Created
    <2>2. co \in R!Checkout
      BY <2>1 DEF Kept
    <2>. HIDE DEF co
    <2>3. checkouts' \in Seq(R!Checkout) /\ DOMAIN checkouts \subseteq DOMAIN checkouts' /\ id \in Nat
      BY <1>1, <2>1, <2>2
    <2>. QED BY <2>1, <2>3, KeptTyped DEF R!TypeOK
  <1>5. ASSUME NEW req \in R!Requests, NEW co, NEW reply, Changed(req, co), Kept(req, req.id, co, reply)
        PROVE  /\ checkouts' \in Seq(R!Checkout)
               /\ DOMAIN idemp' \subseteq RestKeys /\ DOMAIN first' = DOMAIN idemp'
               /\ \A k \in DOMAIN idemp' :
                    idemp'[k] \in R!Entry /\ idemp'[k].reply.id \in DOMAIN checkouts'
    <2>1. req.id \in DOMAIN checkouts /\ checkouts' = [checkouts EXCEPT ![req.id] = co]
      BY <1>5 DEF Changed
    <2>2. co \in R!Checkout
      BY <1>5 DEF Kept
    <2>3. checkouts' \in Seq(R!Checkout) /\ DOMAIN checkouts \subseteq DOMAIN checkouts' /\ req.id \in Nat
      BY <1>1, <2>1, <2>2
    <2>. QED BY <1>5, <2>3, KeptTyped
  <1>6. ASSUME NEW req \in R!Requests, Updated(req) \/ Canceled(req) PROVE R!TypeOK'
    <2>1. orders' = orders
      BY <1>6 DEF Updated, Canceled
    <2>. QED BY <1>1, <1>5, <1>6, <2>1 DEF Updated, Canceled, R!TypeOK
  <1>7. ASSUME NEW req \in R!Requests, Completed(req) PROVE R!TypeOK'
    <2>. DEFINE co == [checkouts[req.id] EXCEPT !.status = "completed", !.order = Len(orders) + 1]
    <2>1. /\ Changed(req, co) /\ Kept(req, req.id, co, R!CopyOf(req.id, co))
          /\ orders' = Append(orders, [checkout |-> req.id, cart |-> co.cart, events |-> 0])
      BY <1>7 DEF Completed
    <2>2. co \in R!Checkout /\ req.id \in DOMAIN checkouts
      BY <2>1 DEF Kept, Changed
    <2>. HIDE DEF co
    <2>3. [checkout |-> req.id, cart |-> co.cart, events |-> 0] \in Order
      BY <1>1, <2>2 DEF Order, R!Checkout
    <2>4. orders' \in Seq(Order)
      BY <1>1, <2>1, <2>3
    <2>. QED BY <1>5, <2>1, <2>4 DEF R!TypeOK, Order
  <1>. QED BY <1>2, <1>3, <1>4, <1>6, <1>7, RestSteps

LEMMA RestTypeInit == R!Init => R!TypeOK
  <1>. SUFFICES ASSUME R!Init PROVE R!TypeOK
    OBVIOUS
  <1>1. checkouts = <<>> /\ orders = <<>> /\ DOMAIN idemp = {} /\ DOMAIN first = {}
    BY DEF R!Init
  <1>. QED BY <1>1 DEF R!TypeOK

\* The maps are well typed in every reachable state.
THEOREM RestTyped == ServicesSpec => [](part = "rest" => R!TypeOK)
  <1>. DEFINE Inv == part = "rest" => R!TypeOK
  <1>1. ServicesInit => Inv
    BY PartInit, RestTypeInit
  <1>2. Inv /\ [ServicesNext]_servicesVars => Inv'
    BY PartStep, RestTypeStep
  <1>. QED BY <1>1, <1>2, PTL DEF ServicesSpec

-----------------------------------------------------------------------------
(***************************************************************************)
(* Final checkouts, keys and replies.                                      *)
(***************************************************************************)
\* A step changes only checkouts that are not final.
LEMMA FinalStep ==
  ASSUME R!TypeOK, [R!Next]_(R!vars), NEW id \in DOMAIN checkouts, checkouts[id].status \in R!Final
  PROVE  id \in DOMAIN checkouts' /\ checkouts'[id] = checkouts[id]
  <1>1. checkouts \in Seq(R!Checkout)
    BY DEF R!TypeOK
  <1>2. CASE Unmoved \/ Shipped
    BY <1>2 DEF Unmoved, Shipped
  <1>3. ASSUME NEW req \in R!Requests, Created(req)
        PROVE  id \in DOMAIN checkouts' /\ checkouts'[id] = checkouts[id]
    <2>1. PICK co : co \in R!Checkout /\ checkouts' = Append(checkouts, co)
      BY <1>3 DEF Created, Kept
    <2>. QED BY <1>1, <2>1
  <1>4. ASSUME NEW req \in R!Requests, NEW co, Changed(req, co)
        PROVE  id \in DOMAIN checkouts' /\ checkouts'[id] = checkouts[id]
    BY <1>1, <1>4 DEF Changed
  <1>. QED BY <1>2, <1>3, <1>4, RestSteps DEF Updated, Canceled, Completed

\* No retry, replay or used key changes a checkout that is completed or canceled.
THEOREM FinalCheckoutsStay == ServicesSpec => R!FinalCheckouts
  <1>. DEFINE Typed == part = "rest" => R!TypeOK
              Stay == \A id \in DOMAIN checkouts :
                        checkouts[id].status \in R!Final => checkouts'[id] = checkouts[id]
  <1>1. Typed /\ [ServicesNext]_servicesVars => [Stay]_(R!vars)
    BY FinalStep, PartStep
  <1>. QED BY <1>1, RestTyped, PTL DEF ServicesSpec, R!FinalCheckouts

\* A key is answered by execution once: with a known key every handler replays or refuses.
THEOREM KeysRunOnce == ServicesSpec => KeyRunsOnce
  <1>. DEFINE Typed == part = "rest" => R!TypeOK
              Once == part = "rest" => R!KeyStep
  <1>1. ASSUME R!TypeOK, R!Next PROVE R!KeyStep
    <2>1. NoRestKey \notin DOMAIN first /\ DOMAIN first = DOMAIN idemp
      <3>1. DOMAIN idemp \subseteq RestKeys /\ DOMAIN first = DOMAIN idemp
        BY <1>1 DEF R!TypeOK
      <3>. QED BY <3>1, ServicesAssumption DEF R!RestAssumption
    <2>. QED BY <1>1, <2>1, RestSteps
         DEF R!KeyStep, Unmoved, Shipped, Created, Updated, Canceled, Completed, Kept
  <1>2. Typed /\ [ServicesNext]_servicesVars => [Once]_restVars
    BY <1>1, PartStep DEF R!vars, restVars
  <1>. QED BY <1>2, RestTyped, PTL DEF ServicesSpec, KeyRunsOnce

\* Why replies stay: the one to complete is a copy, the one to cancel is a checkout
\* that is canceled.
ReplyOf(k) ==
  /\ first[k].route = "complete" =>
       ~idemp[k].reply.live /\ idemp[k].reply.copy = first[k].body
  /\ first[k].route = "cancel" =>
       /\ idemp[k].reply.live /\ idemp[k].reply.id \in DOMAIN checkouts
       /\ checkouts[idemp[k].reply.id] = first[k].body
       /\ first[k].body.status \in R!Final
ReplyInv == \A k \in DOMAIN first : ReplyOf(k)

LEMMA ReplyStep == R!TypeOK /\ ReplyInv /\ [R!Next]_(R!vars) => ReplyInv'
  <1>. SUFFICES ASSUME R!TypeOK, ReplyInv, [R!Next]_(R!vars), NEW k \in DOMAIN first' PROVE ReplyOf(k)'
    BY DEF ReplyInv
  <1>1. DOMAIN first = DOMAIN idemp
    BY DEF R!TypeOK
  <1>2. ASSUME k \in DOMAIN first, first'[k] = first[k], idemp'[k] = idemp[k] PROVE ReplyOf(k)'
    <2>1. ReplyOf(k)
      BY <1>2 DEF ReplyInv
    <2>2. CASE first[k].route = "cancel"
      BY <1>2, <2>1, <2>2, FinalStep DEF ReplyOf
    <2>3. CASE first[k].route # "cancel"
      BY <1>2, <2>1, <2>3 DEF ReplyOf
    <2>. QED BY <2>2, <2>3
  <1>3. CASE Unmoved \/ Shipped
    BY <1>2, <1>3 DEF Unmoved, Shipped
  <1>4. ASSUME NEW req \in R!Requests, NEW id, NEW co, NEW reply, Kept(req, id, co, reply),
               req.route = "complete" => reply = R!CopyOf(id, co),
               req.route = "cancel" => reply = R!Live(id) /\ co.status \in R!Final
        PROVE  ReplyOf(k)'
    <2>1. CASE k \in DOMAIN first
      BY <1>1, <1>2, <1>4, <2>1, KeptMaps
    <2>2. CASE k \notin DOMAIN first
      <3>1. /\ DOMAIN idemp' = DOMAIN idemp \cup {req.key} /\ DOMAIN first' = DOMAIN idemp'
            /\ \E status \in Nat :
                 idemp'[req.key] = [hash |-> req.body, status |-> status, reply |-> reply]
            /\ first'[req.key] = [route |-> req.route, body |-> co]
        <4>1. ~UNCHANGED <<idemp, first>>
          BY <2>2
        <4>. QED BY <1>1, <1>4, <4>1, KeptMaps
      <3>2. id \in DOMAIN checkouts' /\ checkouts'[id] = co
        BY <1>4 DEF Kept
      <3>3. k = req.key
        BY <1>1, <2>2, <3>1
      <3>4. first'[k].route = req.route /\ first'[k].body = co /\ idemp'[k].reply = reply
        BY <3>1, <3>3
      <3>. QED BY <1>4, <3>2, <3>4 DEF ReplyOf, R!Live, R!CopyOf
    <2>. QED BY <2>1, <2>2
  <1>5. ASSUME NEW req \in R!Requests, Created(req) \/ Updated(req) PROVE ReplyOf(k)'
    <2>1. PICK id, co, reply : Kept(req, id, co, reply)
      BY <1>5 DEF Created, Updated
    <2>2. req.route \notin {"complete", "cancel"}
      BY <1>5 DEF Created, Updated
    <2>. QED BY <1>4, <2>1, <2>2
  <1>6. ASSUME NEW req \in R!Requests, Canceled(req) PROVE ReplyOf(k)'
    <2>. DEFINE co == [checkouts[req.id] EXCEPT !.status = "canceled"]
    <2>1. /\ req.route = "cancel" /\ Changed(req, co) /\ Kept(req, req.id, co, R!Live(req.id))
      BY <1>6 DEF Canceled
    <2>2. co.status \in R!Final
      <3>1. checkouts[req.id] \in R!Checkout
        BY <2>1 DEF Changed, R!TypeOK
      <3>. QED BY <3>1 DEF R!Checkout, R!Final
    <2>. HIDE DEF co
    <2>. QED BY <1>4, <2>1, <2>2
  <1>7. ASSUME NEW req \in R!Requests, Completed(req) PROVE ReplyOf(k)'
    <2>1. PICK co : req.route = "complete" /\ Kept(req, req.id, co, R!CopyOf(req.id, co))
      BY <1>7 DEF Completed
    <2>. QED BY <1>4, <2>1
  <1>. QED BY <1>3, <1>5, <1>6, <1>7, RestSteps

\* What the reply to a completed or canceled checkout said, every replay says.
THEOREM FinalRepliesAreKept == ServicesSpec => []FinalRepliesStay
  <1>. DEFINE Typed == part = "rest" => R!TypeOK
              Inv == part = "rest" => ReplyInv
  <1>1. ServicesInit => Inv
    BY PartInit DEF R!Init, ReplyInv
  <1>2. Typed /\ Inv /\ [ServicesNext]_servicesVars => Inv'
    BY PartStep, ReplyStep
  <1>3. Inv => FinalRepliesStay
    BY DEF ReplyInv, ReplyOf, FinalRepliesStay, R!FinalRepliesStay, R!Shown
  <1>. QED BY <1>1, <1>2, <1>3, RestTyped, PTL DEF ServicesSpec

-----------------------------------------------------------------------------
(***************************************************************************)
(* Orders.                                                                 *)
(***************************************************************************)
OrderOf(o) ==
  LET co == orders[o].checkout IN
  /\ co \in DOMAIN checkouts
  /\ checkouts[co].status = "completed" /\ checkouts[co].order = o
  /\ checkouts[co].cart = orders[o].cart
CompletedHas(id) == checkouts[id].status = "completed" => checkouts[id].order \in DOMAIN orders

LEMMA OrderStep == R!TypeOK /\ R!OrderIsItsCheckout /\ [R!Next]_(R!vars) => R!OrderIsItsCheckout'
  <1>. SUFFICES ASSUME R!TypeOK, R!OrderIsItsCheckout, [R!Next]_(R!vars) PROVE R!OrderIsItsCheckout'
    OBVIOUS
  <1>1. checkouts \in Seq(R!Checkout) /\ orders \in Seq(Order)
    BY DEF R!TypeOK, Order
  <1>2. /\ \A o \in DOMAIN orders : OrderOf(o)
        /\ \A id \in DOMAIN checkouts : CompletedHas(id)
    BY DEF R!OrderIsItsCheckout, OrderOf, CompletedHas
  <1>3. SUFFICES /\ \A o \in DOMAIN orders' : OrderOf(o)'
                 /\ \A id \in DOMAIN checkouts' : CompletedHas(id)'
    BY DEF R!OrderIsItsCheckout, OrderOf, CompletedHas
  <1>4. ASSUME NEW o \in DOMAIN orders, orders'[o].checkout = orders[o].checkout,
               orders'[o].cart = orders[o].cart
        PROVE  OrderOf(o)'
    BY <1>2, <1>4, FinalStep DEF OrderOf, R!Final
  <1>5. CASE Unmoved \/ Shipped
    <2>1. /\ checkouts' = checkouts /\ DOMAIN orders' = DOMAIN orders
          /\ \A o \in DOMAIN orders :
               orders'[o].checkout = orders[o].checkout /\ orders'[o].cart = orders[o].cart
      <3>1. CASE Unmoved
        BY <3>1 DEF Unmoved
      <3>2. CASE Shipped
        <4>1. PICK n \in DOMAIN orders : orders' = [orders EXCEPT ![n].events = @ + 1]
          BY <3>2 DEF Shipped
        <4>2. \A o \in DOMAIN orders : orders[o] \in Order
          BY <1>1
        <4>. QED BY <3>2, <4>1, <4>2 DEF Shipped, Order
      <3>. QED BY <1>5, <3>1, <3>2
    <2>. QED BY <1>2, <1>4, <2>1 DEF CompletedHas
  <1>6. ASSUME NEW req \in R!Requests, Created(req)
        PROVE  /\ \A o \in DOMAIN orders' : OrderOf(o)'
               /\ \A id \in DOMAIN checkouts' : CompletedHas(id)'
    <2>. DEFINE co == [status |-> "ready", cart |-> req.body, order |-> 0]
    <2>1. orders' = orders /\ checkouts' = Append(checkouts, co) /\ co \in R!Checkout
      BY <1>6 DEF Created, Kept
    <2>2. \A id \in DOMAIN checkouts' :
            (id \in DOMAIN checkouts /\ checkouts'[id] = checkouts[id])
            \/ checkouts'[id].status = "ready"
      BY <1>1, <2>1
    <2>. QED BY <1>2, <1>4, <2>1, <2>2 DEF CompletedHas
  <1>7. ASSUME NEW req \in R!Requests, Updated(req) \/ Canceled(req)
        PROVE  /\ \A o \in DOMAIN orders' : OrderOf(o)'
               /\ \A id \in DOMAIN checkouts' : CompletedHas(id)'
    <2>1. orders' = orders
      BY <1>7 DEF Updated, Canceled
    <2>2. PICK co : Changed(req, co) /\ co.status # "completed"
      <3>1. checkouts[req.id] \in R!Checkout /\ checkouts[req.id].status \notin R!Final
        BY <1>1, <1>7 DEF Updated, Canceled, Changed
      <3>2. [checkouts[req.id] EXCEPT !.cart =
               IF req.body = Empty THEN @ ELSE req.body].status # "completed"
        BY <3>1 DEF R!Checkout, R!Final
      <3>3. [checkouts[req.id] EXCEPT !.status = "canceled"].status # "completed"
        BY <3>1 DEF R!Checkout
      <3>. QED BY <1>7, <3>2, <3>3 DEF Updated, Canceled
    <2>3. \A id \in DOMAIN checkouts' :
            id \in DOMAIN checkouts /\ (checkouts'[id] = checkouts[id] \/ checkouts'[id].status # "completed")
      BY <1>1, <2>2 DEF Changed
    <2>. QED BY <1>2, <1>4, <2>1, <2>3 DEF CompletedHas
  <1>8. ASSUME NEW req \in R!Requests, Completed(req)
        PROVE  /\ \A o \in DOMAIN orders' : OrderOf(o)'
               /\ \A id \in DOMAIN checkouts' : CompletedHas(id)'
    <2>. DEFINE new == Len(orders) + 1
                co == [checkouts[req.id] EXCEPT !.status = "completed", !.order = new]
                order == [checkout |-> req.id, cart |-> co.cart, events |-> 0]
    <2>1. Changed(req, co) /\ orders' = Append(orders, order) /\ co \in R!Checkout
      BY <1>8 DEF Completed, Kept
    <2>2. co.status = "completed" /\ co.order = new
      <3>1. checkouts[req.id] \in R!Checkout
        BY <1>1, <2>1 DEF Changed
      <3>. QED BY <3>1 DEF R!Checkout
    <2>3. order.checkout = req.id /\ order.cart = co.cart /\ order \in Order
      BY <1>1, <2>1 DEF Order, R!Checkout, Changed
    <2>. HIDE DEF co, order
    <2>4. /\ DOMAIN orders' = DOMAIN orders \cup {new} /\ orders'[new] = order
          /\ \A o \in DOMAIN orders : orders'[o] = orders[o]
      BY <1>1, <2>1, <2>3
    <2>5. /\ req.id \in DOMAIN checkouts' /\ checkouts'[req.id] = co
          /\ \A id \in DOMAIN checkouts' :
               id \in DOMAIN checkouts /\ (id # req.id => checkouts'[id] = checkouts[id])
      BY <1>1, <2>1 DEF Changed
    <2>6. ASSUME NEW o \in DOMAIN orders', o = new PROVE OrderOf(o)'
      <3>1. orders'[o].checkout = req.id /\ orders'[o].cart = co.cart
        BY <2>3, <2>4, <2>6
      <3>2. checkouts'[req.id].status = "completed" /\ checkouts'[req.id].order = o
        BY <2>2, <2>5, <2>6
      <3>3. checkouts'[req.id].cart = co.cart
        BY <2>5
      <3>. QED BY <2>5, <3>1, <3>2, <3>3 DEF OrderOf
    <2>7. ASSUME NEW o \in DOMAIN orders', o # new PROVE OrderOf(o)'
      BY <1>4, <2>4, <2>7
    <2>8. \A id \in DOMAIN checkouts' : CompletedHas(id)'
      <3>. HIDE DEF new
      <3>. QED BY <1>2, <2>2, <2>4, <2>5 DEF CompletedHas
    <2>. QED BY <2>6, <2>7, <2>8
  <1>. QED BY <1>5, <1>6, <1>7, <1>8, RestSteps

\* An order is its checkout's only one, with the cart it was completed with.
THEOREM OrdersAreOfTheirCheckouts ==
  ServicesSpec => [](part = "rest" => R!OrderIsItsCheckout)
  <1>. DEFINE Typed == part = "rest" => R!TypeOK
              Inv == part = "rest" => R!OrderIsItsCheckout
  <1>1. ServicesInit => Inv
    BY PartInit DEF R!Init, R!OrderIsItsCheckout
  <1>2. Typed /\ Inv /\ [ServicesNext]_servicesVars => Inv'
    BY PartStep, OrderStep
  <1>. QED BY <1>1, <1>2, RestTyped, PTL DEF ServicesSpec

-----------------------------------------------------------------------------
(***************************************************************************)
(* Carts.  update_cart works through its rows with a fold, and drops the   *)
(* empty lines with another; what every step of a fold keeps, the fold     *)
(* keeps (FoldKeeps).                                                      *)
(***************************************************************************)
Line == [id: Nat, item: Products, price: Prices, qty: Int]
Merging == [lines: Seq(Line), failed: BOOLEAN]

\* The position a fold over n positions works on last.
Last(n) == [s \in SUBSET (1..n) |-> LastOf(s)]

LEMMA LastPicks ==
  ASSUME NEW n \in Nat
  PROVE  Picks(Last(n), 1..n)
  BY LastExists DEF Last, Picks

LEMMA CartsFacts ==
  /\ Products \cap {Unknown, Null} = {} /\ Quantities \subseteq Int /\ Prices \subseteq Nat
  /\ \A row \in C!Rows : /\ row.id \in Nat /\ row.item \in Products \cup {Unknown, Null}
                         /\ row.qty \in Int \cup {Null}
  <1>1. C!CartsAssumption
    BY ServicesAssumption DEF ServicesAssumption
  <1>2. /\ Products \cap {Unknown, Null} = {} /\ Quantities \subseteq Int /\ Prices \subseteq Nat
        /\ MaxId \in Nat
    BY <1>1 DEF C!CartsAssumption
  <1>3. ASSUME NEW row \in C!Rows
        PROVE  /\ row.id \in Nat /\ row.item \in Products \cup {Unknown, Null}
               /\ row.qty \in Int \cup {Null}
    <2>1. /\ row.id \in 0..MaxId /\ row.item \in Products \cup {Unknown, Null}
          /\ row.qty \in Quantities \cup {Null}
      BY <1>3 DEF C!Rows
    <2>2. row.id \in Nat
      BY <1>2, <2>1
    <2>3. row.qty \in Int \cup {Null}
      BY <1>2, <2>1
    <2>. QED BY <2>1, <2>2, <2>3
  <1>. QED BY <1>2, <1>3

LEMMA QuantityAtLeast ==
  ASSUME NEW n \in {0, 1}, NEW qty \in Int \cup {Null}
  PROVE  C!AtLeast(n, qty) \in Int /\ (n = 1 => C!AtLeast(n, qty) > 0)
  BY DEF C!AtLeast

LEMMA LineTyped ==
  ASSUME catalog \in [Products -> Prices], NEW row \in C!Rows, row.item \in Products,
         NEW position \in Nat
  PROVE  C!LineOf(row, position) \in Line /\ C!LineOf(row, position).qty > 0
  <1>1. C!AtLeast(1, row.qty) \in Int /\ C!AtLeast(1, row.qty) > 0
    BY CartsFacts, QuantityAtLeast
  <1>2. row.id \in Nat /\ catalog[row.item] \in Prices
    BY CartsFacts
  <1>. QED BY <1>1, <1>2 DEF C!LineOf, Line

\* A row leaves the lines what they are: lines of products of the catalog.
LEMMA MergeTyped ==
  ASSUME catalog \in [Products -> Prices], NEW done \in Merging, NEW row \in C!Rows
  PROVE  C!Merge(done, row) \in Merging
  <1>1. done.lines \in Seq(Line) /\ done.failed \in BOOLEAN
    BY DEF Merging
  <1>2. CASE done.failed
    BY <1>2 DEF C!Merge
  <1>3. CASE ~done.failed /\ C!Matching(done.lines, row) # {}
    <2>1. CASE row.qty = Null
      BY <1>3, <2>1 DEF C!Merge
    <2>2. CASE row.qty # Null
      <3>. DEFINE i == C!LineFor(done.lines, row)
                  q == C!AtLeast(0, row.qty)
                  lines == [done.lines EXCEPT ![i].qty = q]
      <3>1. q \in Int
        BY CartsFacts, QuantityAtLeast
      <3>2. C!Merge(done, row) = [done EXCEPT !.lines = lines]
        BY <1>3, <2>2 DEF C!Merge
      <3>. HIDE DEF i, q
      <3>3. lines \in Seq(Line)
        <4>1. ASSUME NEW j \in 1..Len(done.lines)
              PROVE  lines[j] \in Line
          <5>1. done.lines[j] \in Line
            BY <1>1, <4>1
          <5>2. lines[j] = IF j = i THEN [done.lines[j] EXCEPT !.qty = q] ELSE done.lines[j]
            BY <1>1, <4>1
          <5>3. [done.lines[j] EXCEPT !.qty = q] \in Line
            BY <3>1, <5>1 DEF Line
          <5>. HIDE DEF lines
          <5>. QED BY <5>1, <5>2, <5>3
        <4>2. DOMAIN lines = 1..Len(done.lines) /\ Len(done.lines) \in Nat
          BY <1>1
        <4>3. lines = [j \in DOMAIN lines |-> lines[j]]
          OBVIOUS
        <4>. HIDE DEF lines
        <4>4. lines \in [1..Len(done.lines) -> Line]
          BY <4>1, <4>2, <4>3
        <4>. QED BY <4>2, <4>4
      <3>. HIDE DEF lines
      <3>. QED BY <1>1, <3>2, <3>3 DEF Merging
    <2>. QED BY <2>1, <2>2
  <1>4. CASE ~done.failed /\ C!Matching(done.lines, row) = {} /\ row.item = Null
    BY <1>4 DEF C!Merge
  <1>5. CASE ~done.failed /\ C!Matching(done.lines, row) = {} /\ row.item = Unknown
    BY <1>5, CartsFacts DEF C!Merge, Merging
  <1>6. CASE ~done.failed /\ C!Matching(done.lines, row) = {} /\ row.item \notin {Null, Unknown}
    <2>1. C!LineOf(row, 1) \in Line
      BY <1>6, CartsFacts, LineTyped
    <2>2. C!Merge(done, row) = [done EXCEPT !.lines = Append(done.lines, C!LineOf(row, 1))]
      BY <1>6 DEF C!Merge
    <2>3. Append(done.lines, C!LineOf(row, 1)) \in Seq(Line)
      BY <1>1, <2>1
    <2>. QED BY <1>1, <2>2, <2>3 DEF Merging
  <1>. QED BY <1>2, <1>3, <1>4, <1>5, <1>6

\* The fold over the rows.
MergeRows(g, base, rows) ==
  g = [s \in SUBSET DOMAIN rows |->
         IF s = {} THEN base ELSE C!Merge(g[s \ {LastOf(s)}], rows[LastOf(s)])]

LEMMA MergedTyped ==
  ASSUME catalog \in [Products -> Prices], NEW base \in Merging, NEW n \in Nat,
         NEW rows \in [1..n -> C!Rows]
  PROVE  C!FoldLeft(C!Merge, base, rows) \in Merging
  <1>. DEFINE S == 1..n
              step == [x \in S \X Merging |-> C!Merge(x[2], rows[x[1]])]
              pick == Last(n)
  <1>1. IsFiniteSet(S) /\ Picks(pick, S) /\ DOMAIN rows = S
    BY LastPicks, FS_Interval
  <1>2. step \in [S \X Merging -> Merging]
    BY MergeTyped
  <1>3. PICK h : IsIter(h, step, base, pick, S)
    BY <1>1, IterExists
  <1>4. \A s \in SUBSET S : h[s] \in Merging
    <2>. HIDE DEF step, pick, S
    <2>. QED BY <1>1, <1>2, <1>3, IterTyped
  <1>5. \A s \in SUBSET S : s # {} => pick[s] \in S /\ pick[s] = LastOf(s)
    BY <1>1 DEF Picks, Last
  <1>6. MergeRows(h, base, rows)
    <2>1. ASSUME NEW s \in SUBSET S
          PROVE  h[s] = IF s = {} THEN base ELSE C!Merge(h[s \ {LastOf(s)}], rows[LastOf(s)])
      <3>1. CASE s = {}
        <4>1. h[{}] = base
          <5>. HIDE DEF step, pick
          <5>. QED BY <1>3, IterEmpty
        <4>. QED BY <3>1, <4>1
      <3>2. CASE s # {}
        <4>. DEFINE v == s \ {LastOf(s)}
        <4>1. h[s] = step[<<pick[s], h[s \ {pick[s]}]>>]
          <5>. HIDE DEF step, pick
          <5>. QED BY <1>3, <3>2, IterStep
        <4>2. h[s] = step[<<LastOf(s), h[v]>>] /\ LastOf(s) \in S
          <5>. HIDE DEF step, pick, S
          <5>. QED BY <1>5, <3>2, <4>1
        <4>3. h[v] \in Merging
          BY <1>4
        <4>4. step[<<LastOf(s), h[v]>>] = C!Merge(h[v], rows[LastOf(s)])
          BY <4>2, <4>3
        <4>. HIDE DEF step
        <4>. QED BY <3>2, <4>2, <4>4
      <3>. QED BY <3>1, <3>2
    <2>2. h = [s \in SUBSET S |-> h[s]]
      BY <1>3 DEF IsIter
    <2>. HIDE DEF S, step, pick
    <2>. QED BY <1>1, <2>1, <2>2 DEF MergeRows
  <1>. HIDE DEF step, pick, S
  <1>7. \E g : MergeRows(g, base, rows) /\ C!FoldLeft(C!Merge, base, rows) = g[DOMAIN rows]
    BY <1>6, Zenon DEF C!FoldLeft, C!MapThenFoldSet, C!Max, MergeRows, LastOf
  <1>8. PICK g : MergeRows(g, base, rows) /\ C!FoldLeft(C!Merge, base, rows) = g[S]
    BY <1>1, <1>7
  <1>9. g[{}] \in Merging
    BY <1>8 DEF MergeRows
  <1>10. ASSUME NEW s \in SUBSET S, s # {}, g[s \ {pick[s]}] \in Merging
         PROVE  g[s] \in Merging
    <2>1. pick[s] = LastOf(s) /\ LastOf(s) \in S
      BY <1>5, <1>10
    <2>2. g[s] = C!Merge(g[s \ {LastOf(s)}], rows[LastOf(s)])
      BY <1>1, <1>8, <1>10 DEF MergeRows
    <2>3. rows[LastOf(s)] \in C!Rows
      BY <2>1 DEF S
    <2>. QED BY <1>10, <2>1, <2>2, <2>3, MergeTyped
  <1>11. \A s \in SUBSET S : g[s] \in Merging
    BY <1>1, <1>9, <1>10, FoldKeeps
  <1>. QED BY <1>8, <1>11

\* The lines that stay.
Positive == {li \in Line : li.qty > 0}

Keep(kept, li) == IF li.qty > 0 THEN Append(kept, li) ELSE kept

KeepRows(g, lines) ==
  g = [s \in SUBSET DOMAIN lines |->
         IF s = {} THEN <<>> ELSE Keep(g[s \ {LastOf(s)}], lines[LastOf(s)])]

LEMMA KeepTyped ==
  ASSUME NEW kept \in Seq(Positive), NEW li \in Line
  PROVE  Keep(kept, li) \in Seq(Positive)
  <1>1. CASE li.qty > 0
    <2>1. li \in Positive
      BY <1>1 DEF Positive
    <2>2. Append(kept, li) \in Seq(Positive)
      BY <2>1
    <2>. QED BY <1>1, <2>2 DEF Keep
  <1>2. CASE ~(li.qty > 0)
    BY <1>2 DEF Keep
  <1>. QED BY <1>1, <1>2

LEMMA RemainingTyped ==
  ASSUME NEW lines \in Seq(Line)
  PROVE  C!Remaining(lines) \in Seq(Positive)
  <1>. DEFINE S == 1..Len(lines)
              T == Seq(Positive)
              step == [x \in S \X T |-> Keep(x[2], lines[x[1]])]
              pick == Last(Len(lines))
  <1>1. IsFiniteSet(S) /\ Picks(pick, S) /\ DOMAIN lines = S /\ \A i \in S : lines[i] \in Line
    BY LastPicks, FS_Interval
  <1>e. <<>> \in T
    OBVIOUS
  <1>2. step \in [S \X T -> T]
    BY <1>1, KeepTyped
  <1>3. PICK h : IsIter(h, step, <<>>, pick, S)
    BY <1>1, IterExists
  <1>4. \A s \in SUBSET S : h[s] \in T
    <2>. HIDE DEF step, pick, S, T
    <2>. QED BY <1>1, <1>e, <1>2, <1>3, IterTyped
  <1>5. \A s \in SUBSET S : s # {} => pick[s] \in S /\ pick[s] = LastOf(s)
    BY <1>1 DEF Picks, Last
  <1>6. KeepRows(h, lines)
    <2>1. ASSUME NEW s \in SUBSET S
          PROVE  h[s] = IF s = {} THEN <<>> ELSE Keep(h[s \ {LastOf(s)}], lines[LastOf(s)])
      <3>1. CASE s = {}
        <4>1. h[{}] = <<>>
          <5>. HIDE DEF step, pick
          <5>. QED BY <1>3, IterEmpty
        <4>. QED BY <3>1, <4>1
      <3>2. CASE s # {}
        <4>. DEFINE v == s \ {LastOf(s)}
        <4>1. h[s] = step[<<pick[s], h[s \ {pick[s]}]>>]
          <5>. HIDE DEF step, pick, S, T
          <5>. QED BY <1>3, <3>2, IterStep
        <4>2. h[s] = step[<<LastOf(s), h[v]>>] /\ LastOf(s) \in S
          <5>. HIDE DEF step, pick, S
          <5>. QED BY <1>5, <3>2, <4>1
        <4>3. h[v] \in T
          BY <1>4
        <4>4. step[<<LastOf(s), h[v]>>] = Keep(h[v], lines[LastOf(s)])
          BY <4>2, <4>3
        <4>. HIDE DEF step
        <4>. QED BY <3>2, <4>2, <4>4
      <3>. QED BY <3>1, <3>2
    <2>2. h = [s \in SUBSET S |-> h[s]]
      BY <1>3 DEF IsIter
    <2>. HIDE DEF S, step, pick
    <2>. QED BY <1>1, <2>1, <2>2 DEF KeepRows
  <1>. HIDE DEF step, pick, S, T
  <1>7. \E g : KeepRows(g, lines) /\ C!Remaining(lines) = g[DOMAIN lines]
    BY <1>6, Zenon DEF C!Remaining, C!FoldLeft, C!MapThenFoldSet, C!Max, KeepRows, Keep, LastOf
  <1>8. PICK g : KeepRows(g, lines) /\ C!Remaining(lines) = g[S]
    BY <1>1, <1>7
  <1>9. g[{}] \in T
    BY <1>e, <1>8 DEF KeepRows
  <1>10. ASSUME NEW s \in SUBSET S, s # {}, g[s \ {pick[s]}] \in T
         PROVE  g[s] \in T
    <2>1. pick[s] = LastOf(s) /\ LastOf(s) \in S
      BY <1>5, <1>10
    <2>2. g[s] = Keep(g[s \ {LastOf(s)}], lines[LastOf(s)])
      BY <1>1, <1>8, <1>10 DEF KeepRows
    <2>3. lines[LastOf(s)] \in Line
      BY <1>1, <2>1
    <2>4. g[s \ {LastOf(s)}] \in Seq(Positive)
      BY <1>10, <2>1 DEF T
    <2>. QED BY <2>2, <2>3, <2>4, KeepTyped DEF T
  <1>11. \A s \in SUBSET S : g[s] \in T
    BY <1>1, <1>9, <1>10, FoldKeeps
  <1>. QED BY <1>8, <1>11 DEF T

(***************************************************************************)
(* What is kept, besides what a cart shows: carts and catalog are typed.   *)
(***************************************************************************)
CartInv ==
  /\ catalog \in [Products -> Prices] /\ broken \in BOOLEAN
  /\ DOMAIN cart = {"lines", "total", "status"} /\ cart.lines \in Seq(Line)
  /\ cart = [lines |-> cart.lines, total |-> cart.total, status |-> cart.status]
  /\ C!CartAddsUp

TotalOf(g, lines) ==
  g = [s \in SUBSET DOMAIN lines |->
         IF s = {} THEN 0
         ELSE g[s \ {LastOf(s)}] + lines[LastOf(s)].price * lines[LastOf(s)].qty]

LEMMA EmptyTotal == C!CartTotal(<<>>) = 0
  <1>. DEFINE h == [s \in SUBSET {} |-> 0]
  <1>1. DOMAIN <<>> = {}
    OBVIOUS
  <1>2. TotalOf(h, <<>>)
    <2>1. ASSUME NEW s \in SUBSET {}
          PROVE  h[s] = IF s = {} THEN 0
                        ELSE h[s \ {LastOf(s)}] + <<>>[LastOf(s)].price * <<>>[LastOf(s)].qty
      BY <2>1
    <2>2. h = [s \in SUBSET {} |-> h[s]]
      OBVIOUS
    <2>. HIDE DEF h
    <2>. QED BY <1>1, <2>1, <2>2 DEF TotalOf
  <1>. HIDE DEF h
  <1>3. \E g : TotalOf(g, <<>>) /\ C!CartTotal(<<>>) = g[DOMAIN <<>>]
    BY <1>2, Zenon DEF C!CartTotal, C!FoldLeft, C!MapThenFoldSet, C!Max, TotalOf, LastOf
  <1>4. PICK g : TotalOf(g, <<>>) /\ C!CartTotal(<<>>) = g[{}]
    BY <1>1, <1>3
  <1>. QED BY <1>1, <1>4 DEF TotalOf

LEMMA CartInit == C!Init => CartInv
  <1>. SUFFICES ASSUME C!Init PROVE CartInv
    OBVIOUS
  <1>1. <<>> \in Seq(Line) /\ DOMAIN <<>> = {}
    OBVIOUS
  <1>2. /\ cart = [lines |-> <<>>, total |-> 0, status |-> "none"]
        /\ broken = FALSE /\ catalog \in [Products -> Prices]
    BY DEF C!Init, C!NoCart
  <1>3. /\ cart.lines = <<>> /\ cart.total = 0 /\ cart.status = "none"
        /\ DOMAIN cart = {"lines", "total", "status"}
    BY <1>2
  <1>4. C!CartAddsUp
    BY <1>1, <1>3, EmptyTotal DEF C!CartAddsUp
  <1>. QED BY <1>1, <1>2, <1>3, <1>4 DEF CartInv

LEMMA RowsTyped ==
  ASSUME NEW rows \in C!Requests
  PROVE  \E n \in Nat : rows \in [1..n -> C!Rows]
  <1>1. MaxRows \in Nat
    BY ServicesAssumption DEF ServicesAssumption, C!CartsAssumption
  <1>. QED BY <1>1 DEF C!Requests, C!SeqOf

LEMMA CreateKeeps ==
  ASSUME CartInv, NEW rows \in C!Requests, C!CreateCart(rows)
  PROVE  CartInv'
  <1>1. PICK n \in Nat : rows \in [1..n -> C!Rows]
    BY RowsTyped
  <1>. DEFINE lines == [i \in DOMAIN rows |-> C!LineOf(rows[i], i)]
  <1>2. /\ cart' = [lines |-> lines, total |-> C!CartTotal(lines), status |-> "active"]
        /\ broken' = FALSE /\ catalog' = catalog /\ C!Available(rows)
    BY DEF C!CreateCart
  <1>3. DOMAIN rows = 1..n /\ \A i \in 1..n : rows[i] \in C!Rows /\ rows[i].item \in Products
    BY <1>1, <1>2 DEF C!Available
  <1>4. \A i \in 1..n : C!LineOf(rows[i], i) \in Line /\ C!LineOf(rows[i], i).qty > 0
    BY <1>3, LineTyped DEF CartInv
  <1>5. lines \in [1..n -> Line] /\ \A i \in DOMAIN lines : lines[i].qty > 0
    BY <1>3, <1>4
  <1>. HIDE DEF lines
  <1>6. lines \in Seq(Line)
    BY <1>1, <1>5
  <1>. QED BY <1>2, <1>5, <1>6 DEF CartInv, C!CartAddsUp

LEMMA UpdateKeeps ==
  ASSUME CartInv, NEW rows \in C!Requests, C!UpdateCart(rows)
  PROVE  CartInv'
  <1>1. PICK n \in Nat : rows \in [1..n -> C!Rows]
    BY RowsTyped
  <1>. DEFINE done == C!FoldLeft(C!Merge, [lines |-> cart.lines, failed |-> FALSE], rows)
              lines == C!Remaining(done.lines)
  <1>2. /\ cart' = IF done.failed THEN [cart EXCEPT !.lines = done.lines]
                   ELSE [cart EXCEPT !.lines = lines, !.total = C!CartTotal(lines)]
        /\ broken' = (done.failed /\ (broken \/ done.lines # cart.lines))
        /\ catalog' = catalog
    BY DEF C!UpdateCart
  <1>3. done \in Merging
    <2>1. [lines |-> cart.lines, failed |-> FALSE] \in Merging
      BY DEF CartInv, Merging
    <2>2. catalog \in [Products -> Prices]
      BY DEF CartInv
    <2>. HIDE DEF done
    <2>. QED BY <1>1, <2>1, <2>2, MergedTyped DEF done
  <1>. HIDE DEF done
  <1>4. done.lines \in Seq(Line) /\ done.failed \in BOOLEAN
    BY <1>3 DEF Merging
  <1>5. lines \in Seq(Positive)
    BY <1>4, RemainingTyped
  <1>. HIDE DEF lines
  <1>6. lines \in Seq(Line) /\ \A i \in DOMAIN lines : lines[i].qty > 0
    BY <1>5 DEF Positive
  <1>7. CASE done.failed
    <2>1. cart' = [cart EXCEPT !.lines = done.lines]
      BY <1>2, <1>7
    <2>2. /\ cart'.lines = done.lines /\ cart'.total = cart.total
          /\ DOMAIN cart' = {"lines", "total", "status"}
          /\ cart' = [lines |-> cart'.lines, total |-> cart'.total, status |-> cart'.status]
      BY <2>1 DEF CartInv
    <2>3. broken' = (broken \/ done.lines # cart.lines)
      BY <1>2, <1>7
    <2>4. broken' \in BOOLEAN /\ (~broken' => C!CartAddsUp /\ ~broken /\ cart'.lines = cart.lines)
      BY <2>2, <2>3 DEF CartInv
    <2>5. C!CartAddsUp'
      BY <2>2, <2>4 DEF C!CartAddsUp
    <2>. QED BY <1>2, <1>4, <2>2, <2>4, <2>5 DEF CartInv
  <1>8. CASE ~done.failed
    <2>1. cart' = [cart EXCEPT !.lines = lines, !.total = C!CartTotal(lines)]
      BY <1>2, <1>8
    <2>2. /\ cart'.lines = lines /\ cart'.total = C!CartTotal(lines)
          /\ DOMAIN cart' = {"lines", "total", "status"}
          /\ cart' = [lines |-> cart'.lines, total |-> cart'.total, status |-> cart'.status]
      BY <2>1 DEF CartInv
    <2>3. broken' \in BOOLEAN
      BY <1>2, <1>8
    <2>4. C!CartAddsUp'
      BY <1>6, <2>2 DEF C!CartAddsUp
    <2>. QED BY <1>2, <1>6, <2>2, <2>3, <2>4 DEF CartInv
  <1>. QED BY <1>4, <1>7, <1>8

LEMMA CartStep == CartInv /\ [C!Next]_(C!vars) => CartInv'
  <1>. SUFFICES ASSUME CartInv, [C!Next]_(C!vars) PROVE CartInv'
    OBVIOUS
  <1>1. ASSUME C!CancelCart PROVE CartInv'
    <2>1. cart' = [cart EXCEPT !.status = "canceled"] /\ UNCHANGED <<catalog, broken>>
      BY <1>1 DEF C!CancelCart
    <2>2. /\ cart'.lines = cart.lines /\ cart'.total = cart.total
          /\ DOMAIN cart' = {"lines", "total", "status"}
          /\ cart' = [lines |-> cart'.lines, total |-> cart'.total, status |-> cart'.status]
      BY <2>1 DEF CartInv
    <2>. QED BY <2>1, <2>2 DEF CartInv, C!CartAddsUp
  <1>2. ASSUME NEW p \in Products, NEW price \in Prices, C!EditCatalog(p, price) PROVE CartInv'
    BY <1>2 DEF C!EditCatalog, CartInv, C!CartAddsUp
  <1>3. ASSUME UNCHANGED C!vars PROVE CartInv'
    BY <1>3 DEF C!vars, CartInv, C!CartAddsUp
  <1>. QED BY <1>1, <1>2, <1>3, CreateKeeps, UpdateKeeps DEF C!Next

\* The total a cart shows is the sum of its lines, each of at least one piece, for every
\* catalog and every list of rows, unless the last update threw half-way.
THEOREM CartsAddUp == ServicesSpec => []CartAddsUp
  <1>. DEFINE Inv == part = "carts" => CartInv
  <1>1. ServicesInit => Inv
    BY PartInit, CartInit
  <1>2. Inv /\ [ServicesNext]_servicesVars => Inv'
    BY PartStep, CartStep
  <1>3. Inv => CartAddsUp
    BY DEF CartInv, CartAddsUp
  <1>. QED BY <1>1, <1>2, <1>3, PTL DEF ServicesSpec

-----------------------------------------------------------------------------
(***************************************************************************)
(* Negotiation, for every set of names and every pair of profiles, rings   *)
(* of extensions included.                                                 *)
(***************************************************************************)
\* What pruning keeps: no closed set of mutual names ever loses a name, and in a pass
\* that has taken nothing out so far, every name already visited has its parent.
PruneInv ==
  pass # "idle" =>
    /\ active \subseteq N!Mutual(platform, business)
    /\ \A names \in SUBSET N!Mutual(platform, business) : N!Closed(names) => names \subseteq active
    /\ ~changed => \A n \in active \ visit : N!Supported(n, active)
    /\ pass = "done" => ~changed /\ visit = {}

\* A parent found in a set is found in every larger one.
LEMMA SupportGrows ==
  ASSUME NEW n, NEW few, NEW many, few \subseteq many, N!Supported(n, few)
  PROVE  N!Supported(n, many)
  BY DEF N!Supported

LEMMA PruneInit == N!Init => PruneInv
  BY DEF N!Init, PruneInv

\* Every step keeps the invariant, whichever name a pass visits next.
LEMMA PruneStep == PruneInv /\ [N!Next]_(N!vars) => PruneInv'
  <1>. SUFFICES ASSUME PruneInv, [N!Next]_(N!vars) PROVE PruneInv'
    OBVIOUS
  <1>1. CASE N!Discover
    <2>1. /\ pass' = "pruning" /\ changed' = FALSE
          /\ active' = N!Mutual(platform', business') /\ visit' = N!Mutual(platform', business')
      BY <1>1 DEF N!Discover
    <2>. QED BY <2>1 DEF PruneInv
  <1>2. ASSUME NEW n \in Names, N!Visit(n) PROVE PruneInv'
    <2>. DEFINE mutual == N!Mutual(platform, business)
    <2>1. /\ pass = "pruning" /\ pass' = pass /\ n \in visit /\ visit' = visit \ {n}
          /\ platform' = platform /\ business' = business
      BY <1>2 DEF N!Visit
    <2>2. /\ active \subseteq mutual
          /\ \A names \in SUBSET mutual : N!Closed(names) => names \subseteq active
          /\ ~changed => \A m \in active \ visit : N!Supported(m, active)
      BY <2>1 DEF PruneInv
    <2>3. /\ mutual' = mutual
          /\ \A names : N!Closed(names)' <=> N!Closed(names)
          /\ \A m, names : N!Supported(m, names)' <=> N!Supported(m, names)
      BY <2>1 DEF N!Mutual, N!Clean, N!Closed, N!Supported
    <2>. HIDE DEF mutual
    <2>4. CASE N!Supported(n, active)
      <3>1. active' = active /\ changed' = changed
        BY <1>2, <2>4 DEF N!Visit
      <3>2. ~changed' => \A m \in active' \ visit' : N!Supported(m, active')
        BY <2>1, <2>2, <2>4, <3>1
      <3>. QED BY <2>1, <2>2, <2>3, <3>1, <3>2 DEF PruneInv, mutual
    <2>5. CASE ~N!Supported(n, active)
      <3>1. active' = active \ {n} /\ changed'
        BY <1>2, <2>5 DEF N!Visit
      <3>2. ASSUME NEW names \in SUBSET mutual, N!Closed(names) PROVE names \subseteq active'
        <4>1. names \subseteq active
          BY <2>2, <3>2
        <4>2. n \notin names
          BY <2>5, <3>2, <4>1, SupportGrows DEF N!Closed
        <4>. QED BY <3>1, <4>1, <4>2
      <3>. QED BY <2>1, <2>2, <2>3, <3>1, <3>2 DEF PruneInv, mutual
    <2>. QED BY <2>4, <2>5
  <1>3. CASE N!EndPass
    <2>1. /\ pass = "pruning" /\ visit = {}
          /\ platform' = platform /\ business' = business /\ active' = active
          /\ \/ changed /\ visit' = active /\ changed' = FALSE /\ pass' = pass
             \/ ~changed /\ pass' = "done" /\ visit' = visit /\ changed' = changed
      BY <1>3 DEF N!EndPass
    <2>. QED BY <2>1 DEF PruneInv, N!Mutual, N!Clean, N!Closed, N!Supported
  <1>4. CASE UNCHANGED N!vars
    BY <1>4 DEF N!vars, PruneInv, N!Mutual, N!Clean, N!Closed, N!Supported
  <1>. QED BY <1>1, <1>2, <1>3, <1>4 DEF N!Next

\* Intersection ends with the greatest closed set of mutual capabilities, whatever the
\* profiles say and in whatever order passes visit the names.
THEOREM GreatestIntersection == ServicesSpec => []IntersectionIsGreatest
  <1>. DEFINE Inv == part = "negotiation" => PruneInv
  <1>1. ServicesInit => Inv
    BY PartInit, PruneInit
  <1>2. Inv /\ [ServicesNext]_servicesVars => Inv'
    BY PartStep, PruneStep
  <1>3. Inv => IntersectionIsGreatest
    BY DEF PruneInv, IntersectionIsGreatest, N!IntersectionIsGreatest, N!Closed
  <1>. QED BY <1>1, <1>2, <1>3, PTL DEF ServicesSpec

-----------------------------------------------------------------------------
LEMMA ProfilesStep ==
  ASSUME N!NegotiationAssumption, N!TypeOK, [N!Next]_(N!vars)
  PROVE  N!TypeOK'
  <1>1. \A p, b : N!Mutual(p, b) \subseteq Names
    BY DEF N!Mutual, N!Clean
  <1>2. CASE N!Discover
    BY <1>1, <1>2 DEF N!Discover, N!NegotiationAssumption, N!TypeOK
  <1>3. ASSUME NEW n \in Names, N!Visit(n) PROVE N!TypeOK'
    BY <1>3 DEF N!Visit, N!TypeOK
  <1>4. CASE N!EndPass
    BY <1>4 DEF N!EndPass, N!TypeOK
  <1>5. CASE UNCHANGED N!vars
    BY <1>5 DEF N!vars, N!TypeOK
  <1>. QED BY <1>2, <1>3, <1>4, <1>5 DEF N!Next

LEMMA ProfilesInit == N!Init => N!TypeOK
  <1>. SUFFICES ASSUME N!Init PROVE N!TypeOK
    OBVIOUS
  <1>1. platform = [n \in Names |-> {}]
        /\ business = [n \in Names |-> [versions |-> {}, extends |-> Null, genuine |-> FALSE]]
    BY DEF N!Init
  <1>2. platform \in [Names -> SUBSET Nat]
    BY <1>1
  <1>3. [versions |-> {}, extends |-> Null, genuine |-> FALSE] \in N!Declaration
    BY DEF N!Declaration
  <1>4. business \in [Names -> N!Declaration]
    BY <1>1, <1>3
  <1>. QED BY <1>2, <1>4 DEF N!Init, N!TypeOK

\* The profiles and the pass are well typed in every reachable state.
THEOREM ProfilesTyped == ServicesSpec => [](part = "negotiation" => N!TypeOK)
  <1>. DEFINE Inv == part = "negotiation" => N!TypeOK
  <1>1. ServicesInit => Inv
    BY PartInit, ProfilesInit
  <1>2. Inv /\ [ServicesNext]_servicesVars => Inv'
    BY PartStep, ProfilesStep, ServicesAssumption
  <1>. QED BY <1>1, <1>2, PTL DEF ServicesSpec
-----------------------------------------------------------------------------
(***************************************************************************)
(* Mandates.  A basket that counts enough acceptable pieces for every      *)
(* requirement can be dealt out when no two of them accept the same item:  *)
(* each requirement gets all the pieces of its items.                      *)
(***************************************************************************)
\* A sum and finiteness mean the same in every module.
LEMMA SameMandateSums ==
  /\ \A f, S : M!SumFunctionOnSet(f, S) = SumFunctionOnSet(f, S)
  /\ \A S : M!IsFiniteSet(S) <=> IsFiniteSet(S)
  <1>1. \A f, S : M!SumFunctionOnSet(f, S) = SumFunctionOnSet(f, S)
    BY DEF M!SumFunctionOnSet, SumFunctionOnSet, M!FoldFunctionOnSet, FoldFunctionOnSet,
           M!MapThenFoldSet, MapThenFoldSet
  <1>2. \A S : M!IsFiniteSet(S) <=> IsFiniteSet(S)
    BY DEF M!IsFiniteSet, IsFiniteSet
  <1>. QED BY <1>1, <1>2

\* All the pieces of a requirement's items.
PiecesOf(basket, r) == [i \in Items |-> IF i \in r.items THEN basket[i] ELSE 0]

LEMMA EnoughForOne ==
  ASSUME NEW basket \in M!Baskets, NEW r \in [items: SUBSET Items, qty: Nat], NEW shown,
         M!Counted([basket |-> basket], r, shown) >= r.qty
  PROVE  SumFunctionOnSet(PiecesOf(basket, r), r.items) >= r.qty
  <1>1. IsFiniteSet(r.items) /\ r.items \subseteq Items
    <2>1. IsFiniteSet(Items) /\ r.items \subseteq Items
      BY ServicesAssumption, SameMandateSums DEF M!MandatesAssumption
    <2>. QED BY <2>1, FS_Subset
  <1>2. \A i \in r.items : basket[i] \in Nat
    BY <1>1, ServicesAssumption DEF M!Baskets, M!MandatesAssumption
  <1>3. SumFunctionOnSet(basket, r.items \cap shown) >= r.qty
    BY SameMandateSums DEF M!Counted
  <1>4. SumFunctionOnSet(basket, r.items \cap shown) <= SumFunctionOnSet(basket, r.items)
    <2>1. r.items \cap shown \in SUBSET r.items
      OBVIOUS
    <2>. QED BY <1>1, <1>2, <2>1, SumSubset
  <1>5. SumFunctionOnSet(PiecesOf(basket, r), r.items) = SumFunctionOnSet(basket, r.items)
    <2>1. \A i \in r.items : PiecesOf(basket, r)[i] = basket[i]
      BY <1>1 DEF PiecesOf
    <2>. QED BY <1>1, <2>1, SumSame
  <1>6. /\ SumFunctionOnSet(basket, r.items) \in Nat
        /\ SumFunctionOnSet(basket, r.items \cap shown) \in Nat
    <2>. DEFINE counted == r.items \cap shown
    <2>1. counted \subseteq r.items /\ IsFiniteSet(counted)
      BY <1>1, FS_Subset
    <2>2. \A i \in counted : basket[i] \in Nat
      BY <1>2, <2>1
    <2>. HIDE DEF counted
    <2>3. SumFunctionOnSet(basket, counted) \in Nat
      BY <2>1, <2>2, SumNat
    <2>4. SumFunctionOnSet(basket, r.items) \in Nat
      BY <1>1, <1>2, SumNat
    <2>. QED BY <2>3, <2>4 DEF counted
  <1>. QED BY <1>3, <1>4, <1>5, <1>6

LEMMA DealtOnce ==
  ASSUME NEW basket \in M!Baskets, NEW reqs \in Requirements, M!Disjoint(reqs), NEW i \in Items
  PROVE  SumFunctionOnSet([r \in reqs |-> PiecesOf(basket, r)[i]], reqs) <= basket[i]
  <1>. DEFINE f == [r \in reqs |-> PiecesOf(basket, r)[i]]
  <1>1. IsFiniteSet(reqs) /\ reqs \subseteq [items: SUBSET Items, qty: Nat]
    BY ServicesAssumption, SameMandateSums DEF M!MandatesAssumption
  <1>2. basket[i] \in Nat
    BY ServicesAssumption DEF M!Baskets, M!MandatesAssumption
  <1>3. \A r \in reqs : f[r] = IF i \in r.items THEN basket[i] ELSE 0
    BY DEF PiecesOf
  <1>4. \A r \in reqs : f[r] \in Nat
    BY <1>2, <1>3
  <1>. HIDE DEF f
  <1>5. CASE \E r \in reqs : i \in r.items
    <2>1. PICK r \in reqs : i \in r.items
      BY <1>5
    <2>2. SumFunctionOnSet(f, reqs) = f[r] + SumFunctionOnSet(f, reqs \ {r})
      BY <1>1, <1>4, SumRemove
    <2>3. \A t \in reqs \ {r} : f[t] = 0
      BY <1>3, <2>1 DEF M!Disjoint
    <2>4. IsFiniteSet(reqs \ {r})
      BY <1>1, FS_RemoveElement
    <2>5. SumFunctionOnSet(f, reqs \ {r}) = 0
      BY <2>3, <2>4, SumZero
    <2>. QED BY <1>2, <1>3, <2>1, <2>2, <2>5 DEF f
  <1>6. CASE \A r \in reqs : i \notin r.items
    <2>1. \A r \in reqs : f[r] = 0
      BY <1>3, <1>6
    <2>2. SumFunctionOnSet(f, reqs) = 0
      BY <1>1, <2>1, SumZero
    <2>. QED BY <1>2, <2>2 DEF f
  <1>. QED BY <1>5, <1>6

LEMMA DisjointIsDealt ==
  ASSUME NEW terms, terms.basket \in M!Baskets, NEW reqs \in Requirements, M!Disjoint(reqs),
         NEW shown, \A r \in reqs : M!Counted(terms, r, shown) >= r.qty
  PROVE  M!Dealt(terms.basket, reqs)
  <1>. DEFINE basket == terms.basket
              deal == [r \in reqs |-> PiecesOf(basket, r)]
  <1>1. reqs \subseteq [items: SUBSET Items, qty: Nat] /\ MaxQty \in Nat
    BY ServicesAssumption DEF M!MandatesAssumption
  <1>2. deal \in [reqs -> M!Baskets]
    BY <1>1 DEF PiecesOf, M!Baskets
  <1>3. ASSUME NEW i \in Items
        PROVE  M!SumFunctionOnSet([r \in reqs |-> deal[r][i]], reqs) <= basket[i]
    <2>1. [r \in reqs |-> deal[r][i]] = [r \in reqs |-> PiecesOf(basket, r)[i]]
      OBVIOUS
    <2>. QED BY <2>1, DealtOnce, SameMandateSums
  <1>4. ASSUME NEW r \in reqs
        PROVE  M!SumFunctionOnSet(deal[r], r.items) >= r.qty
    <2>1. M!Counted([basket |-> basket], r, shown) >= r.qty
      BY DEF M!Counted
    <2>2. SumFunctionOnSet(PiecesOf(basket, r), r.items) >= r.qty
      BY <1>1, <2>1, EnoughForOne
    <2>3. deal[r] = PiecesOf(basket, r)
      OBVIOUS
    <2>. QED BY <2>2, <2>3, SameMandateSums
  <1>. QED BY <1>2, <1>3, <1>4 DEF M!Dealt

Roots == [allowed: SUBSET Merchants, reqs: Requirements, exp: Nat]

\* What was signed stays signed, so what was accepted once stays authorized.
MandateInv ==
  /\ live \in [Checkouts -> M!Baskets]
  /\ hour \in Nat
  /\ open \subseteq Roots
  /\ M!AcceptedIsAuthorized

LEMMA MandateInit == M!Init => MandateInv
  BY DEF M!Init, MandateInv, M!AcceptedIsAuthorized

LEMMA AcceptedStays ==
  ASSUME M!AcceptedIsAuthorized, accepted' = accepted, closed \subseteq closed',
         presented \subseteq presented'
  PROVE  M!AcceptedIsAuthorized'
  BY DEF M!AcceptedIsAuthorized, M!Disjoint, M!Dealt

LEMMA ChainIsAuthorized ==
  ASSUME MandateInv, NEW co \in Checkouts, M!AcceptChain(co)
  PROVE  M!AcceptedIsAuthorized'
  <1>1. PICK root \in open, leaf \in closed :
          \E shown \in SUBSET M!Disclosures(root) :
             /\ M!ChainVerifies(root, shown, leaf, co)
             /\ M!TermsMatch(leaf.terms, co)
             /\ M!ConstraintsHold(root, shown, leaf.terms)
             /\ M!Accept(co, root, leaf.terms)
    BY DEF M!AcceptChain
  <1>2. PICK shown \in SUBSET M!Disclosures(root) :
             /\ M!ChainVerifies(root, shown, leaf, co)
             /\ M!TermsMatch(leaf.terms, co)
             /\ M!ConstraintsHold(root, shown, leaf.terms)
             /\ M!Accept(co, root, leaf.terms)
    BY <1>1
  <1>3. root \in Roots /\ root # Null /\ live[co] \in M!Baskets
    BY ServicesAssumption DEF MandateInv, Roots, M!MandatesAssumption
  <1>4. /\ leaf.terms = M!Terms(co) /\ leaf.terms.id = co /\ leaf.terms.basket = live[co]
        /\ leaf.sd_hash.root = root
        /\ MerchantOf[co] \in root.allowed
        /\ \A r \in root.reqs : M!Counted(leaf.terms, r, shown) >= r.qty
    BY <1>2 DEF M!ChainVerifies, M!TermsMatch, M!Terms, M!ConstraintsHold, M!MerchantAllowed
  <1>5. M!Disjoint(root.reqs) => M!Dealt(leaf.terms.basket, root.reqs)
    BY <1>3, <1>4, DisjointIsDealt DEF Roots
  <1>6. /\ accepted' = [co |-> co, root |-> root, terms |-> leaf.terms, live |-> leaf.terms,
                        at |-> hour]
        /\ closed' = closed /\ presented' = presented
    BY <1>2, <1>4 DEF M!Accept, M!AcceptChain
  <1>7. /\ accepted'.terms = leaf.terms /\ accepted'.live = leaf.terms
        /\ accepted'.root = root /\ accepted'.co = co
    BY <1>6
  <1>. QED BY <1>3, <1>4, <1>5, <1>6, <1>7 DEF M!AcceptedIsAuthorized, M!Dealt, M!Disjoint

LEMMA PresentationIsAuthorized ==
  ASSUME MandateInv, NEW co \in Checkouts, M!AcceptPresentation(co)
  PROVE  M!AcceptedIsAuthorized'
  <1>1. PICK p \in presented, q \in presented :
          \E shown \in SUBSET Claims :
             /\ M!PresentationVerifies(p.credential, shown, q.kb, co)
             /\ M!TermsMatch(p.credential.terms, co)
             /\ M!Accept(co, Null, p.credential.terms)
    BY DEF M!AcceptPresentation
  <1>2. /\ p.credential.exp >= hour
        /\ p.credential.terms = M!Terms(co)
        /\ accepted' = [co |-> co, root |-> Null, terms |-> p.credential.terms,
                        live |-> M!Terms(co), at |-> hour]
    BY <1>1 DEF M!PresentationVerifies, M!TermsMatch, M!Accept
  <1>3. presented' = presented
    BY DEF M!AcceptPresentation
  <1>4. /\ accepted'.terms = M!Terms(co) /\ accepted'.live = M!Terms(co)
        /\ accepted'.root = Null /\ accepted'.at = hour
    BY <1>2
  <1>. QED BY <1>2, <1>3, <1>4 DEF M!AcceptedIsAuthorized

LEMMA MandateStep == MandateInv /\ [M!Next]_(M!vars) => MandateInv'
  <1>. SUFFICES ASSUME MandateInv, [M!Next]_(M!vars) PROVE MandateInv'
    OBVIOUS
  <1>. USE ServicesAssumption DEF M!MandatesAssumption
  <1>1. M!AcceptedIsAuthorized
    BY DEF MandateInv
  <1>2. ASSUME NEW co \in Checkouts, M!Update(co) PROVE MandateInv'
    BY <1>1, <1>2, AcceptedStays DEF M!Update, MandateInv
  <1>3. CASE M!SignOpen
    <2>1. open' \subseteq Roots
      <3>1. hour + Lifetime \in Nat
        BY DEF MandateInv
      <3>. QED BY <1>3, <3>1 DEF M!SignOpen, MandateInv, Roots
    <2>. QED BY <1>1, <1>3, <2>1, AcceptedStays DEF M!SignOpen, MandateInv
  <1>4. ASSUME NEW co \in Checkouts, M!SignPresent(co) \/ \E root \in open : M!CloseUnder(root, co)
        PROVE  MandateInv'
    BY <1>1, <1>4, AcceptedStays DEF M!SignPresent, M!CloseUnder, MandateInv
  <1>5. ASSUME NEW co \in Checkouts, M!AcceptChain(co) PROVE MandateInv'
    BY <1>5, ChainIsAuthorized DEF M!AcceptChain, MandateInv
  <1>6. ASSUME NEW co \in Checkouts, M!AcceptPresentation(co) PROVE MandateInv'
    BY <1>6, PresentationIsAuthorized DEF M!AcceptPresentation, MandateInv
  <1>7. CASE M!Tick \/ UNCHANGED M!vars
    BY <1>1, <1>7, AcceptedStays DEF M!Tick, M!vars, MandateInv
  <1>. QED BY <1>2, <1>3, <1>4, <1>5, <1>6, <1>7 DEF M!Next

\* Whatever pieces of mandates meet at a merchant, what it accepts is the checkout as
\* it is, and was authorized by the user, directly or through an open mandate; where
\* no two requirements accept the same item, its basket meets all of them at once.
THEOREM AcceptedWasAuthorized == ServicesSpec => []AcceptedIsAuthorized
  <1>1. ServicesInit => (part = "mandates" => MandateInv)
    BY PartInit, MandateInit
  <1>2. (part = "mandates" => MandateInv) /\ [ServicesNext]_servicesVars
          => (part = "mandates" => MandateInv)'
    BY PartStep, MandateStep
  <1>3. (part = "mandates" => MandateInv) => AcceptedIsAuthorized
    BY DEF MandateInv, AcceptedIsAuthorized
  <1>. QED BY <1>1, <1>2, <1>3, PTL DEF ServicesSpec
-----------------------------------------------------------------------------
(***************************************************************************)
(* Account linking, for every number of calls, codes and restarts.         *)
(***************************************************************************)
LinkSteps ==
  {"idle", "authorize", "exchange", "answered", "linked", "list", "listed", "refused", "failed"}
LinkTyped ==
  /\ ids \in Nat /\ clock \in Nat /\ lost \in Nat
  /\ pc \in [Calls -> LinkSteps] /\ mine \in [Calls -> Nat]
  /\ accessToken \in Nat
  /\ oauthCodes \subseteq 1..ids /\ DOMAIN issued \subseteq 1..ids
  /\ \A id \in DOMAIN issued : issued[id] \in Nat

\* What a call may rely on at each of its steps while the merchant has kept its state: a
\* code is pending and no other call's; a token was issued.
CallLinked(c) ==
  /\ pc[c] = "exchange" => mine[c] \in oauthCodes
  /\ pc[c] \in {"answered", "list"} => mine[c] \in DOMAIN issued
  /\ pc[c] = "linked" => accessToken \in DOMAIN issued
  /\ pc[c] = "refused" => mine[c] \in DOMAIN issued /\ clock > issued[mine[c]] + TTL
OneCodeEach ==
  \A c, d \in Calls : pc[c] = "exchange" /\ pc[d] = "exchange" /\ c # d => mine[c] # mine[d]
TokensKept ==
  /\ DOMAIN accessTokens = DOMAIN issued
  /\ \A id \in DOMAIN issued : accessTokens[id] = issued[id] + TTL
  /\ accessToken = L!NoToken \/ accessToken \in DOMAIN issued
LinkInv ==
  LinkTyped /\ (lost = 0 => TokensKept /\ OneCodeEach /\ \A c \in Calls : CallLinked(c))

LEMMA LinkInit == L!Init => LinkInv
  <1>. SUFFICES ASSUME L!Init PROVE LinkInv
    OBVIOUS
  <1>. USE DEF L!NoToken
  <1>1. /\ ids = 0 /\ clock = 0 /\ lost = 0 /\ accessToken = 0 /\ oauthCodes = {}
        /\ pc = [c \in Calls |-> "idle"] /\ mine = [c \in Calls |-> 0]
        /\ DOMAIN issued = {} /\ DOMAIN accessTokens = {}
    BY DEF L!Init
  <1>2. pc \in [Calls -> LinkSteps] /\ mine \in [Calls -> Nat]
    BY <1>1 DEF LinkSteps
  <1>3. LinkTyped
    BY <1>1, <1>2 DEF LinkTyped
  <1>4. TokensKept /\ OneCodeEach /\ \A c \in Calls : CallLinked(c)
    BY <1>1 DEF TokensKept, OneCodeEach, CallLinked
  <1>. QED BY <1>3, <1>4 DEF LinkInv

LEMMA LinkStep == LinkInv /\ [L!Next]_(L!vars) => LinkInv'
  <1>. SUFFICES ASSUME LinkInv, [L!Next]_(L!vars) PROVE LinkInv'
    OBVIOUS
  <1>. USE DEF L!NoToken
  <1>0. LinkTyped /\ TTL \in Nat
    BY ServicesAssumption DEF LinkInv, L!LinkingAssumption
  <1>1. CASE L!Restart
    BY <1>0, <1>1 DEF L!Restart, LinkInv, LinkTyped
  <1>2. CASE L!Tick
    <2>1. LinkTyped' /\ clock' > clock
      BY <1>0, <1>2 DEF L!Tick, LinkTyped
    <2>2. /\ lost' = lost /\ (TokensKept => TokensKept') /\ (OneCodeEach => OneCodeEach')
          /\ \A c \in Calls : CallLinked(c) => CallLinked(c)'
      BY <1>0, <1>2, <2>1 DEF L!Tick, LinkTyped, TokensKept, OneCodeEach, CallLinked
    <2>. QED BY <2>1, <2>2 DEF LinkInv
  <1>3. CASE UNCHANGED L!vars
    BY <1>3 DEF L!vars, LinkInv, LinkTyped, TokensKept, OneCodeEach, CallLinked
  <1>4. ASSUME NEW c \in Calls,
               \/ L!StartListing(c) \/ L!RefuseCode(c) \/ L!TakeToken(c) \/ L!SendListing(c)
               \/ L!ListOrders(c) \/ L!FailCall(c)
        PROVE  LinkInv'
    <2>1. UNCHANGED <<ids, oauthCodes, accessTokens, issued, lost, clock>>
      BY <1>4 DEF L!StartListing, L!RefuseCode, L!TakeToken, L!SendListing, L!ListOrders,
                  L!FailCall
    <2>2. LinkTyped'
      <3>1. \E step \in LinkSteps : pc' = [pc EXCEPT ![c] = step]
        BY <1>4 DEF L!StartListing, L!RefuseCode, L!TakeToken, L!SendListing, L!ListOrders,
                    L!FailCall, LinkSteps
      <3>2. mine[c] \in Nat /\ accessToken \in Nat
        BY <1>0 DEF LinkTyped
      <3>3. /\ mine' = mine \/ \E t \in Nat : mine' = [mine EXCEPT ![c] = t]
            /\ accessToken' \in Nat
        BY <1>4, <3>2 DEF L!StartListing, L!RefuseCode, L!TakeToken, L!SendListing, L!ListOrders,
                          L!FailCall
      <3>. QED BY <1>0, <2>1, <3>1, <3>3 DEF LinkTyped
    <2>3. ASSUME lost = 0
          PROVE  TokensKept' /\ OneCodeEach' /\ \A d \in Calls : CallLinked(d)'
      <3>1. TokensKept /\ OneCodeEach /\ \A d \in Calls : CallLinked(d)
        BY <2>3 DEF LinkInv
      <3>2. ~L!RefuseCode(c)
        BY <3>1 DEF L!RefuseCode, CallLinked
      <3>3. CASE L!StartListing(c)
        BY <1>0, <2>1, <3>1, <3>3 DEF L!StartListing, LinkTyped, TokensKept, OneCodeEach, CallLinked
      <3>4. CASE L!TakeToken(c)
        BY <1>0, <2>1, <3>1, <3>4 DEF L!TakeToken, LinkTyped, TokensKept, OneCodeEach, CallLinked
      <3>5. CASE L!SendListing(c)
        BY <1>0, <2>1, <3>1, <3>5 DEF L!SendListing, LinkTyped, TokensKept, OneCodeEach, CallLinked
      <3>6. CASE L!ListOrders(c)
        BY <1>0, <2>1, <3>1, <3>6 DEF L!ListOrders, L!Valid, LinkTyped, TokensKept, OneCodeEach, CallLinked
      <3>7. CASE L!FailCall(c)
        BY <1>0, <2>1, <3>1, <3>7 DEF L!FailCall, LinkTyped, TokensKept, OneCodeEach, CallLinked
      <3>. QED BY <1>4, <3>2, <3>3, <3>4, <3>5, <3>6, <3>7
    <2>. QED BY <2>1, <2>2, <2>3 DEF LinkInv
  <1>5. ASSUME NEW c \in Calls, L!Authorize(c) PROVE LinkInv'
    <2>1. LinkTyped' /\ ids' = ids + 1 /\ ids' \notin oauthCodes
      <3>1. /\ ids' = ids + 1 /\ oauthCodes' = oauthCodes \cup {ids'}
            /\ mine' = [mine EXCEPT ![c] = ids'] /\ pc' = [pc EXCEPT ![c] = "exchange"]
            /\ UNCHANGED <<accessToken, issued, lost, clock>>
        BY <1>5 DEF L!Authorize, L!Coded
      <3>2. ids' \in Nat /\ 1..ids \subseteq 1..ids' /\ ids' \in 1..ids' /\ ids' \notin 1..ids
        BY <1>0, <3>1 DEF LinkTyped
      <3>3. mine' \in [Calls -> Nat] /\ pc' \in [Calls -> LinkSteps]
        BY <1>0, <3>1, <3>2 DEF LinkTyped, LinkSteps
      <3>. QED BY <1>0, <3>1, <3>2, <3>3 DEF LinkTyped
    <2>2. /\ lost' = lost
          /\ lost = 0 => TokensKept' /\ OneCodeEach' /\ \A d \in Calls : CallLinked(d)'
      BY <1>0, <1>5, <2>1 DEF L!Authorize, L!Coded, LinkTyped, LinkInv, TokensKept, OneCodeEach, CallLinked
    <2>. QED BY <2>1, <2>2 DEF LinkInv
  <1>6. ASSUME NEW c \in Calls, L!ExchangeCode(c) PROVE LinkInv'
    <2>1. LinkTyped' /\ ids' = ids + 1 /\ ids' \notin DOMAIN issued
      <3>1. /\ ids' = ids + 1 /\ oauthCodes' \subseteq oauthCodes
            /\ mine' = [mine EXCEPT ![c] = ids'] /\ pc' = [pc EXCEPT ![c] = "answered"]
            /\ issued' = [id \in DOMAIN issued \cup {ids'} |-> IF id = ids' THEN clock ELSE issued[id]]
            /\ UNCHANGED <<accessToken, lost, clock>>
        BY <1>6 DEF L!ExchangeCode
      <3>2. ids' \in Nat /\ 1..ids \subseteq 1..ids' /\ ids' \in 1..ids' /\ ids' \notin 1..ids
        BY <1>0, <3>1 DEF LinkTyped
      <3>3. mine' \in [Calls -> Nat] /\ pc' \in [Calls -> LinkSteps]
        BY <1>0, <3>1, <3>2 DEF LinkTyped, LinkSteps
      <3>. QED BY <1>0, <3>1, <3>2, <3>3 DEF LinkTyped
    <2>2. ASSUME lost = 0 PROVE TokensKept' /\ OneCodeEach' /\ \A d \in Calls : CallLinked(d)'
      <3>1. TokensKept /\ OneCodeEach /\ \A d \in Calls : CallLinked(d)
        BY <2>2 DEF LinkInv
      <3>2. TokensKept'
        BY <1>0, <1>6, <2>1, <3>1 DEF L!ExchangeCode, LinkTyped, TokensKept
      <3>3. OneCodeEach'
        BY <1>0, <1>6, <2>1, <3>1 DEF L!ExchangeCode, LinkTyped, OneCodeEach
      <3>4. ASSUME NEW d \in Calls PROVE CallLinked(d)'
        BY <1>0, <1>6, <2>1, <3>1 DEF L!ExchangeCode, LinkTyped, OneCodeEach, CallLinked
      <3>. QED BY <3>2, <3>3, <3>4
    <2>. QED BY <1>6, <2>1, <2>2 DEF LinkInv, L!ExchangeCode
  <1>. QED BY <1>1, <1>2, <1>3, <1>4, <1>5, <1>6 DEF L!Next

\* Calls that link at once, lose answers or overwrite each other's token are refused only
\* with a token that was issued a full lifetime ago, while the merchant keeps its state.
THEOREM RefusedWhenExpired == ServicesSpec => []RefusalMeansExpired
  <1>. DEFINE Inv == part = "linking" => LinkInv
  <1>1. ServicesInit => Inv
    BY PartInit, LinkInit
  <1>2. Inv /\ [ServicesNext]_servicesVars => Inv'
    BY PartStep, LinkStep
  <1>3. Inv => RefusalMeansExpired
    BY DEF LinkInv, CallLinked, RefusalMeansExpired, L!RefusalMeansExpired
  <1>. QED BY <1>1, <1>2, <1>3, PTL DEF ServicesSpec
-----------------------------------------------------------------------------
(***************************************************************************)
(* Passkeys, for every number of hosts, credentials and ceremonies.        *)
(***************************************************************************)
\* The responses of the authenticator, and where a credential can be: a response is the
\* only one with its credential, and its credential is only ever at its host.
CredentialsTyped ==
  /\ DOMAIN passkeys = Hosts /\ count \in [Credentials -> Nat] /\ raced \in BOOLEAN
  /\ \A r \in created : r.host \in Hosts /\ r.id \in Credentials
  /\ \A r, s \in created : r.id = s.id => r = s
  /\ \A a \in asserted :
       /\ a.counter \in Nat
       /\ a.id \in Counting => a.counter > 0
       /\ \E r \in created : r.id = a.id /\ r.host = a.host
  /\ \A h \in Hosts : passkeys[h] # Null =>
       /\ passkeys[h] \in [id: Credentials, counter: Nat, by: Ceremonies]
       /\ \E r \in created : r.id = passkeys[h].id /\ r.host = h

\* What a ceremony knows at each of its steps.
Step(c) == calls[c].step
CeremonyKnows(c) ==
  /\ Step(c) = "registering" => calls[c].response \in created /\ calls[c].response.host \in Allowed
  /\ Step(c) \in {"verifying", "signed"} /\ (Step(c) = "signed" => calls[c].by # Null) =>
       calls[c].by \in asserted /\ calls[c].by.terms = calls[c].terms /\ calls[c].by.host \in Allowed
  /\ Step(c) = "verifying" =>
       LET a == calls[c].by
           read == calls[c].read IN
       /\ read.id = a.id /\ read.counter \in Nat
       /\ read.by \in Ceremonies /\ Step(read.by) = "enrolled"
       /\ a.counter > read.counter \/ a.counter = 0
EnrolledBy(h) ==
  passkeys[h] # Null => passkeys[h].by \in Ceremonies /\ Step(passkeys[h].by) = "enrolled"
CeremoniesKnow ==
  /\ DOMAIN calls = Ceremonies
  /\ \A c \in Ceremonies : CeremonyKnows(c)
  /\ \A h \in Hosts : EnrolledBy(h)

\* While no two ceremonies raced: a credential that was ever enrolled is not enrolled
\* again, because its challenge is gone.
Used(r) ==
  \/ \E a \in asserted : a.id = r.id
  \/ \E h \in Hosts : passkeys[h] # Null /\ passkeys[h].id = r.id
EnrolledOnce ==
  /\ \A r \in created : Used(r) =>
       /\ r.challenge \notin DOMAIN pendingReg
       /\ \A d \in P!Running("registering") : calls[d].response.challenge # r.challenge
  /\ \A c, d \in P!Running("registering") :
       c # d => calls[c].response.challenge # calls[d].response.challenge

\* The passkey a ceremony read is the one that is there, unless that credential is gone for
\* good; and no other ceremony verifies with that passkey or that credential.
ReadIsCurrent(c) ==
  LET a == calls[c].by IN
  passkeys[a.host] # Null =>
    /\ passkeys[a.host].id = a.id => passkeys[a.host].by = calls[c].read.by
    /\ passkeys[a.host].by = calls[c].read.by => passkeys[a.host] = calls[c].read
OneVerifies ==
  \A c, d \in P!Running("verifying") : c # d =>
    calls[c].read.by # calls[d].read.by /\ calls[c].by.id # calls[d].by.id

\* An assertion that signed does not sign again: the counter of its passkey has passed it.
UsedUp(c) ==
  LET a == calls[c].by IN
  a # Null /\ a.id \in Counting =>
    /\ passkeys[a.host] # Null /\ passkeys[a.host].id = a.id => passkeys[a.host].counter >= a.counter
    /\ \A d \in Ceremonies \ {c} : Step(d) \in {"verifying", "signed"} => calls[d].by # a

Unraced ==
  /\ EnrolledOnce /\ OneVerifies
  /\ \A c \in P!Running("verifying") : ReadIsCurrent(c)
  /\ \A c \in P!Running("signed") : UsedUp(c)

PasskeyInv == CredentialsTyped /\ CeremoniesKnow /\ (~raced => Unraced)

LEMMA PasskeyInit == P!Init => PasskeyInv
  <1>. SUFFICES ASSUME P!Init PROVE PasskeyInv
    OBVIOUS
  <1>1. /\ passkeys = [h \in Hosts |-> Null] /\ created = {} /\ asserted = {} /\ raced = FALSE
        /\ count = [k \in Credentials |-> 0]
        /\ calls = [c \in Ceremonies |-> [step |-> "new"]]
    BY DEF P!Init
  <1>2. \A c \in Ceremonies : Step(c) = "new"
    BY <1>1 DEF Step
  <1>3. CredentialsTyped
    BY <1>1 DEF CredentialsTyped
  <1>4. CeremoniesKnow
    BY <1>1, <1>2 DEF CeremoniesKnow, CeremonyKnows, EnrolledBy
  <1>5. \A step : step # "new" => P!Running(step) = {}
    BY <1>2 DEF P!Running, Step
  <1>6. Unraced
    BY <1>1, <1>5 DEF Unraced, EnrolledOnce, OneVerifies, Used
  <1>. QED BY <1>3, <1>4, <1>6 DEF PasskeyInv
\* Steps that only the registration challenges, the clock or passkeys that go away see.
LEMMA PasskeyQuietStep ==
  ASSUME PasskeyInv,
         \/ P!RegisterOptions \/ P!Remove \/ P!Tick
         \/ UNCHANGED P!vars
  PROVE  PasskeyInv'
  <1>1. UNCHANGED <<created, asserted, count, calls, raced>>
    BY DEF P!RegisterOptions, P!Remove, P!Tick, P!vars
  <1>2. CredentialsTyped /\ CeremoniesKnow
    BY DEF PasskeyInv
  <1>3. DOMAIN passkeys' = Hosts /\ \A h \in Hosts : passkeys'[h] \in {Null, passkeys[h]}
    BY <1>2 DEF P!RegisterOptions, P!Remove, P!Tick, P!vars, CredentialsTyped
  <1>4. \A ch \in DOMAIN pendingReg' \ DOMAIN pendingReg : \A r \in created : r.challenge # ch
    BY DEF P!RegisterOptions, P!Remove, P!Tick, P!vars, P!Swept
  <1>5. CredentialsTyped'
    BY <1>1, <1>2, <1>3 DEF CredentialsTyped
  <1>6. CeremoniesKnow'
    BY <1>1, <1>2, <1>3 DEF CeremoniesKnow, CeremonyKnows, EnrolledBy, Step
  <1>7. ASSUME Unraced PROVE Unraced'
    <2>1. \A r : Used(r)' => Used(r)
      BY <1>1, <1>3 DEF Used
    <2>2. \A step : P!Running(step)' = P!Running(step)
      BY <1>1 DEF P!Running
    <2>3. EnrolledOnce'
      BY <1>1, <1>4, <1>7, <2>1, <2>2 DEF Unraced, EnrolledOnce
    <2>4. OneVerifies'
      BY <1>1, <1>7, <2>2 DEF Unraced, OneVerifies
    <2>5. \A c \in P!Running("verifying") : calls[c].by.host \in Hosts
      BY <1>2 DEF CeremoniesKnow, CeremonyKnows, CredentialsTyped, P!Running, Step
    <2>6. \A c \in P!Running("verifying") : ReadIsCurrent(c)'
      BY <1>1, <1>3, <1>7, <2>5 DEF Unraced, ReadIsCurrent
    <2>7. ASSUME NEW c \in P!Running("signed") PROVE UsedUp(c)'
      <3>1. UsedUp(c) /\ (calls[c].by # Null => calls[c].by.host \in Hosts)
        BY <1>2, <1>7 DEF Unraced, CeremoniesKnow, CeremonyKnows, CredentialsTyped, P!Running, Step
      <3>. QED BY <1>1, <1>3, <3>1 DEF UsedUp, Step
    <2>. QED BY <2>2, <2>3, <2>4, <2>6, <2>7 DEF Unraced
  <1>. QED BY <1>1, <1>5, <1>6, <1>7 DEF PasskeyInv

\* A new response has a credential of its own, which nothing uses yet.
LEMMA CreateCredentialStep ==
  ASSUME PasskeyInv, NEW h \in Hosts, P!CreateCredential(h)
  PROVE  PasskeyInv'
  <1>1. PICK ch \in DOMAIN pendingReg, k \in Credentials :
          /\ \A r \in created : r.id # k
          /\ created' = created \cup {[challenge |-> ch, host |-> h, id |-> k]}
          /\ UNCHANGED <<passkeys, pendingReg, asserted, count, calls, raced>>
    BY DEF P!CreateCredential
  <1>2. CredentialsTyped /\ CeremoniesKnow
    BY DEF PasskeyInv
  <1>. DEFINE new == [challenge |-> ch, host |-> h, id |-> k]
  <1>3. new.challenge = ch /\ new.host = h /\ new.id = k
    OBVIOUS
  <1>. HIDE DEF new
  <1>4. created' = created \cup {new}
    BY <1>1 DEF new
  <1>5. CredentialsTyped'
    BY <1>1, <1>2, <1>3, <1>4 DEF CredentialsTyped
  <1>6. CeremoniesKnow'
    BY <1>1, <1>2, <1>4 DEF CeremoniesKnow, CeremonyKnows, EnrolledBy, Step
  <1>7. ASSUME Unraced PROVE Unraced'
    <2>1. ~Used(new)
      BY <1>1, <1>2, <1>3 DEF Used, CredentialsTyped
    <2>2. /\ \A r : Used(r)' <=> Used(r)
          /\ \A step : P!Running(step)' = P!Running(step)
      BY <1>1 DEF Used, P!Running
    <2>3. EnrolledOnce'
      BY <1>1, <1>4, <1>7, <2>1, <2>2 DEF Unraced, EnrolledOnce
    <2>. QED BY <1>1, <1>7, <2>2, <2>3 DEF Unraced, OneVerifies, ReadIsCurrent, UsedUp, Step
  <1>. QED BY <1>1, <1>5, <1>6, <1>7 DEF PasskeyInv

\* The user asserts with a passkey that is there: its credential was used already.
LEMMA UserAssertsStep ==
  ASSUME PasskeyInv, NEW h \in Hosts, NEW terms \in Contents, P!UserAsserts(h, terms)
  PROVE  PasskeyInv'
  <1>. DEFINE k == passkeys[h].id
              n == IF k \in Counting THEN count[k] + 1 ELSE 0
              new == [id |-> k, host |-> h, terms |-> terms, counter |-> n]
  <1>1. /\ passkeys[h] # Null
        /\ asserted' = asserted \cup {new} /\ count' = [count EXCEPT ![k] = n]
        /\ UNCHANGED <<passkeys, pendingReg, created, calls, raced>>
    BY DEF P!UserAsserts
  <1>2. CredentialsTyped /\ CeremoniesKnow
    BY DEF PasskeyInv
  <1>3. new.id = k /\ new.host = h /\ new.counter = n
    OBVIOUS
  <1>4. PICK r \in created : r.id = k /\ r.host = h
    BY <1>1, <1>2 DEF CredentialsTyped
  <1>5. n \in Nat /\ (k \in Counting => n > 0) /\ count' \in [Credentials -> Nat]
    <2>1. k \in Credentials
      BY <1>2, <1>4 DEF CredentialsTyped
    <2>. QED BY <1>1, <1>2, <2>1 DEF CredentialsTyped
  <1>. HIDE DEF new, n
  <1>6. CredentialsTyped'
    BY <1>1, <1>2, <1>3, <1>4, <1>5 DEF CredentialsTyped
  <1>7. CeremoniesKnow'
    BY <1>1, <1>2 DEF CeremoniesKnow, CeremonyKnows, EnrolledBy, Step
  <1>8. ASSUME Unraced PROVE Unraced'
    <2>1. /\ \A s : Used(s)' <=> Used(s)
          /\ \A step : P!Running(step)' = P!Running(step)
      BY <1>1, <1>3 DEF Used, P!Running
    <2>2. EnrolledOnce'
      BY <1>1, <1>8, <2>1 DEF Unraced, EnrolledOnce
    <2>. QED BY <1>1, <1>8, <2>1, <2>2 DEF Unraced, OneVerifies, ReadIsCurrent, UsedUp, Step
  <1>. QED BY <1>1, <1>6, <1>7, <1>8 DEF PasskeyInv
\* A ceremony begins to register a response whose challenge is pending: nobody uses its
\* credential, and if another ceremony has begun with that challenge, they race.
LEMMA RegisterStep ==
  ASSUME PasskeyInv, NEW c \in Ceremonies, P!Register(c)
  PROVE  PasskeyInv'
  <1>1. PICK r \in created :
          /\ Step(c) = "new" /\ r.challenge \in P!Swept /\ r.host \in Allowed
          /\ calls' = [calls EXCEPT ![c] = [step |-> "registering", response |-> r]]
          /\ raced' = (raced \/ \E d \in P!Running("registering") :
                                  calls[d].response.challenge = r.challenge)
          /\ UNCHANGED <<passkeys, created, asserted, count>>
    BY DEF P!Register, Step
  <1>2. r.challenge \in DOMAIN pendingReg /\ DOMAIN pendingReg' \subseteq DOMAIN pendingReg
    BY <1>1 DEF P!Register, P!Keep, P!Swept
  <1>3. CredentialsTyped /\ CeremoniesKnow
    BY DEF PasskeyInv
  <1>4. /\ DOMAIN calls' = Ceremonies
        /\ calls'[c].step = "registering" /\ calls'[c].response = r
        /\ \A d \in Ceremonies \ {c} : calls'[d] = calls[d]
    BY <1>1, <1>3 DEF CeremoniesKnow
  <1>5. CredentialsTyped'
    BY <1>1, <1>3 DEF CredentialsTyped
  <1>6. CeremoniesKnow'
    BY <1>1, <1>3, <1>4 DEF CeremoniesKnow, CeremonyKnows, EnrolledBy, Step
  <1>7. ASSUME ~raced' PROVE Unraced'
    <2>1. Unraced /\ \A d \in P!Running("registering") : calls[d].response.challenge # r.challenge
      BY <1>1, <1>7 DEF PasskeyInv
    <2>2. /\ \A s : Used(s)' <=> Used(s)
          /\ P!Running("registering")' = P!Running("registering") \cup {c}
          /\ \A step \in {"verifying", "signed"} :
               P!Running(step)' = P!Running(step) /\ c \notin P!Running(step)
      BY <1>1, <1>4 DEF Used, P!Running, Step
    <2>3. EnrolledOnce'
      <3>1. ASSUME NEW s \in created, Used(s) PROVE s.challenge # r.challenge
        BY <1>2, <2>1, <3>1 DEF Unraced, EnrolledOnce
      <3>2. \A d \in P!Running("registering") \ {c} : calls'[d] = calls[d]
        BY <1>4 DEF P!Running
      <3>. QED BY <1>1, <1>2, <1>4, <2>1, <2>2, <3>1, <3>2 DEF Unraced, EnrolledOnce
    <2>4. \A d \in P!Running("verifying") \cup P!Running("signed") : d # c /\ calls'[d] = calls[d]
      BY <1>4, <2>2 DEF P!Running
    <2>5. OneVerifies' /\ \A d \in P!Running("verifying") : ReadIsCurrent(d)'
      BY <1>1, <2>1, <2>2, <2>4 DEF Unraced, OneVerifies, ReadIsCurrent
    <2>6. \A d \in P!Running("signed") : UsedUp(d)'
      BY <1>1, <1>4, <2>1, <2>4 DEF Unraced, UsedUp, Step
    <2>. QED BY <2>2, <2>3, <2>5, <2>6 DEF Unraced
  <1>. QED BY <1>5, <1>6, <1>7 DEF PasskeyInv

\* A response that nobody raced for is enrolled once, and becomes a passkey whose
\* credential no assertion and no ceremony has seen.
LEMMA EnrolStep ==
  ASSUME PasskeyInv, NEW c \in Ceremonies, P!Enrol(c)
  PROVE  PasskeyInv'
  <1>. DEFINE r == calls[c].response
              new == [id |-> r.id, counter |-> 0, by |-> c]
  <1>1. /\ Step(c) = "registering"
        /\ DOMAIN pendingReg' = DOMAIN pendingReg \ {r.challenge}
        /\ passkeys' = [passkeys EXCEPT ![r.host] = new]
        /\ calls' = [calls EXCEPT ![c] = [step |-> "enrolled"]]
        /\ UNCHANGED <<created, asserted, count, raced>>
    BY DEF P!Enrol, P!Keep, Step
  <1>2. CredentialsTyped /\ CeremoniesKnow
    BY DEF PasskeyInv
  <1>3. r \in created /\ r.host \in Hosts /\ r.id \in Credentials
    BY <1>1, <1>2 DEF CeremoniesKnow, CeremonyKnows, CredentialsTyped
  <1>4. /\ new.id = r.id /\ new.counter = 0 /\ new.by = c
        /\ new \in [id: Credentials, counter: Nat, by: Ceremonies]
    BY <1>3
  <1>. HIDE DEF new
  <1>5. /\ DOMAIN calls' = Ceremonies /\ calls'[c].step = "enrolled"
        /\ \A d \in Ceremonies \ {c} : calls'[d] = calls[d]
        /\ DOMAIN passkeys' = Hosts /\ passkeys'[r.host] = new
        /\ \A h \in Hosts \ {r.host} : passkeys'[h] = passkeys[h]
    BY <1>1, <1>2, <1>3 DEF CeremoniesKnow, CredentialsTyped
  <1>6. CredentialsTyped'
    BY <1>1, <1>2, <1>3, <1>4, <1>5 DEF CredentialsTyped
  <1>7. CeremoniesKnow'
    <2>1. ASSUME NEW d \in Ceremonies PROVE CeremonyKnows(d)'
      BY <1>1, <1>2, <1>5 DEF CeremoniesKnow, CeremonyKnows, Step
    <2>2. ASSUME NEW h \in Hosts PROVE EnrolledBy(h)'
      BY <1>1, <1>2, <1>4, <1>5 DEF CeremoniesKnow, EnrolledBy, Step
    <2>. QED BY <1>5, <2>1, <2>2 DEF CeremoniesKnow
  <1>8. ASSUME Unraced PROVE Unraced'
    <2>1. /\ P!Running("registering")' = P!Running("registering") \ {c}
          /\ c \in P!Running("registering")
          /\ \A step \in {"verifying", "signed"} :
               P!Running(step)' = P!Running(step) /\ c \notin P!Running(step)
      BY <1>1, <1>5 DEF P!Running, Step
    <2>2. \A step \in {"registering", "verifying", "signed"} : \A d \in P!Running(step) \ {c} :
            d \in Ceremonies /\ calls'[d] = calls[d]
      BY <1>5 DEF P!Running
    <2>3. ~Used(r)
      BY <1>3, <1>8, <2>1 DEF Unraced, EnrolledOnce
    <2>4. \A a \in asserted : a.id # r.id
      BY <2>3 DEF Used
    <2>5. EnrolledOnce'
      <3>1. ASSUME NEW s \in created, Used(s)' PROVE s = r \/ Used(s)
        <4>1. CASE \E a \in asserted : a.id = s.id
          BY <4>1 DEF Used
        <4>2. CASE \E h \in Hosts : passkeys'[h] # Null /\ passkeys'[h].id = s.id
          BY <1>2, <1>3, <1>4, <1>5, <4>2 DEF Used, CredentialsTyped
        <4>. QED BY <1>1, <3>1, <4>1, <4>2 DEF Used
      <3>2. \A d \in P!Running("registering") \ {c} : calls[d].response.challenge # r.challenge
        BY <1>8, <2>1 DEF Unraced, EnrolledOnce
      <3>3. ASSUME NEW s \in created, Used(s)'
            PROVE  /\ s.challenge \notin DOMAIN pendingReg'
                   /\ \A d \in P!Running("registering")' : calls'[d].response.challenge # s.challenge
        BY <1>1, <1>8, <2>1, <2>2, <3>1, <3>2, <3>3 DEF Unraced, EnrolledOnce
      <3>4. \A d, e \in P!Running("registering")' :
              d # e => calls'[d].response.challenge # calls'[e].response.challenge
        BY <1>8, <2>1, <2>2 DEF Unraced, EnrolledOnce
      <3>. QED BY <1>1, <3>3, <3>4 DEF EnrolledOnce
    <2>6. OneVerifies'
      BY <1>8, <2>1, <2>2 DEF Unraced, OneVerifies
    <2>7. ASSUME NEW d \in P!Running("verifying") PROVE ReadIsCurrent(d)'
      <3>1. /\ ReadIsCurrent(d) /\ calls'[d] = calls[d] /\ calls[d].by \in asserted
            /\ calls[d].by.host \in Hosts /\ calls[d].read.by # c
        BY <1>1, <1>2, <1>8, <2>1, <2>2 DEF Unraced, CeremoniesKnow, CeremonyKnows,
                                           CredentialsTyped, P!Running, Step
      <3>. QED BY <1>4, <1>5, <2>4, <3>1 DEF ReadIsCurrent
    <2>8. ASSUME NEW d \in P!Running("signed") PROVE UsedUp(d)'
      <3>1. UsedUp(d) /\ calls'[d] = calls[d]
        BY <1>8, <2>1, <2>2 DEF Unraced
      <3>2. calls[d].by # Null => calls[d].by \in asserted /\ calls[d].by.host \in Hosts
        BY <1>2 DEF CeremoniesKnow, CeremonyKnows, CredentialsTyped, P!Running, Step
      <3>3. \A e \in Ceremonies : Step(e)' \in {"verifying", "signed"} =>
              Step(e) \in {"verifying", "signed"} /\ calls'[e] = calls[e]
        BY <1>5 DEF Step
      <3>. QED BY <1>4, <1>5, <2>4, <3>1, <3>2, <3>3 DEF UsedUp
    <2>. QED BY <2>1, <2>5, <2>6, <2>7, <2>8 DEF Unraced
  <1>. QED BY <1>1, <1>6, <1>7, <1>8 DEF PasskeyInv
LEMMA SignUngatedStep ==
  ASSUME PasskeyInv, NEW c \in Ceremonies, NEW terms \in Contents, P!SignUngated(c, terms)
  PROVE  PasskeyInv'
  <1>1. /\ Step(c) = "new"
        /\ calls' = [calls EXCEPT ![c] = [step |-> "signed", terms |-> terms, by |-> Null]]
        /\ UNCHANGED <<passkeys, pendingReg, created, asserted, count, raced>>
    BY DEF P!SignUngated, Step
  <1>2. CredentialsTyped /\ CeremoniesKnow
    BY DEF PasskeyInv
  <1>3. /\ DOMAIN calls' = Ceremonies /\ calls'[c].step = "signed" /\ calls'[c].by = Null
        /\ \A d \in Ceremonies \ {c} : calls'[d] = calls[d]
    BY <1>1, <1>2 DEF CeremoniesKnow
  <1>4. CredentialsTyped'
    BY <1>1, <1>2 DEF CredentialsTyped
  <1>5. CeremoniesKnow'
    BY <1>1, <1>2, <1>3 DEF CeremoniesKnow, CeremonyKnows, EnrolledBy, Step
  <1>6. ASSUME Unraced PROVE Unraced'
    <2>1. /\ \A s : Used(s)' <=> Used(s)
          /\ P!Running("signed")' = P!Running("signed") \cup {c}
          /\ \A step \in {"registering", "verifying"} : P!Running(step)' = P!Running(step)
          /\ \A step \in {"registering", "verifying", "signed"} : \A d \in P!Running(step) :
               d # c /\ calls'[d] = calls[d]
      BY <1>1, <1>3 DEF Used, P!Running, Step
    <2>2. EnrolledOnce' /\ OneVerifies'
      BY <1>1, <1>6, <2>1 DEF Unraced, EnrolledOnce, OneVerifies
    <2>3. \A d \in P!Running("verifying") : ReadIsCurrent(d)'
      BY <1>1, <1>6, <2>1 DEF Unraced, ReadIsCurrent
    <2>4. \A d \in P!Running("signed") : UsedUp(d)'
      BY <1>1, <1>3, <1>6, <2>1 DEF Unraced, UsedUp, Step
    <2>5. UsedUp(c)'
      BY <1>3 DEF UsedUp
    <2>. QED BY <2>1, <2>2, <2>3, <2>4, <2>5 DEF Unraced
  <1>. QED BY <1>1, <1>4, <1>5, <1>6 DEF PasskeyInv

\* A ceremony reads a passkey whose counter the assertion has passed: nobody has signed
\* with it, and whoever is verifying with that credential has read the same passkey.
LEMMA SignGatedStep ==
  ASSUME PasskeyInv, NEW c \in Ceremonies, NEW terms \in Contents, P!SignGated(c, terms)
  PROVE  PasskeyInv'
  <1>1. PICK a \in asserted :
          /\ Step(c) = "new"
          /\ a.host \in Allowed /\ passkeys[a.host] # Null
          /\ P!Verifies(a, passkeys[a.host], terms)
          /\ calls' = [calls EXCEPT ![c] =
               [step |-> "verifying", terms |-> terms, by |-> a, read |-> passkeys[a.host]]]
          /\ raced' = (raced \/ \E d \in P!Running("verifying") :
                                  calls[d].read.by = passkeys[a.host].by)
          /\ UNCHANGED <<passkeys, created, asserted, count>>
    BY DEF P!SignGated, Step
  <1>. DEFINE pk == passkeys[a.host]
  <1>2. a.terms = terms /\ a.id = pk.id /\ (a.counter > pk.counter \/ a.counter = 0)
    BY <1>1 DEF P!Verifies
  <1>3. CredentialsTyped /\ CeremoniesKnow
    BY DEF PasskeyInv
  <1>4. /\ DOMAIN calls' = Ceremonies
        /\ calls'[c].step = "verifying" /\ calls'[c].terms = terms /\ calls'[c].by = a
        /\ calls'[c].read = pk
        /\ \A d \in Ceremonies \ {c} : calls'[d] = calls[d]
    BY <1>1, <1>3 DEF CeremoniesKnow
  <1>5. a.host \in Hosts /\ pk.counter \in Nat /\ pk.by \in Ceremonies /\ Step(pk.by) = "enrolled"
    BY <1>1, <1>3 DEF CredentialsTyped, CeremoniesKnow, EnrolledBy
  <1>6. CredentialsTyped'
    BY <1>1, <1>3 DEF CredentialsTyped
  <1>7. CeremoniesKnow'
    <2>1. CeremonyKnows(c)'
      BY <1>1, <1>2, <1>4, <1>5 DEF CeremonyKnows, Step
    <2>2. ASSUME NEW d \in Ceremonies \ {c} PROVE CeremonyKnows(d)'
      BY <1>1, <1>3, <1>4 DEF CeremoniesKnow, CeremonyKnows, Step
    <2>3. ASSUME NEW h \in Hosts PROVE EnrolledBy(h)'
      BY <1>1, <1>3, <1>4 DEF CeremoniesKnow, EnrolledBy, Step
    <2>. QED BY <1>4, <2>1, <2>2, <2>3 DEF CeremoniesKnow
  <1>8. ASSUME ~raced' PROVE Unraced'
    <2>1. Unraced /\ \A d \in P!Running("verifying") : calls[d].read.by # pk.by
      BY <1>1, <1>8 DEF PasskeyInv
    <2>2. /\ \A s : Used(s)' <=> Used(s)
          /\ P!Running("verifying")' = P!Running("verifying") \cup {c}
          /\ \A step \in {"registering", "signed"} : P!Running(step)' = P!Running(step)
          /\ \A step \in {"registering", "verifying", "signed"} : \A d \in P!Running(step) :
               d \in Ceremonies /\ d # c /\ calls'[d] = calls[d]
      BY <1>1, <1>4 DEF Used, P!Running, Step
    <2>3. EnrolledOnce'
      <3>1. DOMAIN pendingReg' \subseteq DOMAIN pendingReg
        BY DEF P!SignGated, P!Keep, P!Swept
      <3>. QED BY <1>1, <2>1, <2>2, <3>1 DEF Unraced, EnrolledOnce
    <2>4. ASSUME NEW d \in P!Running("verifying") PROVE calls[d].by.id # a.id
      <3>1. calls[d].by \in asserted /\ ReadIsCurrent(d)
        BY <1>3, <2>1 DEF Unraced, CeremoniesKnow, CeremonyKnows, P!Running, Step
      <3>2. calls[d].by.id = a.id => calls[d].by.host = a.host
        BY <1>3, <3>1 DEF CredentialsTyped
      <3>. QED BY <1>1, <1>2, <2>1, <3>1, <3>2 DEF ReadIsCurrent
    <2>5. OneVerifies'
      BY <1>2, <1>4, <2>1, <2>2, <2>4 DEF Unraced, OneVerifies
    <2>6. \A d \in P!Running("verifying") : ReadIsCurrent(d)'
      BY <1>1, <2>1, <2>2 DEF Unraced, ReadIsCurrent
    <2>7. ReadIsCurrent(c)'
      BY <1>1, <1>4 DEF ReadIsCurrent
    <2>8. ASSUME NEW d \in P!Running("signed") PROVE UsedUp(d)'
      <3>1. UsedUp(d) /\ calls'[d] = calls[d] /\ d # c
        BY <2>1, <2>2 DEF Unraced
      <3>2. a.counter \in Nat /\ (a.id \in Counting => a.counter > 0)
        BY <1>3 DEF CredentialsTyped
      <3>3. calls[d].by # Null /\ calls[d].by.id \in Counting => calls[d].by # a
        BY <1>1, <1>2, <1>5, <3>1, <3>2 DEF UsedUp
      <3>. QED BY <1>1, <1>4, <3>1, <3>3 DEF UsedUp, Step
    <2>. QED BY <2>2, <2>3, <2>5, <2>6, <2>7, <2>8 DEF Unraced
  <1>. QED BY <1>6, <1>7, <1>8 DEF PasskeyInv

\* The mandate is issued: if the passkey is still there it is the one that was read, so its
\* counter only grows, and it passes the assertion.
LEMMA IssueStep ==
  ASSUME PasskeyInv, NEW c \in Ceremonies, P!Issue(c)
  PROVE  PasskeyInv'
  <1>. DEFINE a == calls[c].by
              pk == passkeys[a.host]
              same == pk # Null /\ pk.by = calls[c].read.by
              new == [pk EXCEPT !.counter = a.counter]
  <1>1. /\ Step(c) = "verifying"
        /\ passkeys' = IF same THEN [passkeys EXCEPT ![a.host] = new] ELSE passkeys
        /\ calls' = [calls EXCEPT ![c] = [step |-> "signed", terms |-> calls[c].terms, by |-> a]]
        /\ UNCHANGED <<pendingReg, created, asserted, count, raced>>
    BY DEF P!Issue, P!Counted, Step
  <1>2. CredentialsTyped /\ CeremoniesKnow
    BY DEF PasskeyInv
  <1>3. /\ a \in asserted /\ a.terms = calls[c].terms /\ a.host \in Allowed /\ a.host \in Hosts
        /\ a.counter \in Nat
        /\ calls[c].read.id = a.id /\ calls[c].read.counter \in Nat
        /\ a.counter > calls[c].read.counter \/ a.counter = 0
    BY <1>1, <1>2 DEF CeremoniesKnow, CeremonyKnows, CredentialsTyped
  <1>4. /\ DOMAIN calls' = Ceremonies
        /\ calls'[c].step = "signed" /\ calls'[c].terms = calls[c].terms /\ calls'[c].by = a
        /\ \A d \in Ceremonies \ {c} : calls'[d] = calls[d]
    BY <1>1, <1>2 DEF CeremoniesKnow
  <1>5. same => /\ new.id = pk.id /\ new.counter = a.counter /\ new.by = pk.by
               /\ new \in [id: Credentials, counter: Nat, by: Ceremonies]
    BY <1>2, <1>3 DEF CredentialsTyped
  <1>. HIDE DEF new
  <1>6. /\ DOMAIN passkeys' = Hosts
        /\ \A h \in Hosts : passkeys'[h] = IF same /\ h = a.host THEN new ELSE passkeys[h]
    BY <1>1, <1>2, <1>3 DEF CredentialsTyped
  <1>7. CredentialsTyped'
    BY <1>1, <1>2, <1>3, <1>5, <1>6 DEF CredentialsTyped
  <1>8. CeremoniesKnow'
    <2>1. CeremonyKnows(c)'
      BY <1>1, <1>3, <1>4 DEF CeremonyKnows, Step
    <2>2. ASSUME NEW d \in Ceremonies \ {c} PROVE CeremonyKnows(d)'
      BY <1>1, <1>2, <1>4 DEF CeremoniesKnow, CeremonyKnows, Step
    <2>3. ASSUME NEW h \in Hosts PROVE EnrolledBy(h)'
      <3>1. passkeys'[h] # Null => passkeys[h] # Null /\ passkeys'[h].by = passkeys[h].by
        BY <1>5, <1>6
      <3>. QED BY <1>1, <1>2, <1>4, <3>1 DEF CeremoniesKnow, EnrolledBy, Step
    <2>. QED BY <1>4, <2>1, <2>2, <2>3 DEF CeremoniesKnow
  <1>9. ASSUME Unraced PROVE Unraced'
    <2>1. /\ c \in P!Running("verifying") /\ P!Running("verifying")' = P!Running("verifying") \ {c}
          /\ P!Running("signed")' = P!Running("signed") \cup {c}
          /\ P!Running("registering")' = P!Running("registering")
          /\ \A step \in {"registering", "verifying", "signed"} : \A d \in P!Running(step) \ {c} :
               d \in Ceremonies /\ calls'[d] = calls[d]
          /\ c \notin P!Running("registering") /\ c \notin P!Running("signed")
      BY <1>1, <1>4 DEF P!Running, Step
    <2>2. \A h \in Hosts : passkeys'[h] # Null => passkeys[h] # Null /\ passkeys'[h].id = passkeys[h].id
      BY <1>5, <1>6
    <2>3. EnrolledOnce'
      <3>1. \A s : Used(s)' => Used(s)
        BY <1>1, <2>2 DEF Used
      <3>. QED BY <1>1, <1>9, <2>1, <3>1 DEF Unraced, EnrolledOnce
    <2>4. OneVerifies'
      BY <1>9, <2>1 DEF Unraced, OneVerifies
    <2>5. \A d \in P!Running("verifying") \ {c} :
            calls[d].read.by # calls[c].read.by /\ calls[d].by.id # a.id
      BY <1>9, <2>1 DEF Unraced, OneVerifies
    <2>6. ASSUME NEW d \in P!Running("verifying") \ {c} PROVE ReadIsCurrent(d)'
      <3>1. /\ ReadIsCurrent(d) /\ calls'[d] = calls[d] /\ calls[d].by.host \in Hosts
            /\ calls[d].read.by # calls[c].read.by
        BY <1>2, <1>9, <2>1, <2>5 DEF Unraced, CeremoniesKnow, CeremonyKnows, CredentialsTyped,
                                     P!Running, Step
      <3>. QED BY <1>5, <1>6, <3>1 DEF ReadIsCurrent
    <2>7. same => pk = calls[c].read
      BY <1>9, <2>1 DEF Unraced, ReadIsCurrent
    <2>8. ASSUME NEW d \in P!Running("signed") PROVE UsedUp(d)'
      <3>1. /\ UsedUp(d) /\ calls'[d] = calls[d] /\ d # c
            /\ calls[d].by # Null => calls[d].by \in asserted /\ calls[d].by.host \in Hosts
        BY <1>2, <1>9, <2>1 DEF Unraced, CeremoniesKnow, CeremonyKnows, CredentialsTyped,
                               P!Running, Step
      <3>2. ASSUME calls[d].by # Null, calls[d].by.id \in Counting
            PROVE  calls[d].by # a /\ calls[d].by.counter \in Nat
        BY <1>1, <1>2, <2>1, <3>1, <3>2 DEF UsedUp, CredentialsTyped
      <3>3. a.id \in Counting => a.counter > 0
        BY <1>2, <1>3 DEF CredentialsTyped
      <3>4. ASSUME calls[d].by # Null, calls[d].by.id \in Counting,
                   passkeys'[calls[d].by.host] # Null,
                   passkeys'[calls[d].by.host].id = calls[d].by.id
            PROVE  passkeys'[calls[d].by.host].counter >= calls[d].by.counter
        <4>1. CASE same /\ calls[d].by.host = a.host
          BY <1>3, <1>5, <1>6, <2>7, <3>1, <3>2, <3>3, <3>4, <4>1 DEF UsedUp
        <4>2. CASE ~(same /\ calls[d].by.host = a.host)
          BY <1>6, <3>1, <3>4, <4>2 DEF UsedUp
        <4>. QED BY <4>1, <4>2
      <3>5. ASSUME calls[d].by # Null, calls[d].by.id \in Counting,
                   NEW e \in Ceremonies \ {d}, Step(e)' \in {"verifying", "signed"}
            PROVE  calls'[e].by # calls[d].by
        BY <1>1, <1>4, <3>1, <3>2, <3>5 DEF UsedUp, Step
      <3>. QED BY <1>1, <3>1, <3>4, <3>5 DEF UsedUp
    <2>9. UsedUp(c)'
      <3>1. ASSUME passkeys'[a.host] # Null, passkeys'[a.host].id = a.id
            PROVE  passkeys'[a.host].counter >= a.counter
        BY <1>3, <1>5, <1>6, <1>9, <2>1, <3>1 DEF Unraced, ReadIsCurrent
      <3>2. ASSUME a # Null, a.id \in Counting,
                   NEW e \in Ceremonies \ {c}, Step(e)' \in {"verifying", "signed"}
            PROVE  calls'[e].by # a
        <4>1. calls'[e] = calls[e] /\ Step(e) \in {"verifying", "signed"}
          BY <1>4, <3>2 DEF Step
        <4>2. CASE Step(e) = "verifying"
          BY <2>5, <4>1, <4>2 DEF P!Running, Step
        <4>3. CASE Step(e) = "signed"
          <5>1. UsedUp(e)
            BY <1>9, <4>3 DEF Unraced, P!Running, Step
          <5>. QED BY <1>1, <3>2, <4>1, <5>1 DEF UsedUp
        <4>. QED BY <4>1, <4>2, <4>3
      <3>. QED BY <1>4, <3>1, <3>2 DEF UsedUp
    <2>. QED BY <2>1, <2>3, <2>4, <2>6, <2>8, <2>9 DEF Unraced
  <1>. QED BY <1>1, <1>7, <1>8, <1>9 DEF PasskeyInv

LEMMA PasskeyStep == PasskeyInv /\ [P!Next]_(P!vars) => PasskeyInv'
  BY PasskeyQuietStep, CreateCredentialStep, UserAssertsStep, RegisterStep, EnrolStep,
     SignUngatedStep, SignGatedStep, IssueStep DEF P!Next

\* Whatever is enrolled, removed, asserted or sent again: a gated mandate rests on the
\* user's assertion over its terms, and an assertion of a counting authenticator signs one
\* mandate unless two ceremonies raced.
THEOREM AssertionSignsOneMandate == ServicesSpec => []AssertionsSignOnce
  <1>. DEFINE Inv == part = "passkeys" => PasskeyInv
  <1>1. ServicesInit => Inv
    BY PartInit, PasskeyInit
  <1>2. Inv /\ [ServicesNext]_servicesVars => Inv'
    BY PartStep, PasskeyStep
  <1>3. Inv => AssertionsSignOnce
    <2>. SUFFICES ASSUME PasskeyInv PROVE P!AssertionsSignOnce
      BY DEF AssertionsSignOnce
    <2>. SUFFICES ASSUME NEW c \in Ceremonies, calls[c].step = "signed", calls[c].by # Null
                  PROVE  LET a == calls[c].by IN
                           /\ a \in asserted /\ a.terms = calls[c].terms /\ a.host \in Allowed
                           /\ a.id \in Counting /\ ~raced => P!SignedBy(a) = {c}
      BY DEF P!AssertionsSignOnce
    <2>1. CeremonyKnows(c)
      BY DEF PasskeyInv, CeremoniesKnow
    <2>2. ~raced => UsedUp(c)
      BY DEF PasskeyInv, Unraced, P!Running
    <2>. QED BY <2>1, <2>2 DEF CeremonyKnows, UsedUp, P!SignedBy, Step
  <1>. QED BY <1>1, <1>2, <1>3, PTL DEF ServicesSpec

-----------------------------------------------------------------------------
(***************************************************************************)
(* The JSON-RPC layer.                                                     *)
(***************************************************************************)
(***************************************************************************)
(* Types.                                                                  *)
(***************************************************************************)
Request ==
  [pc: {"idle", "verifying", "running", "done"},
   key: KeyIds, idem: Keys \cup {NoKey}, body: Bodies,
   fetch: {"no", "asked", "served"}, since: Nat, profile: Profile,
   answer: Answers, of: Requests \cup {None}, at: Nat]
Stored == [of: Requests \cup {None}, body: Bodies, outcome: Outcomes, at: Nat]
Cached == [filled: BOOLEAN, profile: Profile, at: Nat]
Peer == [key: KeyIds, fits: BOOLEAN, since: Nat]

LEMMA TypeParts ==
  TypeOK <=> /\ peer \in Peer /\ retired \in [KeyIds -> Nat] /\ profileCache \in Cached
             /\ requests \in [Requests -> Request]
             /\ idempotencyStore \in [Keys -> Stored] /\ now \in Nat
  BY DEF TypeOK, Peer, Cached, Request, Stored

\* A record of a request in its initial state is well typed, and says nothing yet.
LEMMA IdleTyped ==
  /\ Idle \in Request /\ NoEntry \in Stored /\ NoProfile \in Profile
  /\ Idle.fetch = "no" /\ Idle.of = None /\ Idle.pc = "idle" /\ Idle.answer = None
  <1>1. (CHOOSE b \in Bodies : TRUE) \in Bodies
    BY RpcAssumption
  <1>2. NoProfile \in Profile
    BY RpcAssumption DEF NoProfile, Profile, KeyIds
  <1>3. Idle \in Request
    BY <1>1, <1>2, RpcAssumption DEF Idle, Request, KeyIds, Answers
  <1>4. NoEntry \in Stored
    BY <1>1, RpcAssumption DEF NoEntry, Stored, Outcomes
  <1>. QED BY <1>2, <1>3, <1>4 DEF Idle

\* The three ways a request goes on once its profile is there.
LEMMA RefusedTyped ==
  ASSUME NEW reason \in Answers
  PROVE  /\ Refused(reason) \in Request
         /\ Refused(reason).fetch = "no" /\ Refused(reason).of = None
         /\ Refused(reason).pc = "done" /\ Refused(reason).answer = reason
  BY IdleTyped DEF Refused, Request

LEMMA RunningTyped ==
  ASSUME TypeOK, NEW q \in Requests
  PROVE  /\ Running(q) \in Request
         /\ Running(q).fetch = "no" /\ Running(q).of = None
         /\ Running(q).pc = "running" /\ Running(q).answer = None
         /\ Running(q).idem = requests[q].idem /\ Running(q).body = requests[q].body
  <1>1. requests[q] \in Request
    BY TypeParts
  <1>. QED BY <1>1, IdleTyped DEF Running, Request

LEMMA AnsweredTyped ==
  ASSUME TypeOK, NEW q \in Requests, NEW outcome \in Outcomes, NEW run \in Requests
  PROVE  LET a == Answered(q, outcome, run) IN
         /\ a \in Request
         /\ a.fetch = "no" /\ a.of = run /\ a.pc = "done" /\ a.answer = outcome /\ a.at = now
         /\ a.idem = requests[q].idem /\ a.body = requests[q].body
  <1>1. requests[q] \in Request /\ now \in Nat
    BY TypeParts
  <1>. QED BY <1>1, IdleTyped DEF Answered, Request, Answers

-----------------------------------------------------------------------------
(***************************************************************************)
(* The steps.                                                              *)
(***************************************************************************)
\* What Proceed leaves of a request, by the profile it has.
Unauthorized(q, profile) ==
  ~Verified(q, profile) /\ requests'[q] = Refused("unauthorized")
OtherwiseRefused(q, profile) ==
  /\ Verified(q, profile)
  /\ \E reason \in {"incompatible", "invalid", "conflict"} : requests'[q] = Refused(reason)
Replays(q, profile) ==
  /\ Verified(q, profile)
  /\ requests[q].idem \in Keys
  /\ Remembered(requests[q].idem)
  /\ SameRequest(q)
  /\ requests'[q] = Answered(q, idempotencyStore[requests[q].idem].outcome,
                                idempotencyStore[requests[q].idem].of)
Runs(q, profile) ==
  /\ Verified(q, profile)
  /\ requests[q].idem \in Keys => ~Remembered(requests[q].idem)
  /\ requests'[q] = Running(q)

LEMMA ProceedCases ==
  ASSUME TypeOK, NEW q \in Requests, NEW profile \in Profile, Proceed(q, profile)
  PROVE  /\ \A p \in Requests \ {q} : requests'[p] = requests[p]
         /\ \/ Unauthorized(q, profile) \/ OtherwiseRefused(q, profile)
            \/ Replays(q, profile) \/ Runs(q, profile)
  <1>1. requests \in [Requests -> Request] /\ requests[q] \in Request
    BY TypeParts
  <1>2. requests[q].idem \in Keys \cup {NoKey}
    BY <1>1 DEF Request
  <1>. DEFINE next == IF ~Verified(q, profile) THEN Refused("unauthorized")
                      ELSE IF ~profile.fits THEN Refused("incompatible")
                      ELSE Dispatch(q)
  <1>3. requests' = [requests EXCEPT ![q] = next]
    BY DEF Proceed
  <1>4. requests'[q] = next /\ \A p \in Requests \ {q} : requests'[p] = requests[p]
    BY <1>1, <1>3
  <1>5. CASE ~Verified(q, profile)
    BY <1>4, <1>5 DEF Unauthorized
  <1>6. CASE Verified(q, profile) /\ ~profile.fits
    BY <1>4, <1>6 DEF OtherwiseRefused
  <1>7. CASE Verified(q, profile) /\ profile.fits
    <2>1. requests'[q] = Dispatch(q)
      BY <1>4, <1>7
    <2>2. CASE requests[q].idem = NoKey
      BY <1>4, <1>7, <2>1, <2>2, RpcAssumption DEF Dispatch, OtherwiseRefused, Runs
    <2>3. CASE requests[q].idem \in Keys /\ ~Remembered(requests[q].idem)
      BY <1>4, <1>7, <2>1, <2>3, RpcAssumption DEF Dispatch, Runs
    <2>4. CASE requests[q].idem \in Keys /\ Remembered(requests[q].idem) /\ SameRequest(q)
      BY <1>4, <1>7, <2>1, <2>4, RpcAssumption DEF Dispatch, Replays
    <2>5. CASE requests[q].idem \in Keys /\ Remembered(requests[q].idem) /\ ~SameRequest(q)
      BY <1>4, <1>7, <2>1, <2>5, RpcAssumption DEF Dispatch, OtherwiseRefused
    <2>. QED BY <1>2, <2>2, <2>3, <2>4, <2>5
  <1>. QED BY <1>4, <1>5, <1>6, <1>7

\* A replayed answer is one the store has, of a request.
LEMMA RememberedTyped ==
  ASSUME TypeOK, NEW k \in Keys, Remembered(k)
  PROVE  /\ idempotencyStore[k] \in Stored
         /\ idempotencyStore[k].of \in Requests
         /\ idempotencyStore[k].outcome \in Outcomes
  <1>1. idempotencyStore[k] \in Stored
    BY TypeParts
  <1>. QED BY <1>1 DEF Remembered, Stored

LEMMA ProceedTyped ==
  ASSUME TypeOK, NEW q \in Requests, NEW profile \in Profile, Proceed(q, profile)
  PROVE  requests' \in [Requests -> Request] /\ requests'[q].fetch = "no"
  <1>1. requests \in [Requests -> Request]
    BY TypeParts
  <1>2. requests'[q] \in Request /\ requests'[q].fetch = "no"
    <2>1. CASE Unauthorized(q, profile)
      BY <2>1, RefusedTyped DEF Unauthorized, Answers
    <2>2. CASE OtherwiseRefused(q, profile)
      BY <2>2, RefusedTyped DEF OtherwiseRefused, Answers
    <2>3. CASE Replays(q, profile)
      BY <2>3, RememberedTyped, AnsweredTyped DEF Replays
    <2>4. CASE Runs(q, profile)
      BY <2>4, RunningTyped DEF Runs
    <2>. QED BY <2>1, <2>2, <2>3, <2>4, ProceedCases
  <1>3. requests' = [requests EXCEPT ![q] = requests'[q]]
    BY <1>1 DEF Proceed
  <1>. QED BY <1>1, <1>2, <1>3

\* Every step keeps the types of the state.
LEMMA TypeStep == TypeOK /\ [Next]_vars => TypeOK'
  <1>. SUFFICES ASSUME TypeOK, [Next]_vars PROVE TypeOK'
    OBVIOUS
  <1>1. /\ peer \in Peer /\ retired \in [KeyIds -> Nat] /\ profileCache \in Cached
        /\ requests \in [Requests -> Request]
        /\ idempotencyStore \in [Keys -> Stored] /\ now \in Nat
    BY TypeParts
  <1>2. ASSUME requests' \in [Requests -> Request],
               UNCHANGED <<peer, retired, profileCache, idempotencyStore, now>>
        PROVE  TypeOK'
    BY <1>1, <1>2 DEF TypeOK, Request, Peer, Cached, Stored
  <1>3. ASSUME NEW q \in Requests, NEW idem \in Keys \cup {NoKey}, NEW body \in Bodies,
               CallTool(q, idem, body)
        PROVE  TypeOK'
    <2>. DEFINE new == [Idle EXCEPT !.pc = "verifying", !.key = peer.key, !.idem = idem, !.body = body]
    <2>1. new \in Request
      BY <1>1, IdleTyped DEF Request, Peer
    <2>2. requests' = [requests EXCEPT ![q] = new]
      BY <1>3 DEF CallTool
    <2>. HIDE DEF new
    <2>. QED BY <1>1, <1>2, <1>3, <2>1, <2>2 DEF CallTool
  <1>4. ASSUME NEW fits \in BOOLEAN, RestartPeer(fits) PROVE TypeOK'
    <2>1. peer.key \in KeyIds /\ peer.key + 1 \in KeyIds
      BY <1>1, <1>4, RpcAssumption DEF RestartPeer, Peer, KeyIds
    <2>2. peer' \in Peer
      BY <1>1, <1>4, <2>1 DEF RestartPeer, Peer
    <2>3. retired' \in [KeyIds -> Nat]
      BY <1>1, <1>4, <2>1 DEF RestartPeer
    <2>. QED BY <1>1, <1>4, <2>2, <2>3 DEF RestartPeer, TypeOK, Request, Peer, Cached, Stored
  <1>5. ASSUME NEW q \in Requests, UseCached(q) PROVE TypeOK'
    <2>1. profileCache.profile \in Profile
      BY <1>1 DEF Cached
    <2>. QED BY <1>2, <1>5, <2>1, ProceedTyped DEF UseCached
  <1>6. ASSUME NEW q \in Requests, AskProfile(q) PROVE TypeOK'
    <2>. DEFINE asked == [requests[q] EXCEPT !.fetch = "asked", !.since = now]
    <2>1. requests' = [requests EXCEPT ![q] = asked]
      BY <1>1, <1>6, Zenon DEF AskProfile
    <2>2. requests[q] \in Request
      BY <1>1
    <2>3. asked \in Request
      BY <1>1, <2>2 DEF Request
    <2>4. UNCHANGED <<peer, retired, profileCache, idempotencyStore, now>>
      BY <1>6 DEF AskProfile
    <2>. HIDE DEF asked
    <2>5. requests' \in [Requests -> Request]
      BY <1>1, <2>1, <2>3
    <2>. QED BY <1>2, <2>4, <2>5
  <1>7. ASSUME NEW q \in Requests, ServeProfile(q) PROVE TypeOK'
    <2>. DEFINE p == [key |-> peer.key, fits |-> peer.fits]
    <2>1. p \in Profile
      BY <1>1 DEF Peer, Profile
    <2>. DEFINE served == [requests[q] EXCEPT !.fetch = "served", !.profile = p]
    <2>2. requests' = [requests EXCEPT ![q] = served]
      BY <1>1, <1>7, Zenon DEF ServeProfile
    <2>. HIDE DEF p
    <2>3. requests[q] \in Request
      BY <1>1
    <2>4. served \in Request
      BY <2>1, <2>3 DEF Request
    <2>5. UNCHANGED <<peer, retired, profileCache, idempotencyStore, now>>
      BY <1>7 DEF ServeProfile
    <2>. HIDE DEF served
    <2>6. requests' \in [Requests -> Request]
      BY <1>1, <2>2, <2>4
    <2>. QED BY <1>2, <2>5, <2>6
  <1>8. ASSUME NEW q \in Requests, ReceiveProfile(q) PROVE TypeOK'
    <2>1. requests[q].profile \in Profile
      BY <1>1 DEF Request
    <2>2. requests' \in [Requests -> Request]
      BY <1>8, <2>1, ProceedTyped DEF ReceiveProfile
    <2>3. profileCache' \in Cached
      BY <1>1, <1>8, <2>1 DEF ReceiveProfile, Cached
    <2>. QED BY <1>1, <1>8, <2>2, <2>3 DEF ReceiveProfile, TypeOK, Request, Peer, Cached, Stored
  <1>9. ASSUME NEW q \in Requests, FetchFails(q) PROVE TypeOK'
    <2>1. Refused("unreachable") \in Request
      BY RefusedTyped DEF Answers
    <2>. QED BY <1>1, <1>2, <1>9, <2>1 DEF FetchFails
  <1>10. ASSUME NEW q \in Requests, NEW outcome \in Outcomes, EndTool(q, outcome) PROVE TypeOK'
    <2>1. Answered(q, outcome, q) \in Request /\ Entry(q, outcome) \in Stored
      <3>1. requests[q] \in Request
        BY <1>1
      <3>. QED BY <1>1, <3>1, AnsweredTyped DEF Entry, Stored, Request
    <2>2. requests' \in [Requests -> Request]
      BY <1>1, <1>10, <2>1 DEF EndTool
    <2>3. idempotencyStore' \in [Keys -> Stored]
      BY <1>1, <1>10, <2>1 DEF EndTool
    <2>. QED BY <1>1, <1>10, <2>2, <2>3 DEF EndTool, TypeOK, Request, Peer, Cached, Stored
  <1>11. CASE Tick
    BY <1>1, <1>11 DEF Tick, TypeOK, Request, Peer, Cached, Stored
  <1>12. CASE UNCHANGED vars
    BY <1>12 DEF vars, TypeOK
  <1>. QED BY <1>3, <1>4, <1>5, <1>6, <1>7, <1>8, <1>9, <1>10, <1>11, <1>12 DEF Next, Handle

\* The initial state has its types.
LEMMA TypeInit == Init => TypeOK
  <1>. SUFFICES ASSUME Init PROVE TypeOK
    OBVIOUS
  <1>1. 0 \in KeyIds
    BY RpcAssumption DEF KeyIds
  <1>. QED BY <1>1, IdleTyped DEF Init, TypeOK, Request, Stored

\* Every reachable state is well typed.
THEOREM TypeCorrect == Spec => []TypeOK
  <1>. QED BY TypeInit, TypeStep, PTL DEF Spec

-----------------------------------------------------------------------------
(***************************************************************************)
(* Profiles.                                                               *)
(***************************************************************************)
\* A profile that was the caller's at time t or later.
CurrentAt(profile, t) ==
  profile.key = peer.key \/ (retired[profile.key] >= t /\ peer.since >= t)

\* A profile is never older than what it was fetched for, nor a fetch than MaxDelay.
ProfileInv ==
  /\ profileCache.filled =>
       profileCache.at <= now /\ CurrentAt(profileCache.profile, profileCache.at - MaxDelay)
  /\ \A q \in Requests :
       /\ requests[q].fetch # "no" =>
            /\ requests[q].pc = "verifying"
            /\ requests[q].since <= now /\ now - requests[q].since <= MaxDelay
       /\ requests[q].fetch = "served" => CurrentAt(requests[q].profile, requests[q].since)

\* A restart of the caller leaves a profile as current as it was.
LEMMA RestartKeepsCurrent ==
  ASSUME TypeOK, NEW fits \in BOOLEAN, RestartPeer(fits),
         NEW profile \in Profile, NEW t \in Int, t <= now, CurrentAt(profile, t)
  PROVE  CurrentAt(profile, t)'
  <1>1. /\ peer \in Peer /\ retired \in [KeyIds -> Nat] /\ now \in Nat
        /\ peer.key \in KeyIds /\ profile.key \in KeyIds
    BY TypeParts DEF Peer, Profile
  <1>2. /\ peer'.since = now
        /\ retired'[peer.key] = now
        /\ \A g \in KeyIds \ {peer.key} : retired'[g] = retired[g]
    BY <1>1 DEF RestartPeer
  <1>3. CASE profile.key = peer.key
    BY <1>1, <1>2, <1>3 DEF CurrentAt
  <1>4. CASE profile.key # peer.key
    BY <1>1, <1>2, <1>4 DEF CurrentAt
  <1>. QED BY <1>3, <1>4

\* ProfileInv is inductive.
LEMMA ProfileStep == TypeOK /\ ProfileInv /\ [Next]_vars => ProfileInv'
  <1>. SUFFICES ASSUME TypeOK, ProfileInv, [Next]_vars PROVE ProfileInv'
    OBVIOUS
  <1>1. /\ peer \in Peer /\ retired \in [KeyIds -> Nat] /\ profileCache \in Cached
        /\ requests \in [Requests -> Request] /\ now \in Nat
        /\ MaxDelay \in Nat
    BY TypeParts, RpcAssumption
  \* Most steps change one request only.
  <1>2. ASSUME UNCHANGED <<peer, retired, profileCache, now>>,
               NEW q \in Requests, \A p \in Requests \ {q} : requests'[p] = requests[p],
               \/ requests'[q].fetch = "no"
               \/ /\ requests'[q].fetch = "asked" /\ requests'[q].pc = "verifying"
                  /\ requests'[q].since = now
               \/ /\ requests'[q].pc = requests[q].pc /\ requests[q].fetch # "no"
                  /\ requests'[q].since = requests[q].since
                  /\ requests'[q].profile.key = peer.key
        PROVE  ProfileInv'
    <2>1. \A p \in Requests \ {q} :
            /\ requests'[p].fetch # "no" =>
                 /\ requests'[p].pc = "verifying"
                 /\ requests'[p].since <= now' /\ now' - requests'[p].since <= MaxDelay
            /\ requests'[p].fetch = "served" => CurrentAt(requests[p].profile, requests[p].since)'
      BY <1>2 DEF ProfileInv, CurrentAt
    <2>2. /\ requests'[q].fetch # "no" =>
               /\ requests'[q].pc = "verifying"
               /\ requests'[q].since <= now' /\ now' - requests'[q].since <= MaxDelay
          /\ requests'[q].fetch = "served" => CurrentAt(requests[q].profile, requests[q].since)'
      BY <1>1, <1>2 DEF ProfileInv, CurrentAt
    <2>3. profileCache'.filled =>
            profileCache'.at <= now' /\ CurrentAt(profileCache.profile, profileCache.at - MaxDelay)'
      BY <1>2 DEF ProfileInv, CurrentAt
    <2>. QED BY <2>1, <2>2, <2>3 DEF ProfileInv
  <1>3. ASSUME NEW q \in Requests, NEW idem \in Keys \cup {NoKey}, NEW body \in Bodies,
               CallTool(q, idem, body)
        PROVE  ProfileInv'
    <2>1. requests'[q].fetch = "no" /\ \A p \in Requests \ {q} : requests'[p] = requests[p]
      BY <1>1, <1>3, IdleTyped DEF CallTool, Request
    <2>. QED BY <1>2, <1>3, <2>1 DEF CallTool
  <1>4. ASSUME NEW fits \in BOOLEAN, RestartPeer(fits) PROVE ProfileInv'
    <2>1. UNCHANGED <<profileCache, requests, now>>
      BY <1>4 DEF RestartPeer
    <2>2. profileCache.filled => CurrentAt(profileCache.profile, profileCache.at - MaxDelay)'
      <3>1. profileCache.profile \in Profile /\ profileCache.at \in Nat
        BY <1>1 DEF Cached
      <3>2. ASSUME profileCache.filled
            PROVE  /\ profileCache.at - MaxDelay \in Int /\ profileCache.at - MaxDelay <= now
                   /\ CurrentAt(profileCache.profile, profileCache.at - MaxDelay)
        BY <1>1, <3>1, <3>2 DEF ProfileInv
      <3>3. ASSUME NEW f \in Profile, NEW t \in Int, t <= now, CurrentAt(f, t)
            PROVE  CurrentAt(f, t)'
        BY <1>4, <3>3, RestartKeepsCurrent
      <3>. QED BY <2>1, <3>1, <3>2, <3>3 DEF CurrentAt
    <2>3. \A q \in Requests : requests[q].fetch = "served" =>
            CurrentAt(requests[q].profile, requests[q].since)'
      <3>1. SUFFICES ASSUME NEW q \in Requests, requests[q].fetch = "served"
            PROVE CurrentAt(requests[q].profile, requests[q].since)'
        OBVIOUS
      <3>2. /\ requests[q].profile \in Profile /\ requests[q].since \in Nat
            /\ requests[q].since <= now
            /\ CurrentAt(requests[q].profile, requests[q].since)
        BY <1>1, <3>1 DEF Request, ProfileInv
      <3>3. ASSUME NEW f \in Profile, NEW t \in Int, t <= now, CurrentAt(f, t)
            PROVE  CurrentAt(f, t)'
        BY <1>4, <3>3, RestartKeepsCurrent
      <3>. QED BY <2>1, <3>2, <3>3 DEF CurrentAt
    <2>. QED BY <2>1, <2>2, <2>3 DEF ProfileInv
  <1>5. ASSUME NEW q \in Requests, UseCached(q) PROVE ProfileInv'
    <2>1. profileCache.profile \in Profile
      BY <1>1 DEF Cached
    <2>2. requests'[q].fetch = "no" /\ \A p \in Requests \ {q} : requests'[p] = requests[p]
      BY <1>5, <2>1, ProceedTyped, ProceedCases DEF UseCached
    <2>. QED BY <1>2, <1>5, <2>2 DEF UseCached
  <1>6. ASSUME NEW q \in Requests, AskProfile(q) PROVE ProfileInv'
    <2>1. /\ requests'[q].fetch = "asked" /\ requests'[q].pc = "verifying"
          /\ requests'[q].since = now
          /\ \A p \in Requests \ {q} : requests'[p] = requests[p]
      BY <1>1, <1>6 DEF AskProfile, Request
    <2>. QED BY <1>2, <1>6, <2>1 DEF AskProfile
  <1>7. ASSUME NEW q \in Requests, ServeProfile(q) PROVE ProfileInv'
    <2>1. /\ requests'[q].pc = requests[q].pc /\ requests[q].fetch # "no"
          /\ requests'[q].since = requests[q].since
          /\ requests'[q].profile.key = peer.key
          /\ \A p \in Requests \ {q} : requests'[p] = requests[p]
      BY <1>1, <1>7 DEF ServeProfile, Request
    <2>. QED BY <1>2, <1>7, <2>1 DEF ServeProfile
  <1>8. ASSUME NEW q \in Requests, ReceiveProfile(q) PROVE ProfileInv'
    <2>1. requests[q].profile \in Profile /\ requests[q].since \in Nat
      BY <1>1 DEF Request
    <2>2. requests'[q].fetch = "no" /\ \A p \in Requests \ {q} : requests'[p] = requests[p]
      BY <1>8, <2>1, ProceedTyped, ProceedCases DEF ReceiveProfile
    <2>3. /\ profileCache' = [filled |-> TRUE, profile |-> requests[q].profile, at |-> now]
          /\ UNCHANGED <<peer, retired, now>>
      BY <1>8 DEF ReceiveProfile
    <2>4. /\ now - MaxDelay <= requests[q].since
          /\ CurrentAt(requests[q].profile, requests[q].since)
      BY <1>1, <1>8, <2>1 DEF ReceiveProfile, ProfileInv
    <2>5. CurrentAt(requests[q].profile, now - MaxDelay)
      <3>1. retired[requests[q].profile.key] \in Nat /\ peer.since \in Nat
        BY <1>1, <2>1 DEF Profile, Peer
      <3>. QED BY <1>1, <2>1, <2>4, <3>1 DEF CurrentAt
    <2>6. /\ profileCache'.at <= now'
          /\ CurrentAt(profileCache.profile, profileCache.at - MaxDelay)'
      BY <1>1, <2>3, <2>5 DEF CurrentAt
    <2>7. \A p \in Requests :
            /\ requests'[p].fetch # "no" =>
                 /\ requests'[p].pc = "verifying"
                 /\ requests'[p].since <= now' /\ now' - requests'[p].since <= MaxDelay
            /\ requests'[p].fetch = "served" => CurrentAt(requests[p].profile, requests[p].since)'
      BY <2>2, <2>3 DEF ProfileInv, CurrentAt
    <2>. QED BY <2>6, <2>7 DEF ProfileInv
  <1>9. ASSUME NEW q \in Requests, FetchFails(q) PROVE ProfileInv'
    <2>1. Refused("unreachable").fetch = "no"
      BY RefusedTyped DEF Answers
    <2>2. requests'[q].fetch = "no" /\ \A p \in Requests \ {q} : requests'[p] = requests[p]
      BY <1>1, <1>9, <2>1 DEF FetchFails
    <2>. QED BY <1>2, <1>9, <2>2 DEF FetchFails
  <1>10. ASSUME NEW q \in Requests, NEW outcome \in Outcomes, EndTool(q, outcome)
         PROVE  ProfileInv'
    <2>1. requests'[q].fetch = "no" /\ \A p \in Requests \ {q} : requests'[p] = requests[p]
      BY <1>1, <1>10, AnsweredTyped DEF EndTool
    <2>. QED BY <1>2, <1>10, <2>1 DEF EndTool
  <1>11. CASE Tick
    <2>1. now' = now + 1 /\ UNCHANGED <<peer, retired, profileCache, requests>>
      BY <1>11 DEF Tick
    <2>2. \A q \in Requests : requests[q].fetch # "no" => now - requests[q].since < MaxDelay
      BY <1>11 DEF Tick
    <2>3. \A q \in Requests : requests[q].since \in Nat
      BY <1>1 DEF Request
    <2>4. profileCache.at \in Nat
      BY <1>1 DEF Cached
    <2>. QED BY <1>1, <2>1, <2>2, <2>3, <2>4 DEF ProfileInv, CurrentAt
  <1>12. CASE UNCHANGED vars
    BY <1>12 DEF vars, ProfileInv, CurrentAt
  <1>. QED BY <1>3, <1>4, <1>5, <1>6, <1>7, <1>8, <1>9, <1>10, <1>11, <1>12 DEF Next, Handle

LEMMA ProfileInit == Init => ProfileInv
  BY IdleTyped DEF Init, ProfileInv

\* Asking for a profile and serving it move a request only within its fetch.
LEMMA FetchMoves ==
  ASSUME TypeOK, NEW q \in Requests, AskProfile(q) \/ ServeProfile(q)
  PROVE  /\ \A p \in Requests \ {q} : requests'[p] = requests[p]
         /\ requests'[q].pc = requests[q].pc /\ requests'[q].of = requests[q].of
  <1>1. requests \in [Requests -> Request] /\ requests[q] \in Request
    BY TypeParts
  <1>2. CASE AskProfile(q)
    <2>. DEFINE asked == [requests[q] EXCEPT !.fetch = "asked", !.since = now]
    <2>1. requests' = [requests EXCEPT ![q] = asked]
      BY <1>1, <1>2, Zenon DEF AskProfile
    <2>2. asked.pc = requests[q].pc /\ asked.of = requests[q].of
      BY <1>1 DEF Request
    <2>. HIDE DEF asked
    <2>. QED BY <1>1, <2>1, <2>2
  <1>3. CASE ServeProfile(q)
    <2>. DEFINE served == [requests[q] EXCEPT !.fetch = "served",
                             !.profile = [key |-> peer.key, fits |-> peer.fits]]
    <2>1. requests' = [requests EXCEPT ![q] = served]
      BY <1>1, <1>3, Zenon DEF ServeProfile
    <2>2. served.pc = requests[q].pc /\ served.of = requests[q].of
      BY <1>1 DEF Request
    <2>. HIDE DEF served
    <2>. QED BY <1>1, <2>1, <2>2
  <1>. QED BY <1>2, <1>3

\* Who accepts or refuses a request has a profile that was the caller's not long ago.
LEMMA ProfileUsed ==
  ASSUME TypeOK, ProfileInv, [Next]_vars, NEW q \in Requests, requests[q].pc = "verifying",
         requests'[q].pc \in {"running", "done"}, requests'[q].answer # "unreachable"
  PROVE  \E profile \in Profile :
           /\ Proceed(q, profile)
           /\ profile.key = peer.key
              \/ /\ now - retired[profile.key] < ProfileTTL + MaxDelay
                 /\ now - peer.since < ProfileTTL + MaxDelay
  <1>1. /\ peer \in Peer /\ retired \in [KeyIds -> Nat] /\ profileCache \in Cached
        /\ requests \in [Requests -> Request] /\ now \in Nat
        /\ MaxDelay \in Nat /\ ProfileTTL \in Nat \ {0}
    BY TypeParts, RpcAssumption
  <1>2. ASSUME NEW profile \in Profile, NEW t \in Int, now - t < ProfileTTL + MaxDelay,
               CurrentAt(profile, t)
        PROVE  profile.key = peer.key
               \/ /\ now - retired[profile.key] < ProfileTTL + MaxDelay
                  /\ now - peer.since < ProfileTTL + MaxDelay
    <2>1. retired[profile.key] \in Nat /\ peer.since \in Nat
      BY <1>1 DEF Profile, Peer
    <2>. QED BY <1>1, <1>2, <2>1 DEF CurrentAt
  <1>3. CASE UseCached(q)
    <2>1. /\ profileCache.profile \in Profile /\ profileCache.at - MaxDelay \in Int
          /\ profileCache.at \in Nat
      BY <1>1 DEF Cached
    <2>2. CurrentAt(profileCache.profile, profileCache.at - MaxDelay)
      BY <1>3 DEF UseCached, CacheIsFresh, ProfileInv
    <2>3. now - (profileCache.at - MaxDelay) < ProfileTTL + MaxDelay
      BY <1>1, <1>3, <2>1 DEF UseCached, CacheIsFresh
    <2>. QED BY <1>2, <1>3, <2>1, <2>2, <2>3 DEF UseCached
  <1>4. CASE ReceiveProfile(q)
    <2>1. requests[q].profile \in Profile /\ requests[q].since \in Nat
      BY <1>1 DEF Request
    <2>2. CurrentAt(requests[q].profile, requests[q].since) /\ now - requests[q].since <= MaxDelay
      BY <1>4 DEF ReceiveProfile, ProfileInv
    <2>3. now - requests[q].since < ProfileTTL + MaxDelay
      BY <1>1, <2>1, <2>2
    <2>. QED BY <1>2, <1>4, <2>1, <2>2, <2>3 DEF ReceiveProfile
  <1>5. UseCached(q) \/ ReceiveProfile(q)
    <2>1. ASSUME NEW p \in Requests, NEW idem \in Keys \cup {NoKey}, NEW body \in Bodies,
                 CallTool(p, idem, body)
          PROVE  FALSE
      BY <1>1, <2>1 DEF CallTool
    <2>2. ASSUME NEW p \in Requests, UseCached(p) PROVE UseCached(q)
      <3>1. p # q => requests'[q] = requests[q]
        BY <1>1, <2>2 DEF UseCached, Proceed
      <3>. QED BY <2>2, <3>1
    <2>3. ASSUME NEW p \in Requests, ReceiveProfile(p) PROVE ReceiveProfile(q)
      <3>1. p # q => requests'[q] = requests[q]
        BY <1>1, <2>3 DEF ReceiveProfile, Proceed
      <3>. QED BY <2>3, <3>1
    <2>4. ASSUME NEW p \in Requests, AskProfile(p) \/ ServeProfile(p) PROVE FALSE
      BY <2>4, FetchMoves
    <2>5. ASSUME NEW p \in Requests, FetchFails(p) PROVE FALSE
      <3>1. Refused("unreachable").answer = "unreachable"
        BY RefusedTyped DEF Answers
      <3>. QED BY <1>1, <2>5, <3>1 DEF FetchFails
    <2>6. ASSUME NEW p \in Requests, NEW outcome \in Outcomes, EndTool(p, outcome) PROVE FALSE
      BY <1>1, <2>6 DEF EndTool
    <2>7. (\E fits \in BOOLEAN : RestartPeer(fits)) \/ Tick \/ UNCHANGED vars => FALSE
      BY DEF RestartPeer, Tick, vars
    <2>. QED BY <2>1, <2>2, <2>3, <2>4, <2>5, <2>6, <2>7 DEF Next, Handle
  <1>. QED BY <1>3, <1>4, <1>5

\* A replaced key is accepted only for the lifetime of a profile and a fetch.
THEOREM RetiredKeysExpire == Spec => RetiredKeyExpires
  <1>1. TypeOK /\ ProfileInv /\ [Next]_vars => RetiredKeyStep
    <2>. SUFFICES ASSUME TypeOK, ProfileInv, [Next]_vars, NEW q \in Requests,
                         requests[q].pc = "verifying", requests'[q].pc \in {"running", "done"},
                         requests'[q].answer \notin {"unauthorized", "unreachable"},
                         requests[q].key # peer.key
         PROVE  now - retired[requests[q].key] < ProfileTTL + MaxDelay
      BY DEF RetiredKeyStep
    <2>1. PICK profile \in Profile :
            /\ Proceed(q, profile)
            /\ profile.key = peer.key
               \/ /\ now - retired[profile.key] < ProfileTTL + MaxDelay
                  /\ now - peer.since < ProfileTTL + MaxDelay
      BY ProfileUsed
    <2>2. profile.key = requests[q].key
      <3>1. Refused("unauthorized").answer = "unauthorized"
        BY RefusedTyped DEF Answers
      <3>. QED BY <2>1, <3>1, ProceedCases
             DEF Unauthorized, OtherwiseRefused, Replays, Runs, Verified
    <2>. QED BY <2>1, <2>2
  <1>2. TypeOK /\ ProfileInv /\ [Next]_vars => [RetiredKeyStep]_vars
    BY <1>1
  <1>. QED BY <1>2, TypeInit, TypeStep, ProfileInit, ProfileStep, PTL DEF Spec, RetiredKeyExpires

\* A new key is refused only as long.
THEOREM NewKeysAreAccepted == Spec => NewKeyIsAccepted
  <1>1. TypeOK /\ ProfileInv /\ [Next]_vars => NewKeyStep
    <2>. SUFFICES ASSUME TypeOK, ProfileInv, [Next]_vars, NEW q \in Requests,
                         requests[q].pc = "verifying", requests'[q].pc = "done",
                         requests'[q].answer = "unauthorized", requests[q].key = peer.key
         PROVE  now - peer.since < ProfileTTL + MaxDelay
      BY DEF NewKeyStep
    <2>1. PICK profile \in Profile :
            /\ Proceed(q, profile)
            /\ profile.key = peer.key
               \/ /\ now - retired[profile.key] < ProfileTTL + MaxDelay
                  /\ now - peer.since < ProfileTTL + MaxDelay
      BY ProfileUsed
    <2>2. profile.key # requests[q].key
      <3>1. \A reason \in {"incompatible", "invalid", "conflict"} : Refused(reason).answer = reason
        BY RefusedTyped DEF Answers
      <3>2. ~Replays(q, profile)
        BY RememberedTyped, AnsweredTyped DEF Replays, Outcomes
      <3>3. ~Runs(q, profile)
        BY RunningTyped DEF Runs
      <3>. QED BY <2>1, <3>1, <3>2, <3>3, ProceedCases DEF Unauthorized, OtherwiseRefused, Verified
    <2>. QED BY <2>1, <2>2
  <1>2. TypeOK /\ ProfileInv /\ [Next]_vars => [NewKeyStep]_vars
    BY <1>1
  <1>. QED BY <1>2, TypeInit, TypeStep, ProfileInit, ProfileStep, PTL DEF Spec, NewKeyIsAccepted

-----------------------------------------------------------------------------
(***************************************************************************)
(* Answers.                                                                *)
(***************************************************************************)
\* An answer of a run is given by a request that is done.
Timely(q) ==
  requests[q].of # None =>
    requests[q].pc = "done" /\ requests[q].at <= now /\ requests[q].answer \in Outcomes

\* The answer of q, if it is of run r, is what that run ended with.
FitsRun(q, r) ==
  requests[q].of = r =>
    /\ requests[r].pc = "done" /\ requests[r].of = r
    /\ requests[r].body = requests[q].body
    /\ requests[r].answer = requests[q].answer
    /\ r # q => requests[r].idem = requests[q].idem /\ Cacheable(requests[q].answer)

\* The response stored under k, if it is of run r, is what that run ended with.
StoredFits(k, r) ==
  idempotencyStore[k].of = r =>
    /\ requests[r].of = r /\ requests[r].idem = k
    /\ requests[r].body = idempotencyStore[k].body
    /\ requests[r].answer = idempotencyStore[k].outcome
    /\ Cacheable(idempotencyStore[k].outcome)
    /\ idempotencyStore[k].at <= now

\* A run with an answer to keep left an entry under its key that is at least as young.
RunKept(r) ==
  requests[r].of = r /\ requests[r].idem \in Keys /\ Cacheable(requests[r].answer) =>
    /\ idempotencyStore[requests[r].idem].of # None
    /\ requests[r].at <= idempotencyStore[requests[r].idem].at

AnswerInv ==
  /\ \A q \in Requests : Timely(q) /\ RunKept(q)
  /\ \A q, r \in Requests : FitsRun(q, r)
  /\ \A k \in Keys, r \in Requests : StoredFits(k, r)

\* A step that ends no run and replays no answer; and one that replays one.
Quiet ==
  /\ UNCHANGED idempotencyStore
  /\ now' \in {now, now + 1}
  /\ \A q \in Requests :
       requests'[q] = requests[q] \/ (requests[q].of = None /\ requests'[q].of = None)
Replay(q) ==
  /\ requests[q].pc = "verifying"
  /\ \E profile \in Profile : Replays(q, profile)
  /\ \A p \in Requests \ {q} : requests'[p] = requests[p]
  /\ UNCHANGED <<idempotencyStore, now>>

LEMMA AnswerSteps ==
  ASSUME TypeOK, ProfileInv, AnswerInv, [Next]_vars
  PROVE  \/ Quiet
         \/ \E q \in Requests : Replay(q)
         \/ \E q \in Requests, outcome \in Outcomes : EndTool(q, outcome)
  <1>1. /\ requests \in [Requests -> Request] /\ profileCache \in Cached
        /\ \A q \in Requests : requests[q].pc # "done" => requests[q].of = None
        /\ \A q \in Requests : requests[q].fetch # "no" => requests[q].pc = "verifying"
    BY TypeParts DEF AnswerInv, Timely, ProfileInv
  <1>2. ASSUME NEW q \in Requests, NEW profile \in Profile, Proceed(q, profile),
               requests[q].pc = "verifying", UNCHANGED <<idempotencyStore, now>>
        PROVE  Quiet \/ Replay(q)
    <2>1. \A p \in Requests \ {q} : requests'[p] = requests[p]
      BY <1>2, ProceedCases
    <2>2. CASE Replays(q, profile)
      BY <1>2, <2>1, <2>2 DEF Replay
    <2>3. \A reason \in {"unauthorized", "incompatible", "invalid", "conflict"} :
            Refused(reason).of = None
      BY RefusedTyped DEF Answers
    <2>4. Running(q).of = None
      BY RunningTyped
    <2>5. ~Replays(q, profile) => requests'[q].of = None
      BY <1>2, <2>3, <2>4, ProceedCases DEF Unauthorized, OtherwiseRefused, Runs
    <2>. QED BY <1>1, <1>2, <2>1, <2>2, <2>5 DEF Quiet
  <1>3. ASSUME NEW q \in Requests, NEW idem \in Keys \cup {NoKey}, NEW body \in Bodies,
               CallTool(q, idem, body)
        PROVE  Quiet
    <2>1. requests'[q].of = None /\ \A p \in Requests \ {q} : requests'[p] = requests[p]
      BY <1>1, <1>3, IdleTyped DEF CallTool, Request
    <2>. QED BY <1>1, <1>3, <2>1 DEF CallTool, Quiet
  <1>4. ASSUME NEW q \in Requests, UseCached(q) PROVE Quiet \/ Replay(q)
    <2>1. profileCache.profile \in Profile
      BY <1>1 DEF Cached
    <2>. QED BY <1>2, <1>4, <2>1 DEF UseCached
  <1>5. ASSUME NEW q \in Requests, ReceiveProfile(q) PROVE Quiet \/ Replay(q)
    <2>1. requests[q].profile \in Profile
      BY <1>1 DEF Request
    <2>. QED BY <1>1, <1>2, <1>5, <2>1 DEF ReceiveProfile
  <1>6. ASSUME NEW q \in Requests, AskProfile(q) \/ ServeProfile(q) PROVE Quiet
    <2>1. /\ requests'[q].of = requests[q].of
          /\ \A p \in Requests \ {q} : requests'[p] = requests[p]
      BY <1>6, FetchMoves
    <2>2. requests[q].of = None
      BY <1>1, <1>6 DEF AskProfile, ServeProfile
    <2>. QED BY <1>6, <2>1, <2>2 DEF AskProfile, ServeProfile, Quiet
  <1>7. ASSUME NEW q \in Requests, FetchFails(q) PROVE Quiet
    <2>1. Refused("unreachable").of = None
      BY RefusedTyped DEF Answers
    <2>2. requests'[q].of = None /\ \A p \in Requests \ {q} : requests'[p] = requests[p]
      BY <1>1, <1>7, <2>1 DEF FetchFails
    <2>3. requests[q].of = None
      BY <1>1, <1>7 DEF FetchFails
    <2>. QED BY <1>7, <2>2, <2>3 DEF FetchFails, Quiet
  <1>8. (\E fits \in BOOLEAN : RestartPeer(fits)) \/ Tick \/ UNCHANGED vars => Quiet
    BY DEF RestartPeer, Tick, vars, Quiet
  <1>. QED BY <1>3, <1>4, <1>5, <1>6, <1>7, <1>8 DEF Next, Handle

\* AnswerInv is kept by a quiet step.
LEMMA QuietKeepsAnswers ==
  ASSUME TypeOK, AnswerInv, Quiet
  PROVE  AnswerInv'
  <1>. USE RpcAssumption
  <1>1. /\ requests \in [Requests -> Request] /\ idempotencyStore \in [Keys -> Stored]
        /\ now \in Nat
    BY TypeParts
  <1>2. /\ \A q \in Requests : requests[q].at \in Nat
        /\ \A k \in Keys : idempotencyStore[k].at \in Nat
    BY <1>1 DEF Request, Stored
  <1>3. /\ idempotencyStore' = idempotencyStore
        /\ now' = now \/ now' = now + 1
        /\ \A q \in Requests : requests'[q] = requests[q] \/ requests'[q].of = None
        /\ \A q \in Requests : requests[q].of # None => requests'[q] = requests[q]
    BY DEF Quiet
  <1>. HIDE DEF Quiet
  <1>4. \A t \in Nat : t <= now => t <= now'
    BY <1>1, <1>3
  <1>5. ASSUME NEW q \in Requests PROVE Timely(q)'
    <2>1. CASE requests'[q] = requests[q]
      BY <1>2, <1>4, <2>1 DEF AnswerInv, Timely
    <2>2. CASE requests'[q].of = None
      BY <2>2 DEF Timely
    <2>. QED BY <1>3, <2>1, <2>2
  <1>6. ASSUME NEW q \in Requests PROVE RunKept(q)'
    <2>1. CASE requests'[q] = requests[q]
      BY <1>3, <2>1 DEF AnswerInv, RunKept
    <2>2. CASE requests'[q].of = None
      BY <2>2 DEF RunKept
    <2>. QED BY <1>3, <2>1, <2>2
  <1>7. ASSUME NEW q \in Requests, NEW r \in Requests PROVE FitsRun(q, r)'
    <2>1. CASE requests'[q] = requests[q] /\ requests[q].of = r
      <3>1. requests[r].of = r /\ FitsRun(q, r)
        BY <2>1 DEF AnswerInv, FitsRun
      <3>2. requests'[r] = requests[r]
        BY <1>3, <3>1
      <3>. QED BY <2>1, <3>1, <3>2 DEF FitsRun
    <2>2. CASE requests'[q].of # r
      BY <2>2 DEF FitsRun
    <2>. QED BY <1>3, <2>1, <2>2
  <1>8. ASSUME NEW k \in Keys, NEW r \in Requests PROVE StoredFits(k, r)'
    <2>1. CASE idempotencyStore[k].of = r
      <3>1. requests[r].of = r /\ StoredFits(k, r)
        BY <2>1 DEF AnswerInv, StoredFits
      <3>2. requests'[r] = requests[r]
        BY <1>3, <3>1
      <3>. QED BY <1>2, <1>3, <1>4, <3>1, <3>2 DEF StoredFits
    <2>2. CASE idempotencyStore[k].of # r
      BY <1>3, <2>2 DEF StoredFits
    <2>. QED BY <2>1, <2>2
  <1>. QED BY <1>5, <1>6, <1>7, <1>8 DEF AnswerInv

\* AnswerInv is kept by a replay, which answers q as run r ended.
LEMMA ReplayKeepsAnswers ==
  ASSUME TypeOK, AnswerInv, NEW q \in Requests, Replay(q)
  PROVE  AnswerInv'
  <1>. USE RpcAssumption
  <1>1. requests \in [Requests -> Request] /\ idempotencyStore \in [Keys -> Stored] /\ now \in Nat
    BY TypeParts
  <1>. DEFINE k == requests[q].idem
              e == idempotencyStore[k]
  <1>2. /\ k \in Keys /\ Remembered(k) /\ e.body = requests[q].body
        /\ requests'[q] = Answered(q, e.outcome, e.of)
    BY DEF Replay, Replays, SameRequest
  <1>3. e.of \in Requests /\ e.outcome \in Outcomes /\ e.of # None
    BY <1>2, RememberedTyped
  <1>4. PICK r \in Requests : r = e.of
    BY <1>3
  <1>5. /\ requests'[q].of = r /\ requests'[q].pc = "done" /\ requests'[q].answer = e.outcome
        /\ requests'[q].at = now /\ requests'[q].idem = k /\ requests'[q].body = requests[q].body
    BY <1>2, <1>3, <1>4, AnsweredTyped
  <1>6. /\ requests[r].of = r /\ requests[r].idem = k /\ requests[r].body = requests[q].body
        /\ requests[r].answer = e.outcome /\ Cacheable(e.outcome)
    BY <1>2, <1>4 DEF AnswerInv, StoredFits
  <1>7. requests[q].of = None /\ r # q /\ r # None
    BY <1>3, <1>4, <1>6 DEF Replay, AnswerInv, Timely
  <1>8. /\ \A p \in Requests \ {q} : requests'[p] = requests[p]
        /\ idempotencyStore' = idempotencyStore /\ now' = now
    BY DEF Replay
  <1>9. requests'[r] = requests[r] /\ requests[r].pc = "done"
    BY <1>6, <1>7, <1>8 DEF AnswerInv, Timely
  <1>. HIDE DEF k, e
  <1>10. ASSUME NEW p \in Requests PROVE Timely(p)'
    <2>1. CASE p = q
      BY <1>1, <1>3, <1>5, <1>8, <2>1 DEF Timely
    <2>2. CASE p # q
      BY <1>8, <2>2 DEF AnswerInv, Timely
    <2>. QED BY <2>1, <2>2
  <1>11. ASSUME NEW p \in Requests PROVE RunKept(p)'
    <2>1. CASE p = q
      BY <1>5, <1>7, <2>1 DEF RunKept
    <2>2. CASE p # q
      BY <1>8, <2>2 DEF AnswerInv, RunKept
    <2>. QED BY <2>1, <2>2
  <1>12. ASSUME NEW p \in Requests, NEW s \in Requests PROVE FitsRun(p, s)'
    <2>1. CASE p = q
      BY <1>5, <1>6, <1>9, <2>1 DEF FitsRun
    <2>2. CASE p # q /\ s # q
      <3>1. requests'[p] = requests[p] /\ requests'[s] = requests[s] /\ FitsRun(p, s)
        BY <1>8, <2>2 DEF AnswerInv
      <3>. QED BY <3>1 DEF FitsRun
    <2>3. CASE p # q /\ s = q
      <3>1. requests'[p] = requests[p] /\ FitsRun(p, q)
        BY <1>8, <2>3 DEF AnswerInv
      <3>2. requests[p].of # q
        BY <1>7, <3>1 DEF FitsRun
      <3>. QED BY <2>3, <3>1, <3>2 DEF FitsRun
    <2>. QED BY <2>1, <2>2, <2>3
  <1>13. ASSUME NEW j \in Keys, NEW s \in Requests PROVE StoredFits(j, s)'
    <2>1. StoredFits(j, s)
      BY DEF AnswerInv
    <2>2. CASE s # q
      <3>1. requests'[s] = requests[s]
        BY <1>8, <2>2
      <3>. QED BY <1>8, <2>1, <3>1 DEF StoredFits
    <2>3. CASE s = q
      <3>1. idempotencyStore[j].of # q
        BY <1>7, <2>1, <2>3 DEF StoredFits
      <3>. QED BY <1>8, <2>3, <3>1 DEF StoredFits
    <2>. QED BY <2>2, <2>3
  <1>. QED BY <1>10, <1>11, <1>12, <1>13 DEF AnswerInv

\* AnswerInv is kept when a run ends.
LEMMA EndKeepsAnswers ==
  ASSUME TypeOK, AnswerInv, NEW q \in Requests, NEW outcome \in Outcomes, EndTool(q, outcome)
  PROVE  AnswerInv'
  <1>. USE RpcAssumption
  <1>1. requests \in [Requests -> Request] /\ idempotencyStore \in [Keys -> Stored] /\ now \in Nat
    BY TypeParts
  <1>. DEFINE k == requests[q].idem
              keeps == k # NoKey /\ Cacheable(outcome)
  <1>2. /\ requests[q].pc = "running" /\ now' = now
        /\ requests' = [requests EXCEPT ![q] = Answered(q, outcome, q)]
        /\ idempotencyStore' = IF keeps THEN [idempotencyStore EXCEPT ![k] = Entry(q, outcome)]
                               ELSE idempotencyStore
    BY DEF EndTool
  <1>3. k \in Keys \cup {NoKey}
    BY <1>1 DEF Request
  <1>4. /\ requests'[q].of = q /\ requests'[q].pc = "done" /\ requests'[q].answer = outcome
        /\ requests'[q].at = now /\ requests'[q].idem = k /\ requests'[q].body = requests[q].body
    BY <1>1, <1>2, AnsweredTyped
  <1>5. \A p \in Requests \ {q} : requests'[p] = requests[p]
    BY <1>1, <1>2
  <1>6. requests[q].of = None
    BY <1>2 DEF AnswerInv, Timely
  <1>7. keeps => /\ k \in Keys
                 /\ idempotencyStore'[k].of = q /\ idempotencyStore'[k].at = now
                 /\ idempotencyStore'[k].body = requests[q].body
                 /\ idempotencyStore'[k].outcome = outcome
    BY <1>1, <1>2, <1>3 DEF Entry
  <1>8. \A j \in Keys : (~keeps \/ j # k) => idempotencyStore'[j] = idempotencyStore[j]
    BY <1>1, <1>2
  <1>9. /\ \A p \in Requests : requests[p].at \in Nat
        /\ q # None
    BY <1>1 DEF Request
  <1>10. ASSUME NEW p \in Requests PROVE Timely(p)'
    <2>1. CASE p = q
      BY <1>1, <1>2, <1>4, <2>1 DEF Timely
    <2>2. CASE p # q
      BY <1>2, <1>5, <2>2 DEF AnswerInv, Timely
    <2>. QED BY <2>1, <2>2
  <1>11. (k \in Keys /\ Cacheable(outcome)) => keeps
    OBVIOUS
  <1>. HIDE DEF k, keeps
  <1>12. ASSUME NEW p \in Requests PROVE RunKept(p)'
    <2>1. CASE p = q
      BY <1>1, <1>4, <1>7, <1>9, <1>11, <2>1 DEF RunKept
    <2>2. CASE p # q
      <3>1. requests'[p] = requests[p] /\ RunKept(p) /\ Timely(p)
        BY <1>5, <2>2 DEF AnswerInv
      <3>. SUFFICES ASSUME requests[p].of = p, requests[p].idem \in Keys, Cacheable(requests[p].answer)
           PROVE  /\ idempotencyStore'[requests[p].idem].of # None
                  /\ requests[p].at <= idempotencyStore'[requests[p].idem].at
        BY <3>1 DEF RunKept
      <3>2. /\ idempotencyStore[requests[p].idem].of # None
            /\ requests[p].at <= idempotencyStore[requests[p].idem].at
            /\ requests[p].at <= now
        BY <3>1 DEF RunKept, Timely
      <3>3. CASE keeps /\ requests[p].idem = k
        BY <1>7, <1>9, <3>2, <3>3
      <3>4. CASE ~keeps \/ requests[p].idem # k
        BY <1>8, <3>2, <3>4
      <3>. QED BY <3>3, <3>4
    <2>. QED BY <2>1, <2>2
  <1>13. ASSUME NEW p \in Requests, NEW s \in Requests PROVE FitsRun(p, s)'
    <2>1. CASE p = q
      BY <1>4, <2>1 DEF FitsRun
    <2>2. CASE p # q /\ s # q
      <3>1. requests'[p] = requests[p] /\ requests'[s] = requests[s] /\ FitsRun(p, s)
        BY <1>5, <2>2 DEF AnswerInv
      <3>. QED BY <3>1 DEF FitsRun
    <2>3. CASE p # q /\ s = q
      <3>1. requests'[p] = requests[p] /\ FitsRun(p, q)
        BY <1>5, <2>3 DEF AnswerInv
      <3>2. requests[p].of # q
        BY <1>6, <1>9, <3>1 DEF FitsRun
      <3>. QED BY <2>3, <3>1, <3>2 DEF FitsRun
    <2>. QED BY <2>1, <2>2, <2>3
  <1>14. ASSUME NEW j \in Keys, NEW s \in Requests PROVE StoredFits(j, s)'
    <2>1. CASE keeps /\ j = k
      <3>1. Cacheable(outcome)
        BY <2>1 DEF keeps
      <3>2. now <= now
        BY <1>1
      <3>. QED BY <1>2, <1>4, <1>7, <2>1, <3>1, <3>2 DEF StoredFits
    <2>2. CASE ~keeps \/ j # k
      <3>1. idempotencyStore'[j] = idempotencyStore[j] /\ StoredFits(j, s)
        BY <1>8, <2>2 DEF AnswerInv
      <3>2. CASE s # q
        <4>1. requests'[s] = requests[s]
          BY <1>5, <3>2
        <4>. QED BY <1>2, <3>1, <4>1 DEF StoredFits
      <3>3. CASE s = q
        <4>1. idempotencyStore[j].of # q
          BY <1>6, <1>9, <3>1, <3>3 DEF StoredFits
        <4>. QED BY <3>1, <3>3, <4>1 DEF StoredFits
      <3>. QED BY <3>2, <3>3
    <2>. QED BY <2>1, <2>2
  <1>. QED BY <1>10, <1>12, <1>13, <1>14 DEF AnswerInv

\* AnswerInv is inductive.
LEMMA AnswerStep == TypeOK /\ ProfileInv /\ AnswerInv /\ [Next]_vars => AnswerInv'
  <1>. SUFFICES ASSUME TypeOK, ProfileInv, AnswerInv, [Next]_vars PROVE AnswerInv'
    OBVIOUS
  <1>1. CASE Quiet
    BY <1>1, QuietKeepsAnswers
  <1>2. ASSUME NEW q \in Requests, Replay(q) PROVE AnswerInv'
    BY <1>2, ReplayKeepsAnswers
  <1>3. ASSUME NEW q \in Requests, NEW outcome \in Outcomes, EndTool(q, outcome) PROVE AnswerInv'
    BY <1>3, EndKeepsAnswers
  <1>. QED BY <1>1, <1>2, <1>3, AnswerSteps

LEMMA AnswerInit == Init => AnswerInv
  <1>. SUFFICES ASSUME Init PROVE AnswerInv
    OBVIOUS
  <1>1. /\ \A q \in Requests : requests[q].of = None
        /\ \A k \in Keys : idempotencyStore[k].of = None
    BY IdleTyped DEF Init, NoEntry
  <1>2. \A r \in Requests : r # None
    BY RpcAssumption
  <1>. QED BY <1>1, <1>2 DEF AnswerInv, Timely, RunKept, FitsRun, StoredFits

\* Every answer is what the tool did with that payload, and replays are of answers to
\* keep: the idempotency check and the store of mcpHandler.
THEOREM AnswersFitRequests == Spec => []AnswerFitsRequest
  <1>1. TypeOK /\ AnswerInv => AnswerFitsRequest
    <2>. SUFFICES ASSUME TypeOK, AnswerInv, NEW q \in Requests, requests[q].of # None
         PROVE  LET r == requests[q].of IN
                /\ requests[r].pc = "done" /\ requests[r].of = r
                /\ requests[r].body = requests[q].body
                /\ requests[r].answer = requests[q].answer
                /\ r # q => requests[r].idem = requests[q].idem /\ Cacheable(requests[q].answer)
      BY DEF AnswerFitsRequest
    <2>1. PICK r \in Requests : r = requests[q].of
      BY TypeParts DEF Request
    <2>. QED BY <2>1 DEF AnswerInv, FitsRun
  <1>. QED BY <1>1, TypeInit, TypeStep, ProfileInit, ProfileStep, AnswerInit, AnswerStep, PTL DEF Spec

\* Who gets to run the tool has found nothing remembered of its key.
LEMMA RunsUnremembered ==
  ASSUME TypeOK, ProfileInv, [Next]_vars, NEW q \in Requests, requests[q].idem \in Keys,
         requests[q].pc # "running", requests'[q].pc = "running"
  PROVE  ~Remembered(requests[q].idem)
  <1>1. requests \in [Requests -> Request] /\ profileCache \in Cached
    BY TypeParts
  <1>2. ASSUME NEW p \in Requests, NEW profile \in Profile, Proceed(p, profile)
        PROVE  ~Remembered(requests[q].idem)
    <2>1. p = q
      BY <1>2, ProceedCases
    <2>2. ~Unauthorized(q, profile) /\ ~OtherwiseRefused(q, profile)
      BY RefusedTyped DEF Unauthorized, OtherwiseRefused, Answers
    <2>3. ~Replays(q, profile)
      BY RememberedTyped, AnsweredTyped DEF Replays
    <2>. QED BY <1>2, <2>1, <2>2, <2>3, ProceedCases DEF Runs
  <1>3. ASSUME NEW p \in Requests, UseCached(p) \/ ReceiveProfile(p)
        PROVE  ~Remembered(requests[q].idem)
    <2>1. profileCache.profile \in Profile /\ requests[p].profile \in Profile
      BY <1>1 DEF Cached, Request
    <2>. QED BY <1>2, <1>3, <2>1 DEF UseCached, ReceiveProfile
  <1>4. ASSUME NEW p \in Requests, NEW idem \in Keys \cup {NoKey}, NEW body \in Bodies,
               CallTool(p, idem, body)
        PROVE  FALSE
    BY <1>1, <1>4, IdleTyped DEF CallTool, Request
  <1>5. ASSUME NEW p \in Requests, AskProfile(p) \/ ServeProfile(p) PROVE FALSE
    BY <1>5, FetchMoves
  <1>6. ASSUME NEW p \in Requests, FetchFails(p) PROVE FALSE
    <2>1. Refused("unreachable").pc = "done"
      BY RefusedTyped DEF Answers
    <2>. QED BY <1>1, <1>6, <2>1 DEF FetchFails
  <1>7. ASSUME NEW p \in Requests, NEW outcome \in Outcomes, EndTool(p, outcome) PROVE FALSE
    <2>1. Answered(p, outcome, p).pc = "done"
      BY AnsweredTyped
    <2>. QED BY <1>1, <1>7, <2>1 DEF EndTool
  <1>8. (\E fits \in BOOLEAN : RestartPeer(fits)) \/ Tick \/ UNCHANGED vars => FALSE
    BY DEF RestartPeer, Tick, vars
  <1>. QED BY <1>3, <1>4, <1>5, <1>6, <1>7, <1>8 DEF Next, Handle

\* Whoever gets to run the tool finds no younger answer to keep of its key: the lookup
\* of mcpHandler, and the entry each such run has left.
THEOREM RunsAreForgotten == Spec => RunsOnlyWhenForgotten
  <1>. USE RpcAssumption
  <1>1. ASSUME TypeOK, ProfileInv, AnswerInv, [Next]_vars PROVE RunStep
    <2>. SUFFICES ASSUME NEW q \in Requests,
                         requests[q].pc # "running", requests'[q].pc = "running",
                         requests[q].idem # NoKey,
                         NEW r \in Requests, requests[r].of = r,
                         requests[r].idem = requests[q].idem,
                         requests[r].answer \in Outcomes \ {"failure"}
         PROVE  now - requests[r].at >= IdemTTL
      BY DEF RunStep
    <2>1. /\ requests \in [Requests -> Request] /\ idempotencyStore \in [Keys -> Stored]
          /\ profileCache \in Cached /\ now \in Nat
      BY <1>1, TypeParts
    <2>2. requests[q].idem \in Keys /\ requests[r].at \in Nat
      BY <2>1 DEF Request
    <2>3. ~Remembered(requests[q].idem)
      BY <1>1, <2>2, RunsUnremembered
    <2>4. /\ idempotencyStore[requests[q].idem].of # None
          /\ requests[r].at <= idempotencyStore[requests[q].idem].at
      BY <1>1, <2>2 DEF AnswerInv, RunKept, Cacheable
    <2>5. idempotencyStore[requests[q].idem].at \in Nat
      BY <2>1, <2>2 DEF Stored
    <2>. QED BY <2>1, <2>2, <2>3, <2>4, <2>5 DEF Remembered
  <1>2. TypeOK /\ ProfileInv /\ AnswerInv /\ [Next]_vars => [RunStep]_vars
    BY <1>1
  <1>. QED BY <1>2, TypeInit, TypeStep, ProfileInit, ProfileStep, AnswerInit, AnswerStep, PTL
           DEF Spec, RunsOnlyWhenForgotten
=============================================================================
