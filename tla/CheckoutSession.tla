--------------------------- MODULE CheckoutSession ---------------------------
(***************************************************************************)
(* The checkout sessions of a merchant (the MCP tools create_, update_,    *)
(* cancel_ and complete_checkout of                                        *)
(* src/apps/merchant-portal/src/server.ts).                                *)
(*                                                                         *)
(* refreshCheckout re-signs a session into a NEW object and puts that in   *)
(* the map, while a complete_checkout that is awaiting keeps the object it *)
(* fetched.  So a session is a heap of objects, one of them current, and   *)
(* the line items (here their quantity) are shared by all of them.  Every  *)
(* await of complete_checkout is a point where other handlers run: the     *)
(* handler is one action per stretch between awaits.                       *)
(*                                                                         *)
(* An item costs one unit; shipping and tax less the agent's discount and  *)
(* a promo code are one fee per object, so the total is the quantity plus  *)
(* the fee.  A fee may be below zero, and so may a total: an item's price  *)
(* may be 0, and the agent's discount does not look at the subtotal.       *)
(***************************************************************************)
EXTENDS Integers, Sequences, FiniteSets

CONSTANTS
  Calls,       \* complete_checkout calls
  Checkouts,
  Quantities,  \* quantities an update can set
  Fees,        \* shipping and tax less discounts of a session
  MaxObjects   \* bound: sessions are not created, updated or cancelled beyond it

ASSUME CheckoutAssumption ==
  /\ Checkouts # {}
  /\ Quantities \subseteq Nat \ {0}
  /\ Fees \subseteq Int
  /\ MaxObjects \in Nat

VARIABLES
  heap,      \* the checkout objects, in the order they were signed
  current,   \* the object in the session map (0: not created)
  qty,       \* the line items, shared by the objects of a session
  completes, \* where each complete_checkout call is, and what it holds
  orders,    \* the order each call placed
  declines,  \* the tenant's decline counter
  offers,    \* terms the merchant has signed and sent out
  overlapped,\* history: sessions two complete_checkout calls worked on at once
  disturbed  \* history: sessions updated while a complete_checkout waited

history == <<overlapped, disturbed>>
vars == <<heap, current, qty, completes, orders, declines, offers, overlapped, disturbed>>

Status == {"incomplete", "ready_for_complete", "complete_in_progress",
           "requires_escalation", "completed", "canceled"}

Object == [checkout: Checkouts, status: Status, ready: BOOLEAN, fee: Fees, total: Int]

Terms == [checkout: Checkouts, qty: Nat, total: Int]

Live(c) == heap[current[c]]
Created(c) == current[c] # 0

\* Mutants of Kept: a refresh reopens a completed session; a canceled one.
KeptIfCanceled == {"canceled"}
KeptIfCompleted == {"completed"}

\* The statuses a refresh does not recompute.
Kept == {"completed", "canceled"}

\* Mutant of Refreshed: the total is not recomputed.
RefreshedStale(h, o, q) ==
  LET co == [h[o] EXCEPT
        !.status = IF @ \in Kept THEN @
                   ELSE IF h[o].ready THEN "ready_for_complete" ELSE "incomplete"]
  IN Append([h EXCEPT ![o] = co], co)

\* refreshCheckout on object o when the line items are q: totals and status are
\* recomputed in o itself, then a signed copy of it becomes the current object.
Refreshed(h, o, q) ==
  LET co == [h[o] EXCEPT
        !.total = q + h[o].fee,
        !.status = IF @ \in Kept THEN @
                   ELSE IF h[o].ready THEN "ready_for_complete" ELSE "incomplete"]
  IN Append([h EXCEPT ![o] = co], co)

\* The map and the signed terms after a refresh of a session.
Publish(c) ==
  /\ current' = [current EXCEPT ![c] = Len(heap')]
  /\ offers' = offers \cup
       {[checkout |-> c, qty |-> qty'[c], total |-> heap'[Len(heap')].total]}

Room == Len(heap) < MaxObjects

-----------------------------------------------------------------------------
NoTerms == [checkout |-> CHOOSE c \in Checkouts : TRUE, qty |-> 0, total |-> 0]
NoOrder == [placed |-> FALSE, qty |-> 0, total |-> 0]
IdleCall == [pc |-> "idle", checkout |-> CHOOSE c \in Checkouts : TRUE, obj |-> 0,
             terms |-> NoTerms, charge |-> 0]

Init ==
  /\ heap = <<>>
  /\ current = [c \in Checkouts |-> 0]
  /\ qty = [c \in Checkouts |-> 0]
  /\ completes = [h \in Calls |-> IdleCall]
  /\ orders = [h \in Calls |-> NoOrder]
  /\ declines = 0
  /\ offers = {}
  /\ overlapped = {}
  /\ disturbed = {}

\* Calls of complete_checkout that have not ended, of one session.
Waiting == {"kya", "verify", "authorizing", "capturing"}
InFlight(c) == {h \in Calls : completes[h].pc \in Waiting /\ completes[h].checkout = c}

\* create_checkout; ready: buyer email and destination were given.
CreateCheckout(c, q, fee, ready) ==
  /\ ~Created(c)
  /\ Room
  /\ qty' = [qty EXCEPT ![c] = q]
  /\ heap' = Append(heap,
       [checkout |-> c, fee |-> fee, ready |-> ready, total |-> q + fee,
        status |-> IF ready THEN "ready_for_complete" ELSE "incomplete"])
  /\ Publish(c)
  /\ UNCHANGED <<completes, orders, declines, history>>

\* update_checkout: refused for a completed session only.  ready is what it leaves
\* of email and destination.
UpdateCheckout(c, q, fee, ready) ==
  LET o == current[c] IN
  /\ Created(c)
  /\ Live(c).status # "completed"
  /\ Room
  /\ qty' = [qty EXCEPT ![c] = q]
  /\ heap' = Refreshed([heap EXCEPT ![o].fee = fee, ![o].ready = ready], o, q)
  /\ Publish(c)
  /\ disturbed' = IF InFlight(c) = {} THEN disturbed ELSE disturbed \cup {c}
  /\ UNCHANGED <<completes, orders, declines, overlapped>>

\* cancel_checkout: no state is refused.
CancelCheckout(c) ==
  LET o == current[c] IN
  /\ Created(c)
  /\ Room
  /\ heap' = Refreshed([heap EXCEPT ![o].status = "canceled"], o, qty[c])
  /\ qty' = qty
  /\ Publish(c)
  /\ UNCHANGED <<completes, orders, declines, history>>

(***************************************************************************)
(* complete_checkout, from await to await.  The state of the session is    *)
(* checked once, before the first of them.                                 *)
(***************************************************************************)
At(h, pc) == completes[h].pc = pc
Goto(h, pc) == completes' = [completes EXCEPT ![h].pc = pc]

StartComplete(h, terms) ==
  LET c == terms.checkout IN
  /\ At(h, "idle")
  /\ Created(c)
  /\ Live(c).status \in {"ready_for_complete", "requires_escalation"}
  /\ completes' = [completes EXCEPT ![h] =
       [pc |-> "kya", checkout |-> c, obj |-> current[c], terms |-> terms, charge |-> 0]]
  /\ overlapped' = IF InFlight(c) = {} THEN overlapped ELSE overlapped \cup {c}
  /\ UNCHANGED <<heap, current, qty, orders, declines, offers, disturbed>>

\* lookup_agent answered, or the registry could not be reached.
KyaPassed(h) ==
  /\ At(h, "kya")
  /\ Goto(h, "verify")
  /\ UNCHANGED <<heap, current, qty, orders, declines, offers, history>>

KyaRefused(h) ==
  /\ At(h, "kya")
  /\ Goto(h, "failed")
  /\ UNCHANGED <<heap, current, qty, orders, declines, offers, history>>

\* Mutants of TermsMatch: the total, or the line items, are not compared.
TermsMatchLines(h) ==
  LET call == completes[h] IN
  /\ call.terms.checkout = call.checkout
  /\ call.terms.qty = qty[call.checkout]
TermsMatchTotal(h) ==
  LET call == completes[h] IN
  /\ call.terms.checkout = call.checkout
  /\ call.terms.total = heap[call.obj].total

\* The mandated terms against the object the call fetched (termsMatch).
TermsMatch(h) ==
  LET call == completes[h] IN
  /\ call.terms.checkout = call.checkout
  /\ call.terms.total = heap[call.obj].total
  /\ call.terms.qty = qty[call.checkout]

\* The mandate is refused for its terms, or for a reason that is not modelled
\* (signature, audience, expiry, instrument, unreachable CP profile).
RefuseMandate(h) ==
  /\ At(h, "verify")
  /\ Goto(h, "failed")
  /\ UNCHANGED <<heap, current, qty, orders, declines, offers, history>>

\* The mandate holds: the object is marked and the charge goes to the PSP.
RequestAuthorization(h) ==
  LET o == completes[h].obj IN
  /\ At(h, "verify")
  /\ TermsMatch(h)
  /\ heap' = [heap EXCEPT ![o].status = "complete_in_progress"]
  /\ completes' = [completes EXCEPT ![h].pc = "authorizing", ![h].charge = heap[o].total]
  /\ UNCHANGED <<current, qty, orders, declines, offers, history>>

\* Mutant of AuthorizeFailed: the session is left as it is.
AuthorizeFailedNoReset(h) ==
  /\ At(h, "authorizing")
  /\ declines' = declines + 1
  /\ Goto(h, "failed")
  /\ UNCHANGED <<heap, current, qty, offers, orders, history>>

\* authorize_payment threw, whatever the reason: back to ready and re-signed.
AuthorizeFailed(h) ==
  LET call == completes[h] IN
  /\ At(h, "authorizing")
  /\ heap' = Refreshed([heap EXCEPT ![call.obj].status = "ready_for_complete"],
                       call.obj, qty[call.checkout])
  /\ qty' = qty
  /\ Publish(call.checkout)
  /\ declines' = declines + 1
  /\ Goto(h, "failed")
  /\ UNCHANGED <<orders, history>>

\* 3DS: the fetched object, not re-signed, becomes the current one again.
Escalate(h) ==
  LET call == completes[h] IN
  /\ At(h, "authorizing")
  /\ heap' = [heap EXCEPT ![call.obj].status = "requires_escalation"]
  /\ current' = [current EXCEPT ![call.checkout] = call.obj]
  /\ Goto(h, "escalated")
  /\ UNCHANGED <<qty, orders, declines, offers, history>>

Authorized(h) ==
  /\ At(h, "authorizing")
  /\ Goto(h, "capturing")
  /\ UNCHANGED <<heap, current, qty, orders, declines, offers, history>>

\* capture_payment is awaited outside any try: its failure ends the call as it is.
CaptureFailed(h) ==
  /\ At(h, "capturing")
  /\ Goto(h, "capture_failed")
  /\ UNCHANGED <<heap, current, qty, orders, declines, offers, history>>

\* The order takes its lines and totals from the object as it is now.
PlaceOrder(h) ==
  LET call == completes[h] IN
  /\ At(h, "capturing")
  /\ orders' = [orders EXCEPT ![h] =
       [placed |-> TRUE, qty |-> qty[call.checkout], total |-> heap[call.obj].total]]
  /\ heap' = Refreshed([heap EXCEPT ![call.obj].status = "completed"],
                       call.obj, qty[call.checkout])
  /\ qty' = qty
  /\ Publish(call.checkout)
  /\ Goto(h, "completed")
  /\ UNCHANGED <<declines, history>>

Sessions ==
  \E c \in Checkouts :
    \/ \E q \in Quantities, fee \in Fees, ready \in BOOLEAN :
         CreateCheckout(c, q, fee, ready) \/ UpdateCheckout(c, q, fee, ready)
    \/ CancelCheckout(c)

\* What continues a call: the answer, or the failure, of what it awaits.
Resume(h) ==
  \/ KyaPassed(h) \/ KyaRefused(h)
  \/ RefuseMandate(h) \/ RequestAuthorization(h)
  \/ AuthorizeFailed(h) \/ Escalate(h) \/ Authorized(h)
  \/ CaptureFailed(h) \/ PlaceOrder(h)

CompleteCheckout(h) == (\E terms \in offers : StartComplete(h, terms)) \/ Resume(h)

Next == Sessions \/ \E h \in Calls : CompleteCheckout(h)

Spec == Init /\ [][Next]_vars

\* Every awaited fetch settles: it answers or the platform's timeout fails it.
FairSpec == Spec /\ \A h \in Calls : WF_vars(Resume(h))

-----------------------------------------------------------------------------
Pc == {"idle", "kya", "verify", "authorizing", "capturing", "completed",
       "escalated", "failed", "capture_failed"}

\* The state of every map of the merchant has its type; references point into the heap.
TypeOK ==
  /\ heap \in Seq(Object)
  /\ current \in [Checkouts -> 0..Len(heap)]
  /\ qty \in [Checkouts -> Nat]
  /\ completes \in [Calls -> [pc: Pc, checkout: Checkouts, obj: 0..Len(heap),
                              terms: Terms, charge: Int]]
  /\ orders \in [Calls -> [placed: BOOLEAN, qty: Nat, total: Int]]
  /\ declines \in Nat
  /\ offers \subseteq Terms
  /\ overlapped \subseteq Checkouts
  /\ disturbed \subseteq Checkouts

Charged == {"authorizing", "capturing", "completed", "escalated", "capture_failed"}

\* Whatever else happened to the session meanwhile, what is sent to the PSP is
\* the total of terms the merchant itself signed for this very session.
ChargeIsSigned ==
  \A h \in Calls : completes[h].pc \in Charged =>
    /\ completes[h].terms \in offers
    /\ completes[h].terms.checkout = completes[h].checkout
    /\ completes[h].charge = completes[h].terms.total

\* The current object of a session says what its line items cost, so the next
\* mandate is for what the buyer sees.  Only an update behind the back of a waiting
\* call can break that: the call may put back an object of an older total.
LiveTotalIsCurrent ==
  \A c \in Checkouts \ disturbed : Created(c) => Live(c).total = qty[c] + Live(c).fee

\* An order is for exactly the lines and the total the user mandated and the PSP
\* was asked for, whatever cancellations, declines, escalations and other
\* completions ran during the call, as long as no update of the session did.
OrderAsMandated ==
  \A h \in Calls :
    (orders[h].placed /\ completes[h].checkout \notin disturbed) =>
      /\ orders[h].total = completes[h].charge
      /\ orders[h].qty = completes[h].terms.qty

OrdersOf(c) == {h \in Calls : orders[h].placed /\ completes[h].checkout = c}

\* A session whose completions never overlapped has at most one order, and that
\* exactly when it has been completed: no retry, update or cancellation opens it
\* for another.
OneOrderPerSession ==
  \A c \in Checkouts \ overlapped :
    /\ Cardinality(OrdersOf(c)) <= 1
    /\ (OrdersOf(c) # {}) => Live(c).status \in {"completed", "canceled"}
    /\ (Created(c) /\ Live(c).status = "completed") => OrdersOf(c) # {}

\* canceled and completed are left only by a complete_checkout call that was
\* already waiting when the session got there (or, from completed, by a cancel).
TerminalStates ==
  [][\A c \in Checkouts : (Created(c) /\ InFlight(c) = {}) =>
       /\ Live(c).status = "canceled" => Live(c)'.status = "canceled"
       /\ Live(c).status = "completed" => Live(c)'.status \in {"completed", "canceled"}]_vars

InProgress(c) == Created(c) /\ Live(c).status = "complete_in_progress"
CaptureLost(c) == \E h \in Calls : completes[h].pc = "capture_failed" /\ completes[h].checkout = c

\* No session stays "complete_in_progress" for ever, except when the capture of an
\* authorized payment failed: nothing in the handler resets the status then.
InProgressEnds ==
  \A c \in Checkouts : InProgress(c) ~> (~InProgress(c) \/ CaptureLost(c))
=============================================================================
