------------------------------- MODULE Orders -------------------------------
(***************************************************************************)
(* The life of one order after complete_checkout has placed it: shipment   *)
(* by the fulfilment timer or from the portal, delivery, refunds through   *)
(* refund_order and from the provider's own dashboard, a dispute, and the  *)
(* signed webhook that follows each of them to the shopping agent.         *)
(*                                                                         *)
(* refund_order waits twice, for refund_payment of the provider and for    *)
(* the webhook, and a shipment waits for its webhook, so several of them   *)
(* overlap.  Any answer may be lost; the caller then sees an error.        *)
(* Webhooks are sent once and overtake one another.                        *)
(***************************************************************************)
EXTENDS Integers, Sequences, FiniteSets, SequencesExt

CONSTANTS
  RefundCalls,  \* refund_order calls
  Total,        \* the captured amount, in minor units
  MaxDisputes   \* bound on file_dispute calls

ASSUME OrdersAssumption ==
  /\ Total \in Nat \ {0}
  /\ MaxDisputes \in Nat
  /\ RefundCalls \cap {"shipped", "delivered", "psp_dashboard", "buyer"} = {}

VARIABLES
  status,       \* rec.status
  payment,      \* rec.payment.status
  adjustments,  \* rec.order.adjustments
  events,       \* rec.order.fulfillment.events
  txn,          \* the provider's transaction: what was refunded and for whom
  timer,        \* whether the auto-ship timer is armed
  refunds,      \* where each refund_order call stands
  pushes,       \* where each webhook stands
  shipped       \* the agent's session: the last order pushed to it, if any

vars == <<status, payment, adjustments, events, txn, timer, refunds, pushes, shipped>>

OrderStatus == {"confirmed", "shipped", "delivered", "refunded", "partially_refunded", "disputed"}
PaymentStatus == {"captured", "partially_refunded", "refunded"}

\* Refund requests: an amount (zero and one too many included), or none at all.
Rest == -1
Asked == {Rest} \cup 0..(Total + 1)

\* An adjustment names what it comes from: a refund call, or the buyer's dispute.
Adjustment == [source: RefundCalls \cup {"buyer"}, amount: 0..Total]
Credit == [source: RefundCalls \cup {"psp_dashboard"}, amount: 1..Total]

\* The events that push a webhook: a refund by its call, the others by name.
Pushes == RefundCalls \cup {"shipped", "delivered"}
EventOf(p) == IF p \in RefundCalls THEN "refunded" ELSE p

Body == [events: Seq({"shipped", "delivered"}), adjustments: Seq(Adjustment)]
NoBody == [events |-> <<>>, adjustments |-> <<>>]
Key == [event: {"refunded", "shipped", "delivered"}, events: Nat, adjustments: Nat]
NoKey == [event |-> "refunded", events |-> 0, adjustments |-> 0]

Idle == [pc |-> "idle", asked |-> Rest, amount |-> 0, result |-> "captured"]
NoPush == [pc |-> "none", key |-> NoKey, body |-> NoBody]

\* The transaction of an order is captured when the order is placed.
Init ==
  /\ status = "confirmed"
  /\ payment = "captured"
  /\ adjustments = <<>>
  /\ events = <<>>
  /\ txn = [refunded |-> 0, refunds |-> {}]
  /\ timer = TRUE
  /\ refunds = [r \in RefundCalls |-> Idle]
  /\ pushes = [p \in Pushes |-> NoPush]
  /\ shipped = NoBody

-----------------------------------------------------------------------------
(***************************************************************************)
(* The payment provider's refund_payment.                                  *)
(***************************************************************************)
TxnStatus == IF txn.refunded = 0 THEN "captured"
             ELSE IF txn.refunded >= Total THEN "refunded" ELSE "partially_refunded"

\* A request without an amount takes what is left.
AmountOf(asked) == IF asked = Rest THEN Total - txn.refunded ELSE asked

Refundable(amount) == amount > 0 /\ txn.refunded + amount <= Total

CreditBuyer(source, amount) ==
  txn' = [refunded |-> txn.refunded + amount,
          refunds |-> txn.refunds \cup {[source |-> source, amount |-> amount]}]

\* /api/psp/refund: the same credit, of which the merchant is not told (bound: one).
DashboardRefund(amount) ==
  /\ \A c \in txn.refunds : c.source # "psp_dashboard"
  /\ TxnStatus # "refunded"
  /\ Refundable(amount)
  /\ CreditBuyer("psp_dashboard", amount)
  /\ UNCHANGED <<status, payment, adjustments, events, timer, refunds, pushes, shipped>>

-----------------------------------------------------------------------------
(***************************************************************************)
(* Webhooks.                                                               *)
(***************************************************************************)
StartPush(p) == pushes' = [pushes EXCEPT ![p].pc = "fetching"]

KeyOf(p) == [event |-> EventOf(p), events |-> Len(events), adjustments |-> Len(adjustments)]

\* pushOrderWebhook after it has the platform's profile: key and body are of now.
PostWebhook(p) ==
  /\ pushes[p].pc = "fetching"
  /\ pushes' = [pushes EXCEPT ![p] =
       [pc |-> "posted", key |-> KeyOf(p),
        body |-> [events |-> events, adjustments |-> adjustments]]]
  /\ UNCHANGED <<status, payment, adjustments, events, txn, timer, refunds, shipped>>

\* The push of a refund ends the refund_order call: with its answer or an error.
EndPush(p, outcome) ==
  /\ pushes' = [pushes EXCEPT ![p].pc = "ended"]
  /\ refunds' = IF p \in RefundCalls THEN [refunds EXCEPT ![p].pc = outcome] ELSE refunds

\* The agent verifies the signature and keeps the order; the answer may be lost.
ReceiveWebhook(p) ==
  /\ pushes[p].pc = "posted"
  /\ shipped' = pushes[p].body
  /\ \E outcome \in {"answered", "failed"} : EndPush(p, outcome)
  /\ UNCHANGED <<status, payment, adjustments, events, txn, timer>>

\* The agent refuses the signature with a 401, which the merchant does not look at.
RejectWebhook(p) ==
  /\ pushes[p].pc = "posted"
  /\ EndPush(p, "answered")
  /\ UNCHANGED <<status, payment, adjustments, events, txn, timer, shipped>>

\* The profile cannot be fetched, or the webhook does not arrive.
LoseWebhook(p) ==
  /\ pushes[p].pc \in {"fetching", "posted"}
  /\ EndPush(p, "failed")
  /\ UNCHANGED <<status, payment, adjustments, events, txn, timer, shipped>>

-----------------------------------------------------------------------------
(***************************************************************************)
(* The merchant.                                                           *)
(***************************************************************************)
\* Mutant of Shippable: what was shipped ships again.
ShippableTwice == status \in {"confirmed", "shipped"}

Shippable == status = "confirmed"

\* shipOrder, when it goes on.
Ship ==
  /\ status' = "shipped"
  /\ events' = Append(events, "shipped")
  /\ StartPush("shipped")
  /\ UNCHANGED <<payment, adjustments, txn, refunds, shipped>>

\* The timer set by complete_checkout fires once.
AutoShip ==
  /\ timer
  /\ timer' = FALSE
  /\ \/ Shippable /\ Ship
     \/ /\ ~Shippable
        /\ UNCHANGED <<status, payment, adjustments, events, txn, refunds, pushes, shipped>>

\* /api/portal/ship; on an order that does not ship it changes nothing.
PortalShip ==
  /\ Shippable
  /\ Ship
  /\ UNCHANGED timer

\* /api/portal/deliver
Deliver ==
  /\ status = "shipped"
  /\ status' = "delivered"
  /\ events' = Append(events, "delivered")
  /\ StartPush("delivered")
  /\ UNCHANGED <<payment, adjustments, txn, timer, refunds, shipped>>

\* file_dispute; it pushes no webhook.
FileDispute ==
  /\ Cardinality({i \in DOMAIN adjustments : adjustments[i].source = "buyer"}) < MaxDisputes
  /\ status' = "disputed"
  /\ adjustments' = Append(adjustments, [source |-> "buyer", amount |-> 0])
  /\ UNCHANGED <<payment, events, txn, timer, refunds, pushes, shipped>>

\* refund_order up to its call of refund_payment.
RefundOrder(r, asked) ==
  /\ refunds[r].pc = "idle"
  /\ refunds' = [refunds EXCEPT ![r].pc = "asking", ![r].asked = asked]
  /\ UNCHANGED <<status, payment, adjustments, events, txn, timer, pushes, shipped>>

\* refund_payment for that call.
RefundPayment(r) ==
  LET amount == AmountOf(refunds[r].asked) IN
  /\ refunds[r].pc = "asking"
  /\ TxnStatus # "refunded"
  /\ Refundable(amount)
  /\ CreditBuyer(r, amount)
  /\ refunds' = [refunds EXCEPT ![r] =
       [pc |-> "credited", asked |-> Rest, amount |-> amount, result |-> TxnStatus']]
  /\ UNCHANGED <<status, payment, adjustments, events, timer, pushes, shipped>>

\* refund_payment refuses, or its answer, or the request, is lost on the way.
RefundFails(r) ==
  /\ refunds[r].pc \in {"asking", "credited"}
  /\ refunds' = [refunds EXCEPT ![r] = [Idle EXCEPT !.pc = "failed"]]
  /\ UNCHANGED <<status, payment, adjustments, events, txn, timer, pushes, shipped>>

\* Mutants of Adjusted: an adjustment replaces the others, or is put before them.
AdjustedAlone(adj) == <<adj>>
AdjustedFirst(adj) == <<adj>> \o adjustments

Adjusted(adj) == Append(adjustments, adj)

\* Mutant of RecordedStatus: every refund counts as a full one.
RecordedStatusFull(result) == "refunded"

RecordedStatus(result) == IF result = "refunded" THEN "refunded" ELSE "partially_refunded"

\* refund_order goes on with the provider's answer: adjustment, statuses, webhook.
RecordRefund(r) ==
  /\ refunds[r].pc = "credited"
  /\ adjustments' = Adjusted([source |-> r, amount |-> refunds[r].amount])
  /\ status' = RecordedStatus(refunds[r].result)
  /\ payment' = refunds[r].result
  /\ refunds' = [refunds EXCEPT ![r] = [Idle EXCEPT !.pc = "pushing"]]
  /\ StartPush(r)
  /\ UNCHANGED <<events, txn, timer, shipped>>

-----------------------------------------------------------------------------
Refund(r) ==
  \/ \E asked \in Asked : RefundOrder(r, asked)
  \/ RefundPayment(r)
  \/ RefundFails(r)
  \/ RecordRefund(r)

Webhook(p) == PostWebhook(p) \/ ReceiveWebhook(p) \/ RejectWebhook(p) \/ LoseWebhook(p)

Next ==
  \/ AutoShip
  \/ PortalShip
  \/ Deliver
  \/ FileDispute
  \/ \E r \in RefundCalls : Refund(r)
  \/ \E p \in Pushes : Webhook(p)
  \/ \E amount \in 1..Total : DashboardRefund(amount)

Spec == Init /\ [][Next]_vars

-----------------------------------------------------------------------------
(***************************************************************************)
(* Properties.                                                             *)
(***************************************************************************)
\* Types of the order, the transaction, the calls and the webhooks.
TypeOK ==
  /\ status \in OrderStatus
  /\ payment \in PaymentStatus
  /\ adjustments \in Seq(Adjustment)
  /\ events \in Seq({"shipped", "delivered"})
  /\ txn \in [refunded: 0..Total, refunds: SUBSET Credit]
  /\ timer \in BOOLEAN
  /\ refunds \in [RefundCalls ->
       [pc: {"idle", "asking", "credited", "pushing", "answered", "failed"},
        asked: Asked, amount: 0..Total, result: PaymentStatus]]
  /\ pushes \in [Pushes -> [pc: {"none", "fetching", "posted", "ended"},
                            key: Key, body: Body]]
  /\ shipped \in Body

\* The order's books agree with the provider's: every refund adjustment is a
\* credit the buyer got, recorded once and for the same amount, and a call that
\* was answered has recorded its own, however calls and answers overlap.
Records(i, r) == adjustments[i].source = r
RefundsAreRecorded ==
  /\ \A i \in DOMAIN adjustments : adjustments[i].source \in RefundCalls =>
       adjustments[i] \in txn.refunds
  /\ \A i, j \in DOMAIN adjustments :
       adjustments[i].source = adjustments[j].source /\ adjustments[i].source \in RefundCalls
       => i = j
  /\ \A r \in RefundCalls : refunds[r].pc \in {"pushing", "answered"} =>
       \E i \in DOMAIN adjustments : Records(i, r)

\* An order shown as refunded was given back in full, and one shown as partially
\* refunded in part, whatever the dashboard, disputes and late answers did since.
StatusIsBacked ==
  /\ status = "refunded" \/ payment = "refunded" => txn.refunded = Total
  /\ status = "partially_refunded" \/ payment = "partially_refunded" => txn.refunded > 0

\* A parcel leaves once and arrives once, by timer and portal together, and a
\* refund or a dispute in between never lets it leave or arrive again.
LeavesOnce ==
  /\ events \in {<<>>, <<"shipped">>, <<"shipped", "delivered">>}
  /\ status = "confirmed" => events = <<>>
  /\ status = "shipped" => events = <<"shipped">>
  /\ status = "delivered" => events = <<"shipped", "delivered">>

\* Two webhooks under one idempotency key carry the same order: a receiver that
\* deduplicates by key loses nothing.
Sent(p) == pushes[p].key # NoKey
KeyIdentifiesBody ==
  \A p, q \in Pushes : Sent(p) /\ Sent(q) /\ pushes[p].key = pushes[q].key
    => pushes[p].body = pushes[q].body

\* The agent's copy of the order is the order as it once was, never one that
\* was not, although webhooks arrive late and in any order.
CopyIsPast ==
  /\ IsPrefix(shipped.events, events)
  /\ IsPrefix(shipped.adjustments, adjustments)

\* Whatever calls, timers and webhooks do, the order keeps the promise of OrderBook: no
\* more is given back than was paid, each credit is entered once as it was given and no
\* entry changes, the parcel leaves and arrives once, and the agent is told the order
\* as it was at some time.
Book == INSTANCE OrderBook WITH
  Sources <- RefundCalls \cup {"psp_dashboard"},
  credits <- txn.refunds,
  books <- adjustments,
  parcel <- events,
  copy <- shipped

KeepsBooks == Book!Spec
=============================================================================
