---------------------------- MODULE Orders_proofs ----------------------------
(***************************************************************************)
(* Proofs about Orders, for every number of refund calls and every total.  *)
(***************************************************************************)
EXTENDS Orders, Sums, SequenceTheorems, TLAPS

(***************************************************************************)
(* Sequences that only grow.                                               *)
(***************************************************************************)
LEMMA PrefixOfAppend ==
  ASSUME NEW S, NEW s \in Seq(S), NEW t \in Seq(S), NEW x \in S, IsPrefix(s, t)
  PROVE  IsPrefix(s, Append(t, x))
  <1>1. /\ Len(s) \in Nat /\ Len(t) \in Nat /\ Len(s) <= Len(t)
        /\ SubSeq(s, 1, Len(s)) = SubSeq(t, 1, Len(s))
    BY LenProperties DEF IsPrefix
  <1>2. Len(Append(t, x)) = Len(t) + 1 /\ Append(t, x) \in Seq(S)
    BY AppendProperties
  <1>3. SubSeq(Append(t, x), 1, Len(s)) = SubSeq(t, 1, Len(s))
    BY <1>1, <1>2
  <1>. QED BY <1>1, <1>2, <1>3 DEF IsPrefix

LEMMA PrefixOfItself ==
  ASSUME NEW S, NEW s \in Seq(S)
  PROVE  IsPrefix(s, s)
  BY LenProperties DEF IsPrefix

LEMMA EmptyPrefix ==
  ASSUME NEW S, NEW s \in Seq(S)
  PROVE  IsPrefix(<<>>, s)
  BY LenProperties DEF IsPrefix

\* Two prefixes of one sequence that have the same length are the same.
LEMMA PrefixesByLength ==
  ASSUME NEW S, NEW s \in Seq(S), NEW u \in Seq(S), NEW t \in Seq(S),
         IsPrefix(s, t), IsPrefix(u, t), Len(s) = Len(u)
  PROVE  s = u
  <1>1. SubSeq(s, 1, Len(s)) = s /\ SubSeq(u, 1, Len(u)) = u
    BY SubSeqFull
  <1>. QED BY <1>1 DEF IsPrefix

-----------------------------------------------------------------------------
(***************************************************************************)
(* Types.                                                                  *)
(***************************************************************************)
Call ==
  [pc: {"idle", "asking", "credited", "pushing", "answered", "failed"},
   asked: Asked, amount: 0..Total, result: PaymentStatus]
Push == [pc: {"none", "fetching", "posted", "ended"}, key: Key, body: Body]
Txn == [refunded: 0..Total, refunds: SUBSET Credit]

\* A refund that fits leaves a transaction well typed, with more refunded.
LEMMA CreditTyped ==
  ASSUME TypeOK, NEW source \in RefundCalls \cup {"psp_dashboard"}, NEW amount \in Int,
         Refundable(amount), CreditBuyer(source, amount)
  PROVE  /\ txn' \in Txn
         /\ amount \in 1..Total
         /\ txn'.refunded = txn.refunded + amount
         /\ txn'.refunded \in 1..Total
         /\ txn'.refunds = txn.refunds \cup {[source |-> source, amount |-> amount]}
  <1>1. txn.refunded \in 0..Total /\ txn.refunds \in SUBSET Credit /\ Total \in Nat
    BY OrdersAssumption DEF TypeOK
  <1>2. amount \in 1..Total /\ txn.refunded + amount \in 1..Total
    BY <1>1 DEF Refundable
  <1>3. [source |-> source, amount |-> amount] \in Credit
    BY <1>2 DEF Credit
  <1>4. txn.refunds \cup {[source |-> source, amount |-> amount]} \in SUBSET Credit
    BY <1>1, <1>3
  <1>5. txn' = [refunded |-> txn.refunded + amount,
                refunds |-> txn.refunds \cup {[source |-> source, amount |-> amount]}]
    BY DEF CreditBuyer
  <1>. QED BY <1>2, <1>4, <1>5 DEF Txn

\* The end of a push changes where it and its call stand, nothing else of them.
LEMMA EndPushTyped ==
  ASSUME TypeOK, NEW p \in Pushes, NEW outcome \in {"answered", "failed"}, EndPush(p, outcome)
  PROVE  pushes' \in [Pushes -> Push] /\ refunds' \in [RefundCalls -> Call]
  <1>1. pushes \in [Pushes -> Push] /\ refunds \in [RefundCalls -> Call]
    BY DEF TypeOK, Push, Call
  <1>2. [pushes[p] EXCEPT !.pc = "ended"] \in Push
    BY <1>1 DEF Push
  <1>3. pushes' = [pushes EXCEPT ![p] = [pushes[p] EXCEPT !.pc = "ended"]]
    BY DEF EndPush
  <1>4. refunds' \in [RefundCalls -> Call]
    <2>1. CASE p \in RefundCalls
      <3>1. [refunds[p] EXCEPT !.pc = outcome] \in Call
        BY <1>1, <2>1 DEF Call
      <3>2. refunds' = [refunds EXCEPT ![p] = [refunds[p] EXCEPT !.pc = outcome]]
        BY <2>1 DEF EndPush
      <3>. QED BY <1>1, <3>1, <3>2
    <2>2. CASE p \notin RefundCalls
      BY <1>1, <2>2 DEF EndPush
    <2>. QED BY <2>1, <2>2
  <1>. QED BY <1>1, <1>2, <1>3, <1>4

\* Starting a push keeps the pushes well typed.
LEMMA StartPushTyped ==
  ASSUME TypeOK, NEW p \in Pushes, StartPush(p)
  PROVE  pushes' \in [Pushes -> Push]
  <1>1. pushes \in [Pushes -> Push]
    BY DEF TypeOK, Push
  <1>2. [pushes[p] EXCEPT !.pc = "fetching"] \in Push
    BY <1>1 DEF Push
  <1>3. pushes' = [pushes EXCEPT ![p] = [pushes[p] EXCEPT !.pc = "fetching"]]
    BY DEF StartPush
  <1>. QED BY <1>1, <1>2, <1>3

\* A shipment keeps the types.
LEMMA ShipTyped ==
  ASSUME TypeOK, Ship, timer' \in BOOLEAN
  PROVE  TypeOK'
  <1>1. pushes' \in [Pushes -> Push]
    BY StartPushTyped DEF Ship, Pushes
  <1>2. events' \in Seq({"shipped", "delivered"})
    BY DEF Ship, TypeOK
  <1>3. status' \in OrderStatus
    BY DEF Ship, OrderStatus
  <1>. QED BY <1>1, <1>2, <1>3 DEF Ship, TypeOK, Push

\* Every step keeps the types of the state.
LEMMA TypeStep == TypeOK /\ [Next]_vars => TypeOK'
  <1>. SUFFICES ASSUME TypeOK, [Next]_vars PROVE TypeOK'
    OBVIOUS
  <1>. USE OrdersAssumption
  <1>1. /\ refunds \in [RefundCalls -> Call] /\ pushes \in [Pushes -> Push]
        /\ txn \in Txn /\ timer \in BOOLEAN
    BY DEF TypeOK, Call, Push, Txn
  <1>2. CASE AutoShip
    <2>1. timer' \in BOOLEAN
      BY <1>2 DEF AutoShip
    <2>2. CASE Ship
      BY <2>1, <2>2, ShipTyped
    <2>3. CASE UNCHANGED <<status, payment, adjustments, events, txn, refunds, pushes, shipped>>
      BY <2>1, <2>3 DEF TypeOK
    <2>. QED BY <1>2, <2>2, <2>3 DEF AutoShip
  <1>3. CASE PortalShip
    BY <1>1, <1>3, ShipTyped DEF PortalShip
  <1>4. CASE Deliver
    <2>1. pushes' \in [Pushes -> Push]
      BY <1>4, StartPushTyped DEF Deliver, Pushes
    <2>2. events' \in Seq({"shipped", "delivered"}) /\ status' \in OrderStatus
      BY <1>4 DEF Deliver, TypeOK, OrderStatus
    <2>. QED BY <1>4, <2>1, <2>2 DEF Deliver, TypeOK, Push
  <1>5. CASE FileDispute
    <2>1. [source |-> "buyer", amount |-> 0] \in Adjustment
      BY DEF Adjustment
    <2>2. adjustments' \in Seq(Adjustment) /\ status' \in OrderStatus
      BY <1>5, <2>1 DEF FileDispute, TypeOK, OrderStatus
    <2>. QED BY <1>5, <2>2 DEF FileDispute, TypeOK
  <1>6. ASSUME NEW r \in RefundCalls, NEW asked \in Asked, RefundOrder(r, asked)
        PROVE  TypeOK'
    <2>1. [refunds[r] EXCEPT !.pc = "asking", !.asked = asked] \in Call
      BY <1>1 DEF Call
    <2>2. refunds' = [refunds EXCEPT ![r] = [refunds[r] EXCEPT !.pc = "asking", !.asked = asked]]
      BY <1>6 DEF RefundOrder
    <2>3. refunds' \in [RefundCalls -> Call]
      BY <1>1, <2>1, <2>2
    <2>. QED BY <1>6, <2>3 DEF RefundOrder, TypeOK, Call
  <1>7. ASSUME NEW r \in RefundCalls, RefundPayment(r) PROVE TypeOK'
    <2>. DEFINE amount == AmountOf(refunds[r].asked)
    <2>1. amount \in Int
      BY <1>1 DEF AmountOf, Call, Asked, Rest, Txn
    <2>2. Refundable(amount) /\ CreditBuyer(r, amount)
      BY <1>7 DEF RefundPayment
    <2>. HIDE DEF amount
    <2>3. txn' \in Txn /\ amount \in 1..Total
      BY <2>1, <2>2, CreditTyped
    <2>4. [pc |-> "credited", asked |-> Rest, amount |-> amount, result |-> TxnStatus'] \in Call
      <3>1. TxnStatus' \in PaymentStatus
        BY DEF TxnStatus, PaymentStatus
      <3>. QED BY <2>3, <3>1 DEF Call, Asked
    <2>5. refunds' \in [RefundCalls -> Call]
      <3>1. refunds' = [refunds EXCEPT ![r] =
              [pc |-> "credited", asked |-> Rest, amount |-> amount, result |-> TxnStatus']]
        BY <1>7 DEF RefundPayment, amount
      <3>. QED BY <1>1, <2>4, <3>1
    <2>. QED BY <1>7, <2>3, <2>5 DEF RefundPayment, TypeOK, Call, Txn
  <1>8. ASSUME NEW r \in RefundCalls, RefundFails(r) PROVE TypeOK'
    <2>1. [Idle EXCEPT !.pc = "failed"] \in Call
      BY DEF Idle, Call, Asked, PaymentStatus
    <2>2. refunds' \in [RefundCalls -> Call]
      BY <1>1, <1>8, <2>1 DEF RefundFails
    <2>. QED BY <1>8, <2>2 DEF RefundFails, TypeOK, Call
  <1>9. ASSUME NEW r \in RefundCalls, RecordRefund(r) PROVE TypeOK'
    <2>1. [Idle EXCEPT !.pc = "pushing"] \in Call
      BY DEF Idle, Call, Asked, PaymentStatus
    <2>2. refunds' \in [RefundCalls -> Call]
      BY <1>1, <1>9, <2>1 DEF RecordRefund
    <2>3. pushes' \in [Pushes -> Push]
      BY <1>9, StartPushTyped DEF RecordRefund, Pushes
    <2>4. refunds[r] \in Call
      BY <1>1
    <2>5. [source |-> r, amount |-> refunds[r].amount] \in Adjustment
      BY <2>4 DEF Call, Adjustment
    <2>6. adjustments' \in Seq(Adjustment)
      BY <1>9, <2>5 DEF RecordRefund, Adjusted, TypeOK
    <2>7. payment' \in PaymentStatus /\ status' \in OrderStatus
      BY <1>9, <2>4 DEF RecordRefund, RecordedStatus, Call, OrderStatus
    <2>. QED BY <1>9, <2>2, <2>3, <2>6, <2>7 DEF RecordRefund, TypeOK, Call, Push
  <1>10. ASSUME NEW p \in Pushes, Webhook(p) PROVE TypeOK'
    <2>1. CASE PostWebhook(p)
      <3>1. KeyOf(p) \in Key
        BY DEF KeyOf, EventOf, Key, Pushes, TypeOK
      <3>2. [pc |-> "posted", key |-> KeyOf(p),
             body |-> [events |-> events, adjustments |-> adjustments]] \in Push
        BY <3>1 DEF Push, Body, TypeOK
      <3>3. pushes' \in [Pushes -> Push]
        BY <1>1, <2>1, <3>2 DEF PostWebhook
      <3>. QED BY <2>1, <3>3 DEF PostWebhook, TypeOK, Push
    <2>2. CASE ReceiveWebhook(p)
      <3>1. shipped' \in Body
        <4>1. pushes[p] \in Push
          BY <1>1
        <4>. QED BY <2>2, <4>1 DEF ReceiveWebhook, Push
      <3>2. pushes' \in [Pushes -> Push] /\ refunds' \in [RefundCalls -> Call]
        BY <2>2, EndPushTyped DEF ReceiveWebhook
      <3>. QED BY <2>2, <3>1, <3>2 DEF ReceiveWebhook, TypeOK, Push, Call
    <2>3. CASE RejectWebhook(p)
      <3>1. pushes' \in [Pushes -> Push] /\ refunds' \in [RefundCalls -> Call]
        BY <2>3, EndPushTyped DEF RejectWebhook
      <3>. QED BY <2>3, <3>1 DEF RejectWebhook, TypeOK, Push, Call
    <2>4. CASE LoseWebhook(p)
      <3>1. pushes' \in [Pushes -> Push] /\ refunds' \in [RefundCalls -> Call]
        BY <2>4, EndPushTyped DEF LoseWebhook
      <3>. QED BY <2>4, <3>1 DEF LoseWebhook, TypeOK, Push, Call
    <2>. QED BY <1>10, <2>1, <2>2, <2>3, <2>4 DEF Webhook
  <1>11. ASSUME NEW amount \in 1..Total, DashboardRefund(amount) PROVE TypeOK'
    <2>1. txn' \in Txn
      BY <1>11, CreditTyped DEF DashboardRefund
    <2>. QED BY <1>11, <2>1 DEF DashboardRefund, TypeOK, Txn
  <1>12. CASE UNCHANGED vars
    BY <1>12 DEF vars, TypeOK
  <1>. QED BY <1>2, <1>3, <1>4, <1>5, <1>6, <1>7, <1>8, <1>9, <1>10, <1>11, <1>12 DEF Next, Refund

\* The initial state has its types.
LEMMA TypeInit == Init => TypeOK
  <1>. SUFFICES ASSUME Init PROVE TypeOK
    OBVIOUS
  <1>. USE OrdersAssumption
  <1>1. Idle \in Call /\ NoPush \in Push /\ NoBody \in Body
    BY DEF Idle, Call, Asked, PaymentStatus, NoPush, Push, NoKey, Key, NoBody, Body
  <1>. QED BY <1>1 DEF Init, TypeOK, Call, Push, OrderStatus, PaymentStatus

\* Every reachable state is well typed; no refund passes the capture.
THEOREM TypeCorrect == Spec => []TypeOK
  <1>. QED BY TypeInit, TypeStep, PTL DEF Spec

-----------------------------------------------------------------------------
(***************************************************************************)
(* Shipment.                                                               *)
(***************************************************************************)
\* Only a shipment, a delivery, a dispute and a recorded refund change the status.
LEMMA StatusSteps ==
  ASSUME [Next]_vars
  PROVE  \/ Shippable /\ Ship
         \/ Deliver
         \/ FileDispute
         \/ \E r \in RefundCalls : RecordRefund(r)
         \/ UNCHANGED <<status, payment, adjustments, events>>
  <1>1. CASE AutoShip
    BY <1>1 DEF AutoShip
  <1>2. CASE PortalShip
    BY <1>2 DEF PortalShip
  <1>3. ASSUME NEW r \in RefundCalls, Refund(r)
        PROVE  RecordRefund(r) \/ UNCHANGED <<status, payment, adjustments, events>>
    BY <1>3 DEF Refund, RefundOrder, RefundPayment, RefundFails
  <1>4. ASSUME NEW p \in Pushes, Webhook(p)
        PROVE  UNCHANGED <<status, payment, adjustments, events>>
    BY <1>4 DEF Webhook, PostWebhook, ReceiveWebhook, RejectWebhook, LoseWebhook
  <1>5. ASSUME NEW amount \in 1..Total, DashboardRefund(amount)
        PROVE  UNCHANGED <<status, payment, adjustments, events>>
    BY <1>5 DEF DashboardRefund
  <1>6. CASE UNCHANGED vars
    BY <1>6 DEF vars
  <1>. QED BY <1>1, <1>2, <1>3, <1>4, <1>5, <1>6 DEF Next

LEMMA ShippedThenDelivered == Append(<<"shipped">>, "delivered") = <<"shipped", "delivered">>
  <1>. DEFINE S == {"shipped", "delivered"}
              s == <<"shipped">>
              t == <<"shipped", "delivered">>
              u == Append(s, "delivered")
  <1>1. /\ s \in Seq(S) /\ Len(s) = 1 /\ s[1] = "shipped"
        /\ t \in Seq(S) /\ Len(t) = 2 /\ t[1] = "shipped" /\ t[2] = "delivered"
    OBVIOUS
  <1>2. /\ u \in Seq(S)
        /\ Len(u) = Len(s) + 1
        /\ \A i \in 1..Len(s) : u[i] = s[i]
        /\ u[Len(s) + 1] = "delivered"
    <2>1. s \in Seq(S) /\ "delivered" \in S
      BY <1>1
    <2>. HIDE DEF s, S
    <2>. QED BY <2>1, AppendProperties
  <1>. HIDE DEF S, s, t, u
  <1>3. Len(u) = Len(t) /\ \A i \in 1..Len(u) : u[i] = t[i]
    BY <1>1, <1>2
  <1>4. u = t
    BY <1>1, <1>2, <1>3, SeqEqual
  <1>. QED BY <1>4 DEF u, s, t

\* LeavesOnce is inductive: what made a parcel leave also made it unshippable.
LEMMA LeavesStep == LeavesOnce /\ [Next]_vars => LeavesOnce'
  <1>. SUFFICES ASSUME LeavesOnce, [Next]_vars PROVE LeavesOnce'
    OBVIOUS
  <1>1. CASE Shippable /\ Ship
    <2>1. events = <<>>
      BY <1>1 DEF Shippable, LeavesOnce
    <2>2. events' = <<"shipped">> /\ status' = "shipped"
      BY <1>1, <2>1 DEF Ship
    <2>. QED BY <2>2 DEF LeavesOnce
  <1>2. CASE Deliver
    <2>1. events = <<"shipped">>
      BY <1>2 DEF Deliver, LeavesOnce
    <2>2. events' = <<"shipped", "delivered">> /\ status' = "delivered"
      BY <1>2, <2>1, ShippedThenDelivered DEF Deliver
    <2>. QED BY <2>2 DEF LeavesOnce
  <1>3. CASE FileDispute
    BY <1>3 DEF FileDispute, LeavesOnce
  <1>4. ASSUME NEW r \in RefundCalls, RecordRefund(r) PROVE LeavesOnce'
    BY <1>4 DEF RecordRefund, RecordedStatus, LeavesOnce
  <1>5. CASE UNCHANGED <<status, payment, adjustments, events>>
    BY <1>5 DEF LeavesOnce
  <1>. QED BY <1>1, <1>2, <1>3, <1>4, <1>5, StatusSteps

\* A parcel leaves once and arrives once.
THEOREM ParcelLeavesOnce == Spec => []LeavesOnce
  <1>1. Init => LeavesOnce
    BY DEF Init, LeavesOnce
  <1>. QED BY <1>1, LeavesStep, PTL DEF Spec

-----------------------------------------------------------------------------
(***************************************************************************)
(* Refunds.                                                                *)
(***************************************************************************)
\* What a refund_order call knows: the credit it got, and that a refund call with
\* a webhook under way has recorded it, and one before that has not.
CallInv ==
  \A r \in RefundCalls :
    /\ refunds[r].pc = "credited" =>
         /\ [source |-> r, amount |-> refunds[r].amount] \in txn.refunds
         /\ refunds[r].result \in {"partially_refunded", "refunded"}
         /\ refunds[r].result = "refunded" => txn.refunded = Total
         /\ txn.refunded > 0
    /\ refunds[r].pc \in {"idle", "asking", "credited"} =>
         \A i \in DOMAIN adjustments : ~Records(i, r)
    /\ pushes[r].pc \in {"fetching", "posted"} => refunds[r].pc = "pushing"

RefundInv == CallInv /\ RefundsAreRecorded /\ StatusIsBacked

\* A credit is given only on what is left, and never taken back.
LEMMA CreditSteps ==
  ASSUME TypeOK, [Next]_vars
  PROVE  /\ txn.refunds \subseteq txn'.refunds
         /\ txn.refunded > 0 => txn'.refunded > 0
         /\ txn.refunded = Total => txn'.refunded = Total
  <1>. USE OrdersAssumption
  <1>0. txn.refunded \in 0..Total /\ Total \in Nat
    BY DEF TypeOK
  <1>1. ASSUME NEW source \in RefundCalls \cup {"psp_dashboard"}, NEW amount \in Int,
               Refundable(amount), CreditBuyer(source, amount)
        PROVE  /\ txn.refunds \subseteq txn'.refunds
               /\ txn.refunded > 0 => txn'.refunded > 0
               /\ txn.refunded = Total => txn'.refunded = Total
    BY <1>0, <1>1, CreditTyped DEF Refundable
  <1>2. ASSUME NEW r \in RefundCalls, RefundPayment(r)
        PROVE  /\ txn.refunds \subseteq txn'.refunds
               /\ txn.refunded > 0 => txn'.refunded > 0
               /\ txn.refunded = Total => txn'.refunded = Total
    <2>1. AmountOf(refunds[r].asked) \in Int
      BY <1>0 DEF AmountOf, TypeOK, Asked, Rest
    <2>. QED BY <1>1, <1>2, <2>1 DEF RefundPayment
  <1>3. ASSUME NEW amount \in 1..Total, DashboardRefund(amount)
        PROVE  /\ txn.refunds \subseteq txn'.refunds
               /\ txn.refunded > 0 => txn'.refunded > 0
               /\ txn.refunded = Total => txn'.refunded = Total
    BY <1>1, <1>3 DEF DashboardRefund
  <1>4. CASE UNCHANGED txn
    BY <1>4
  <1>5. ASSUME NEW r \in RefundCalls, Refund(r) PROVE RefundPayment(r) \/ UNCHANGED txn
    BY <1>5 DEF Refund, RefundOrder, RefundFails, RecordRefund
  <1>6. ASSUME NEW p \in Pushes, Webhook(p) PROVE UNCHANGED txn
    BY <1>6 DEF Webhook, PostWebhook, ReceiveWebhook, RejectWebhook, LoseWebhook
  <1>7. AutoShip \/ PortalShip \/ Deliver \/ FileDispute \/ UNCHANGED vars => UNCHANGED txn
    BY DEF AutoShip, PortalShip, Ship, Deliver, FileDispute, vars
  <1>. QED BY <1>2, <1>3, <1>4, <1>5, <1>6, <1>7 DEF Next

\* Statuses are backed because an answer that says refunded stays true.
LEMMA BackedStep == TypeOK /\ RefundInv /\ [Next]_vars => StatusIsBacked'
  <1>. SUFFICES ASSUME TypeOK, RefundInv, [Next]_vars PROVE StatusIsBacked'
    OBVIOUS
  <1>1. /\ txn.refunded > 0 => txn'.refunded > 0
        /\ txn.refunded = Total => txn'.refunded = Total
    BY CreditSteps
  <1>2. ASSUME NEW r \in RefundCalls, RecordRefund(r) PROVE StatusIsBacked'
    <2>1. /\ refunds[r].result \in {"partially_refunded", "refunded"}
          /\ refunds[r].result = "refunded" => txn'.refunded = Total
          /\ txn'.refunded > 0
      BY <1>1, <1>2 DEF RecordRefund, RefundInv, CallInv
    <2>2. payment' = refunds[r].result /\ status' = RecordedStatus(refunds[r].result)
      BY <1>2 DEF RecordRefund
    <2>. QED BY <2>1, <2>2 DEF RecordedStatus, StatusIsBacked
  <1>3. CASE UNCHANGED <<status, payment, adjustments, events>>
    BY <1>1, <1>3 DEF RefundInv, StatusIsBacked
  <1>4. CASE Ship
    BY <1>1, <1>4 DEF Ship, RefundInv, StatusIsBacked
  <1>5. CASE Deliver
    BY <1>1, <1>5 DEF Deliver, RefundInv, StatusIsBacked
  <1>6. CASE FileDispute
    BY <1>1, <1>6 DEF FileDispute, RefundInv, StatusIsBacked
  <1>. QED BY <1>2, <1>3, <1>4, <1>5, <1>6, StatusSteps

\* The adjustments after one more: the old ones, and the new one last.
LEMMA OneMoreAdjustment ==
  ASSUME TypeOK, NEW adj \in Adjustment, adjustments' = Append(adjustments, adj)
  PROVE  \A i \in DOMAIN adjustments' :
           \/ i \in DOMAIN adjustments /\ adjustments'[i] = adjustments[i]
           \/ i = Len(adjustments) + 1 /\ i \notin DOMAIN adjustments /\ adjustments'[i] = adj
  <1>1. adjustments \in Seq(Adjustment)
    BY DEF TypeOK
  <1>2. /\ adjustments' \in Seq(Adjustment) /\ Len(adjustments') = Len(adjustments) + 1
        /\ \A i \in 1..Len(adjustments) : adjustments'[i] = adjustments[i]
        /\ adjustments'[Len(adjustments) + 1] = adj
    BY <1>1, AppendProperties
  <1>3. /\ DOMAIN adjustments = 1..Len(adjustments) /\ Len(adjustments) \in Nat
        /\ DOMAIN adjustments' = 1..(Len(adjustments) + 1)
    BY <1>1, <1>2, LenProperties
  <1>. QED BY <1>2, <1>3

\* ... all of them are there.
LEMMA AdjustmentsStay ==
  ASSUME TypeOK, NEW adj \in Adjustment, adjustments' = Append(adjustments, adj)
  PROVE  /\ \A i \in DOMAIN adjustments :
              i \in DOMAIN adjustments' /\ adjustments'[i] = adjustments[i]
         /\ Len(adjustments) + 1 \in DOMAIN adjustments'
         /\ adjustments'[Len(adjustments) + 1] = adj
  <1>1. adjustments \in Seq(Adjustment)
    BY DEF TypeOK
  <1>2. /\ adjustments' \in Seq(Adjustment) /\ Len(adjustments') = Len(adjustments) + 1
        /\ \A i \in 1..Len(adjustments) : adjustments'[i] = adjustments[i]
        /\ adjustments'[Len(adjustments) + 1] = adj
    BY <1>1, AppendProperties
  <1>3. /\ DOMAIN adjustments = 1..Len(adjustments) /\ Len(adjustments) \in Nat
        /\ DOMAIN adjustments' = 1..(Len(adjustments) + 1)
    BY <1>1, <1>2, LenProperties
  <1>. QED BY <1>2, <1>3

\* Calls that have not recorded a refund, and webhooks under way.
Unrecorded == {"idle", "asking", "credited"}
Pushing == {"fetching", "posted"}

\* A step in which no refund is recorded and no adjustment made keeps RefundInv if
\* calls go on as CallInv wants them to.
LEMMA QuietStep ==
  ASSUME RefundInv, StatusIsBacked', UNCHANGED adjustments,
         txn.refunds \subseteq txn'.refunds,
         txn.refunded > 0 => txn'.refunded > 0,
         txn.refunded = Total => txn'.refunded = Total,
         \A r \in RefundCalls :
           /\ \/ refunds'[r] = refunds[r] /\ (pushes'[r].pc \in Pushing => pushes[r].pc \in Pushing)
              \/ /\ refunds[r].pc \in Unrecorded /\ refunds'[r].pc \in {"asking", "failed"}
                 /\ pushes'[r].pc = pushes[r].pc
              \/ /\ refunds[r].pc = "pushing" /\ refunds'[r].pc \in {"answered", "failed"}
                 /\ pushes'[r].pc \notin Pushing
  PROVE  RefundInv'
  <1>1. CallInv'
    <2>. SUFFICES ASSUME NEW r \in RefundCalls
         PROVE  /\ refunds'[r].pc = "credited" =>
                     /\ [source |-> r, amount |-> refunds'[r].amount] \in txn'.refunds
                     /\ refunds'[r].result \in {"partially_refunded", "refunded"}
                     /\ refunds'[r].result = "refunded" => txn'.refunded = Total
                     /\ txn'.refunded > 0
                /\ refunds'[r].pc \in {"idle", "asking", "credited"} =>
                     \A i \in DOMAIN adjustments' : ~Records(i, r)'
                /\ pushes'[r].pc \in {"fetching", "posted"} => refunds'[r].pc = "pushing"
      BY DEF CallInv
    <2>1. /\ refunds[r].pc = "credited" =>
               /\ [source |-> r, amount |-> refunds[r].amount] \in txn.refunds
               /\ refunds[r].result \in {"partially_refunded", "refunded"}
               /\ refunds[r].result = "refunded" => txn.refunded = Total
               /\ txn.refunded > 0
          /\ refunds[r].pc \in Unrecorded => \A i \in DOMAIN adjustments : ~Records(i, r)
          /\ pushes[r].pc \in Pushing => refunds[r].pc = "pushing"
      BY DEF RefundInv, CallInv, Unrecorded, Pushing
    <2>2. CASE refunds'[r] = refunds[r] /\ (pushes'[r].pc \in Pushing => pushes[r].pc \in Pushing)
      BY <2>1, <2>2 DEF Records, Unrecorded, Pushing
    <2>3. CASE /\ refunds[r].pc \in Unrecorded /\ refunds'[r].pc \in {"asking", "failed"}
               /\ pushes'[r].pc = pushes[r].pc
      BY <2>1, <2>3 DEF Records, Unrecorded, Pushing
    <2>4. CASE /\ refunds[r].pc = "pushing" /\ refunds'[r].pc \in {"answered", "failed"}
               /\ pushes'[r].pc \notin Pushing
      BY <2>1, <2>4 DEF Pushing
    <2>. QED BY <2>2, <2>3, <2>4
  <1>2. RefundsAreRecorded'
    <2>1. \A r \in RefundCalls : refunds'[r].pc \in {"pushing", "answered"} =>
            refunds[r].pc \in {"pushing", "answered"}
      BY DEF Unrecorded
    <2>. QED BY <2>1 DEF RefundInv, RefundsAreRecorded, Records
  <1>. QED BY <1>1, <1>2 DEF RefundInv

\* A credit becomes what its call will record.
LEMMA PaymentKeepsRefunds ==
  ASSUME TypeOK, RefundInv, StatusIsBacked', NEW r \in RefundCalls, RefundPayment(r)
  PROVE  RefundInv'
  <1>. USE OrdersAssumption
  <1>. DEFINE amount == AmountOf(refunds[r].asked)
  <1>0. refunds \in [RefundCalls -> Call] /\ txn \in Txn /\ Total \in Nat \ {0}
    BY DEF TypeOK, Call, Txn
  <1>1. amount \in Int
    BY <1>0 DEF AmountOf, Call, Asked, Rest, Txn
  <1>2. Refundable(amount) /\ CreditBuyer(r, amount)
    BY DEF RefundPayment
  <1>3. refunds' = [refunds EXCEPT ![r] =
          [pc |-> "credited", asked |-> Rest, amount |-> amount, result |-> TxnStatus']]
    BY DEF RefundPayment
  <1>. HIDE DEF amount
  <1>4. /\ txn'.refunded \in 1..Total
        /\ txn'.refunds = txn.refunds \cup {[source |-> r, amount |-> amount]}
    BY <1>1, <1>2, CreditTyped
  <1>5. /\ TxnStatus' \in {"partially_refunded", "refunded"}
        /\ TxnStatus' = "refunded" => txn'.refunded = Total
    BY <1>0, <1>4 DEF TxnStatus
  <1>6. /\ refunds[r].pc = "asking" /\ pushes' = pushes /\ adjustments' = adjustments
        /\ status' = status /\ payment' = payment
    BY DEF RefundPayment
  <1>7. /\ txn.refunded > 0 => txn'.refunded > 0
        /\ txn.refunded = Total => txn'.refunded = Total
    BY CreditSteps DEF Next, Refund
  <1>8. CallInv'
    <2>1. ASSUME NEW q \in RefundCalls, q # r
          PROVE  /\ refunds'[q].pc = "credited" =>
                      /\ [source |-> q, amount |-> refunds'[q].amount] \in txn'.refunds
                      /\ refunds'[q].result \in {"partially_refunded", "refunded"}
                      /\ refunds'[q].result = "refunded" => txn'.refunded = Total
                      /\ txn'.refunded > 0
                 /\ refunds'[q].pc \in {"idle", "asking", "credited"} =>
                      \A i \in DOMAIN adjustments' : ~Records(i, q)'
                 /\ pushes'[q].pc \in {"fetching", "posted"} => refunds'[q].pc = "pushing"
      BY <1>0, <1>3, <1>4, <1>6, <1>7, <2>1 DEF RefundInv, CallInv, Records
    <2>2. /\ refunds'[r].pc = "credited" =>
                /\ [source |-> r, amount |-> refunds'[r].amount] \in txn'.refunds
                /\ refunds'[r].result \in {"partially_refunded", "refunded"}
                /\ refunds'[r].result = "refunded" => txn'.refunded = Total
                /\ txn'.refunded > 0
      BY <1>0, <1>3, <1>4, <1>5
    <2>3. \A i \in DOMAIN adjustments' : ~Records(i, r)'
      BY <1>6 DEF RefundInv, CallInv, Records
    <2>4. pushes'[r].pc \notin {"fetching", "posted"}
      BY <1>6 DEF RefundInv, CallInv
    <2>. QED BY <2>1, <2>2, <2>3, <2>4 DEF CallInv
  <1>9. RefundsAreRecorded'
    <2>1. \A q \in RefundCalls : refunds'[q].pc \in {"pushing", "answered"} => refunds'[q] = refunds[q]
      BY <1>0, <1>3
    <2>. QED BY <1>4, <1>6, <2>1 DEF RefundInv, RefundsAreRecorded, Records
  <1>. QED BY <1>8, <1>9 DEF RefundInv

\* A recorded refund is the first of its call, and of a credit the buyer got.
LEMMA RecordKeepsRefunds ==
  ASSUME TypeOK, RefundInv, StatusIsBacked', NEW r \in RefundCalls, RecordRefund(r)
  PROVE  RefundInv'
  <1>. DEFINE adj == [source |-> r, amount |-> refunds[r].amount]
  <1>0. refunds \in [RefundCalls -> Call] /\ pushes \in [Pushes -> Push] /\ r \in Pushes
    BY DEF TypeOK, Call, Push, Pushes
  <1>1. refunds[r].pc = "credited" /\ txn' = txn
    BY DEF RecordRefund
  <1>2. adj \in Adjustment
    BY <1>0 DEF Adjustment, Call
  <1>3. adjustments' = Append(adjustments, adj)
    BY DEF RecordRefund, Adjusted
  <1>4. adj \in txn.refunds /\ \A i \in DOMAIN adjustments : ~Records(i, r)
    BY <1>1 DEF RefundInv, CallInv
  <1>5. /\ adj.source = r
        /\ refunds' = [refunds EXCEPT ![r] = [Idle EXCEPT !.pc = "pushing"]]
        /\ pushes' = [pushes EXCEPT ![r].pc = "fetching"]
    BY DEF RecordRefund, StartPush
  <1>6. refunds'[r].pc = "pushing" /\ \A q \in RefundCalls \ {r} : refunds'[q] = refunds[q]
    BY <1>0, <1>5 DEF Idle
  <1>7. \A q \in RefundCalls \ {r} : pushes'[q] = pushes[q]
    BY <1>0, <1>5 DEF Pushes
  <1>. HIDE DEF adj
  <1>8. \A i \in DOMAIN adjustments' :
          \/ i \in DOMAIN adjustments /\ adjustments'[i] = adjustments[i]
          \/ i = Len(adjustments) + 1 /\ i \notin DOMAIN adjustments /\ adjustments'[i] = adj
    BY <1>2, <1>3, OneMoreAdjustment
  <1>9. /\ \A i \in DOMAIN adjustments : i \in DOMAIN adjustments' /\ adjustments'[i] = adjustments[i]
        /\ Len(adjustments) + 1 \in DOMAIN adjustments'
        /\ adjustments'[Len(adjustments) + 1] = adj
    BY <1>2, <1>3, AdjustmentsStay
  <1>10. CallInv'
    <2>1. ASSUME NEW q \in RefundCalls, q # r
          PROVE  /\ refunds'[q].pc = "credited" =>
                      /\ [source |-> q, amount |-> refunds'[q].amount] \in txn'.refunds
                      /\ refunds'[q].result \in {"partially_refunded", "refunded"}
                      /\ refunds'[q].result = "refunded" => txn'.refunded = Total
                      /\ txn'.refunded > 0
                 /\ refunds'[q].pc \in {"idle", "asking", "credited"} =>
                      \A i \in DOMAIN adjustments' : ~Records(i, q)'
                 /\ pushes'[q].pc \in {"fetching", "posted"} => refunds'[q].pc = "pushing"
      BY <1>1, <1>5, <1>6, <1>7, <1>8, <2>1 DEF RefundInv, CallInv, Records
    <2>. QED BY <1>6, <2>1 DEF CallInv
  <1>11. \A i \in DOMAIN adjustments' : adjustments'[i].source \in RefundCalls =>
           adjustments'[i] \in txn'.refunds
    BY <1>1, <1>4, <1>8 DEF RefundInv, RefundsAreRecorded
  <1>12. \A i, j \in DOMAIN adjustments' :
           adjustments'[i].source = adjustments'[j].source /\ adjustments'[i].source \in RefundCalls
           => i = j
    BY <1>4, <1>5, <1>8 DEF RefundInv, RefundsAreRecorded, Records
  <1>13. \A q \in RefundCalls : refunds'[q].pc \in {"pushing", "answered"} =>
           \E i \in DOMAIN adjustments' : adjustments'[i].source = q
    <2>1. \E i \in DOMAIN adjustments' : adjustments'[i].source = r
      BY <1>5, <1>9
    <2>2. ASSUME NEW q \in RefundCalls \ {r}, refunds'[q].pc \in {"pushing", "answered"}
          PROVE  \E i \in DOMAIN adjustments' : adjustments'[i].source = q
      <3>1. PICK i \in DOMAIN adjustments : Records(i, q)
        BY <1>6, <2>2 DEF RefundInv, RefundsAreRecorded
      <3>. QED BY <1>9, <3>1 DEF Records
    <2>. QED BY <2>1, <2>2
  <1>. QED BY <1>10, <1>11, <1>12, <1>13 DEF RefundInv, RefundsAreRecorded, Records

\* A dispute is an adjustment of no refund call.
LEMMA DisputeKeepsRefunds ==
  ASSUME TypeOK, RefundInv, StatusIsBacked', FileDispute
  PROVE  RefundInv'
  <1>. DEFINE adj == [source |-> "buyer", amount |-> 0]
  <1>1. adj \in Adjustment /\ adj.source = "buyer" /\ "buyer" \notin RefundCalls
    BY OrdersAssumption DEF Adjustment
  <1>2. adjustments' = Append(adjustments, adj) /\ UNCHANGED <<refunds, pushes, txn>>
    BY DEF FileDispute
  <1>. HIDE DEF adj
  <1>3. \A i \in DOMAIN adjustments' :
          \/ i \in DOMAIN adjustments /\ adjustments'[i] = adjustments[i]
          \/ i \notin DOMAIN adjustments /\ adjustments'[i] = adj
    BY <1>1, <1>2, OneMoreAdjustment
  <1>4. \A i \in DOMAIN adjustments : i \in DOMAIN adjustments' /\ adjustments'[i] = adjustments[i]
    BY <1>1, <1>2, AdjustmentsStay
  <1>5. CallInv'
    BY <1>1, <1>2, <1>3 DEF RefundInv, CallInv, Records
  <1>6. RefundsAreRecorded'
    <2>1. \A q \in RefundCalls : refunds'[q].pc \in {"pushing", "answered"} =>
            \E i \in DOMAIN adjustments' : adjustments'[i].source = q
      BY <1>2, <1>4 DEF RefundInv, RefundsAreRecorded, Records
    <2>. QED BY <1>1, <1>2, <1>3, <2>1 DEF RefundInv, RefundsAreRecorded, Records
  <1>. QED BY <1>5, <1>6 DEF RefundInv

\* The end of a webhook answers the call that waits for it, if one does.
LEMMA WebhookKeepsRefunds ==
  ASSUME TypeOK, RefundInv, StatusIsBacked', NEW p \in Pushes, Webhook(p)
  PROVE  RefundInv'
  <1>1. /\ refunds \in [RefundCalls -> Call] /\ pushes \in [Pushes -> Push]
        /\ RefundCalls \subseteq Pushes
    BY DEF TypeOK, Call, Push, Pushes
  <1>2. UNCHANGED <<adjustments, txn>> /\ pushes[p].pc \in Pushing
    BY DEF Webhook, PostWebhook, ReceiveWebhook, RejectWebhook, LoseWebhook, Pushing
  <1>3. CASE PostWebhook(p)
    <2>1. \A r \in RefundCalls :
            refunds'[r] = refunds[r] /\ (pushes'[r].pc \in Pushing => pushes[r].pc \in Pushing)
      BY <1>1, <1>2, <1>3 DEF PostWebhook
    <2>. QED BY <1>2, <2>1, QuietStep
  <1>4. ASSUME NEW outcome \in {"answered", "failed"}, EndPush(p, outcome) PROVE RefundInv'
    <2>1. pushes' = [pushes EXCEPT ![p].pc = "ended"]
      BY <1>4 DEF EndPush
    <2>2. \A r \in RefundCalls \ {p} :
            refunds'[r] = refunds[r] /\ (pushes'[r].pc \in Pushing => pushes[r].pc \in Pushing)
      BY <1>1, <1>4, <2>1 DEF EndPush
    <2>3. ASSUME p \in RefundCalls
          PROVE  refunds[p].pc = "pushing" /\ refunds'[p].pc = outcome /\ pushes'[p].pc = "ended"
      <3>1. refunds[p].pc = "pushing"
        BY <1>2, <2>3 DEF RefundInv, CallInv, Pushing
      <3>2. refunds' = [refunds EXCEPT ![p].pc = outcome]
        BY <1>4, <2>3 DEF EndPush
      <3>. QED BY <1>1, <2>1, <2>3, <3>1, <3>2
    <2>. QED BY <1>2, <1>4, <2>2, <2>3, QuietStep DEF Pushing
  <1>. QED BY <1>3, <1>4 DEF Webhook, ReceiveWebhook, RejectWebhook, LoseWebhook

\* RefundInv is inductive.
LEMMA RefundStep == TypeOK /\ RefundInv /\ [Next]_vars => RefundInv'
  <1>. SUFFICES ASSUME TypeOK, RefundInv, [Next]_vars PROVE RefundInv'
    OBVIOUS
  <1>1. StatusIsBacked'
    BY BackedStep
  <1>2. /\ txn.refunds \subseteq txn'.refunds
        /\ txn.refunded > 0 => txn'.refunded > 0
        /\ txn.refunded = Total => txn'.refunded = Total
    BY CreditSteps
  <1>3. refunds \in [RefundCalls -> Call] /\ pushes \in [Pushes -> Push]
    BY DEF TypeOK, Call, Push
  <1>4. CASE /\ UNCHANGED <<adjustments, refunds>>
             /\ \A r \in RefundCalls : pushes'[r] = pushes[r]
    BY <1>1, <1>2, <1>4, QuietStep
  <1>5. ASSUME NEW p \in {"shipped", "delivered"}, StartPush(p)
        PROVE  \A r \in RefundCalls : pushes'[r] = pushes[r]
    BY <1>3, <1>5, OrdersAssumption DEF StartPush, Pushes
  <1>6. CASE AutoShip \/ PortalShip \/ Deliver
    BY <1>4, <1>5, <1>6 DEF AutoShip, PortalShip, Ship, Deliver
  <1>7. CASE FileDispute
    BY <1>1, <1>7, DisputeKeepsRefunds
  <1>8. ASSUME NEW r \in RefundCalls, Refund(r) PROVE RefundInv'
    <2>1. ASSUME NEW asked \in Asked, RefundOrder(r, asked) PROVE RefundInv'
      <3>1. /\ refunds[r].pc \in Unrecorded /\ refunds'[r].pc = "asking"
            /\ \A q \in RefundCalls \ {r} : refunds'[q] = refunds[q]
            /\ UNCHANGED <<adjustments, pushes>>
        BY <1>3, <2>1 DEF RefundOrder, Unrecorded
      <3>. QED BY <1>1, <1>2, <3>1, QuietStep
    <2>2. CASE RefundFails(r)
      <3>1. /\ refunds[r].pc \in Unrecorded /\ refunds'[r].pc = "failed"
            /\ \A q \in RefundCalls \ {r} : refunds'[q] = refunds[q]
            /\ UNCHANGED <<adjustments, pushes>>
        BY <1>3, <2>2 DEF RefundFails, Unrecorded, Idle
      <3>. QED BY <1>1, <1>2, <3>1, QuietStep
    <2>3. CASE RefundPayment(r)
      BY <1>1, <2>3, PaymentKeepsRefunds
    <2>4. CASE RecordRefund(r)
      BY <1>1, <2>4, RecordKeepsRefunds
    <2>. QED BY <1>8, <2>1, <2>2, <2>3, <2>4 DEF Refund
  <1>9. ASSUME NEW p \in Pushes, Webhook(p) PROVE RefundInv'
    BY <1>1, <1>9, WebhookKeepsRefunds
  <1>10. ASSUME NEW amount \in 1..Total, DashboardRefund(amount) PROVE RefundInv'
    BY <1>4, <1>10 DEF DashboardRefund
  <1>11. CASE UNCHANGED vars
    BY <1>4, <1>11 DEF vars
  <1>. QED BY <1>6, <1>7, <1>8, <1>9, <1>10, <1>11 DEF Next

\* At the start nothing is refunded.
LEMMA RefundInit == Init => RefundInv
  BY DEF Init, RefundInv, CallInv, RefundsAreRecorded, StatusIsBacked, Idle, NoPush, Pushes

\* The order's refund adjustments are the provider's credits, each recorded once.
THEOREM RefundsMatchProvider == Spec => []RefundsAreRecorded
  <1>1. RefundInv => RefundsAreRecorded
    BY DEF RefundInv
  <1>. QED BY <1>1, TypeInit, TypeStep, RefundInit, RefundStep, PTL DEF Spec

\* An order shown as refunded was refunded.
THEOREM RefundedIsRefunded == Spec => []StatusIsBacked
  <1>1. RefundInv => StatusIsBacked
    BY DEF RefundInv
  <1>. QED BY <1>1, TypeInit, TypeStep, RefundInit, RefundStep, PTL DEF Spec

-----------------------------------------------------------------------------
(***************************************************************************)
(* Webhooks.                                                               *)
(***************************************************************************)
\* Bodies are the order as it was, and the numbers in the keys are their lengths.
PushInv ==
  /\ IsPrefix(shipped.events, events) /\ IsPrefix(shipped.adjustments, adjustments)
  /\ \A p \in Pushes :
       /\ IsPrefix(pushes[p].body.events, events)
       /\ IsPrefix(pushes[p].body.adjustments, adjustments)
       /\ pushes[p].key.events = Len(pushes[p].body.events)
       /\ pushes[p].key.adjustments = Len(pushes[p].body.adjustments)

\* The order only grows.
LEMMA OrderGrows ==
  ASSUME TypeOK, [Next]_vars
  PROVE  /\ \A s \in Seq({"shipped", "delivered"}) : IsPrefix(s, events) => IsPrefix(s, events')
         /\ \A s \in Seq(Adjustment) : IsPrefix(s, adjustments) => IsPrefix(s, adjustments')
  <1>1. events \in Seq({"shipped", "delivered"}) /\ adjustments \in Seq(Adjustment)
    BY DEF TypeOK
  <1>2. \/ events' = events
        \/ \E x \in {"shipped", "delivered"} : events' = Append(events, x)
    BY StatusSteps DEF Ship, Deliver, FileDispute, RecordRefund
  <1>3. \/ adjustments' = adjustments
        \/ \E x \in Adjustment : adjustments' = Append(adjustments, x)
    <2>1. ASSUME NEW r \in RefundCalls, RecordRefund(r)
          PROVE  \E x \in Adjustment : adjustments' = Append(adjustments, x)
      <3>1. [source |-> r, amount |-> refunds[r].amount] \in Adjustment
        BY DEF TypeOK, Adjustment
      <3>. QED BY <2>1, <3>1 DEF RecordRefund, Adjusted
    <2>2. [source |-> "buyer", amount |-> 0] \in Adjustment
      BY OrdersAssumption DEF Adjustment
    <2>. QED BY <2>1, <2>2, StatusSteps DEF Ship, Deliver, FileDispute
  <1>. QED BY <1>1, <1>2, <1>3, PrefixOfAppend

\* PushInv is inductive.
LEMMA PushStep == TypeOK /\ PushInv /\ [Next]_vars => PushInv'
  <1>. SUFFICES ASSUME TypeOK, PushInv, [Next]_vars PROVE PushInv'
    OBVIOUS
  <1>1. /\ \A s \in Seq({"shipped", "delivered"}) : IsPrefix(s, events) => IsPrefix(s, events')
        /\ \A s \in Seq(Adjustment) : IsPrefix(s, adjustments) => IsPrefix(s, adjustments')
    BY OrderGrows
  <1>2. /\ shipped \in Body /\ pushes \in [Pushes -> Push]
        /\ events \in Seq({"shipped", "delivered"}) /\ adjustments \in Seq(Adjustment)
    BY DEF TypeOK, Push
  <1>3. \A p \in Pushes : pushes[p].body \in Body
    BY <1>2 DEF Push
  <1>4. CASE /\ shipped' = shipped \/ \E p \in Pushes : shipped' = pushes[p].body
             /\ \A p \in Pushes : pushes'[p].body = pushes[p].body /\ pushes'[p].key = pushes[p].key
    <2>1. \A b \in Body : IsPrefix(b.events, events) /\ IsPrefix(b.adjustments, adjustments)
            => IsPrefix(b.events, events') /\ IsPrefix(b.adjustments, adjustments')
      BY <1>1 DEF Body
    <2>. QED BY <1>2, <1>3, <1>4, <2>1 DEF PushInv
  <1>5. ASSUME NEW p \in Pushes, StartPush(p)
        PROVE  \A q \in Pushes : pushes'[q].body = pushes[q].body /\ pushes'[q].key = pushes[q].key
    BY <1>2, <1>5 DEF StartPush, Push
  <1>6. ASSUME NEW p \in Pushes, pushes' = [pushes EXCEPT ![p].pc = "ended"]
        PROVE  \A q \in Pushes : pushes'[q].body = pushes[q].body /\ pushes'[q].key = pushes[q].key
    BY <1>2, <1>6 DEF Push
  <1>7. CASE AutoShip \/ PortalShip \/ Deliver
    BY <1>4, <1>5, <1>7 DEF AutoShip, PortalShip, Ship, Deliver, Pushes
  <1>8. CASE FileDispute
    BY <1>4, <1>8 DEF FileDispute
  <1>9. ASSUME NEW r \in RefundCalls, Refund(r) PROVE PushInv'
    BY <1>4, <1>5, <1>9 DEF Refund, RefundOrder, RefundPayment, RefundFails, RecordRefund, Pushes
  <1>10. ASSUME NEW p \in Pushes, PostWebhook(p) PROVE PushInv'
    <2>1. /\ pushes' = [pushes EXCEPT ![p] =
               [pc |-> "posted", key |-> KeyOf(p),
                body |-> [events |-> events, adjustments |-> adjustments]]]
          /\ UNCHANGED <<events, adjustments, shipped>>
      BY <1>10 DEF PostWebhook
    <2>2. /\ pushes'[p].body = [events |-> events, adjustments |-> adjustments]
          /\ pushes'[p].key.events = Len(events)
          /\ pushes'[p].key.adjustments = Len(adjustments)
      BY <1>2, <2>1 DEF KeyOf
    <2>3. \A q \in Pushes \ {p} : pushes'[q] = pushes[q]
      BY <1>2, <2>1
    <2>4. IsPrefix(events, events) /\ IsPrefix(adjustments, adjustments)
      BY <1>2, PrefixOfItself
    <2>. QED BY <2>1, <2>2, <2>3, <2>4 DEF PushInv
  <1>11. ASSUME NEW p \in Pushes, ReceiveWebhook(p) \/ RejectWebhook(p) \/ LoseWebhook(p)
         PROVE  PushInv'
    BY <1>4, <1>6, <1>11 DEF ReceiveWebhook, RejectWebhook, LoseWebhook, EndPush
  <1>12. ASSUME NEW amount \in 1..Total, DashboardRefund(amount) PROVE PushInv'
    BY <1>4, <1>12 DEF DashboardRefund
  <1>13. CASE UNCHANGED vars
    BY <1>4, <1>13 DEF vars
  <1>. QED BY <1>7, <1>8, <1>9, <1>10, <1>11, <1>12, <1>13 DEF Next, Webhook

\* At the start nothing was pushed.
LEMMA PushInit == Init => PushInv
  <1>. SUFFICES ASSUME Init PROVE PushInv
    OBVIOUS
  <1>1. IsPrefix(<<>>, events) /\ IsPrefix(<<>>, adjustments)
    BY TypeInit, EmptyPrefix DEF TypeOK
  <1>. QED BY <1>1 DEF Init, PushInv, NoPush, NoKey, NoBody

\* The agent's copy is the order as it once was.
THEOREM CopyIsOfThePast == Spec => []CopyIsPast
  <1>1. PushInv => CopyIsPast
    BY DEF PushInv, CopyIsPast
  <1>. QED BY <1>1, TypeInit, TypeStep, PushInit, PushStep, PTL DEF Spec

\* Webhooks under one idempotency key carry the same order.
THEOREM KeysIdentifyBodies == Spec => []KeyIdentifiesBody
  <1>1. TypeOK /\ PushInv => KeyIdentifiesBody
    <2>. SUFFICES ASSUME TypeOK, PushInv, NEW p \in Pushes, NEW q \in Pushes,
                         pushes[p].key = pushes[q].key
         PROVE  pushes[p].body = pushes[q].body
      BY DEF KeyIdentifiesBody
    <2>1. /\ pushes[p].body \in Body /\ pushes[q].body \in Body
          /\ events \in Seq({"shipped", "delivered"}) /\ adjustments \in Seq(Adjustment)
      BY DEF TypeOK
    <2>2. ASSUME NEW b \in Body, NEW c \in Body,
                 IsPrefix(b.events, events), IsPrefix(b.adjustments, adjustments),
                 IsPrefix(c.events, events), IsPrefix(c.adjustments, adjustments),
                 Len(b.events) = Len(c.events), Len(b.adjustments) = Len(c.adjustments)
          PROVE  b = c
      <3>1. /\ b.events \in Seq({"shipped", "delivered"}) /\ b.adjustments \in Seq(Adjustment)
            /\ c.events \in Seq({"shipped", "delivered"}) /\ c.adjustments \in Seq(Adjustment)
        BY DEF Body
      <3>2. b.events = c.events
        BY <2>1, <2>2, <3>1, PrefixesByLength
      <3>3. b.adjustments = c.adjustments
        BY <2>1, <2>2, <3>1, PrefixesByLength
      <3>. QED BY <3>2, <3>3 DEF Body
    <2>3. /\ IsPrefix(pushes[p].body.events, events)
          /\ IsPrefix(pushes[p].body.adjustments, adjustments)
          /\ IsPrefix(pushes[q].body.events, events)
          /\ IsPrefix(pushes[q].body.adjustments, adjustments)
      BY DEF PushInv
    <2>4. /\ Len(pushes[p].body.events) = Len(pushes[q].body.events)
          /\ Len(pushes[p].body.adjustments) = Len(pushes[q].body.adjustments)
      BY DEF PushInv
    <2>. QED BY <2>1, <2>2, <2>3, <2>4
  <1>. QED BY <1>1, TypeInit, TypeStep, PushInit, PushStep, PTL DEF Spec
-----------------------------------------------------------------------------
(***************************************************************************)
(* The promise of OrderBook.  The provider's total is the sum of its       *)
(* credits, which are of different sources.                                *)
(***************************************************************************)
BooksInv ==
  /\ IsFiniteSet(txn.refunds)
  /\ txn.refunded = Book!GivenBack(txn.refunds)
  /\ \A r \in RefundCalls : refunds[r].pc \in {"idle", "asking"} =>
       \A c \in txn.refunds : c.source # r

LEMMA BookSums == \A f, S : Book!SumFunctionOnSet(f, S) = SumFunctionOnSet(f, S)
  BY DEF Book!SumFunctionOnSet, SumFunctionOnSet, Book!FoldFunctionOnSet, FoldFunctionOnSet,
         Book!MapThenFoldSet, MapThenFoldSet

\* One more credit raises what is given back by its amount.
LEMMA OneMoreCredit ==
  ASSUME TypeOK, IsFiniteSet(txn.refunds), NEW credit \in Credit, credit \notin txn.refunds
  PROVE  /\ IsFiniteSet(txn.refunds \cup {credit})
         /\ Book!GivenBack(txn.refunds \cup {credit})
              = Book!GivenBack(txn.refunds) + credit.amount
  <1>. DEFINE S == txn.refunds
              f == [c \in S |-> c.amount]
              g == [c \in S \cup {credit} |-> c.amount]
  <1>1. /\ IsFiniteSet(S) /\ credit \notin S
        /\ \A c \in S \cup {credit} : g[c] \in Nat /\ g[c] = c.amount
        /\ \A c \in S : f[c] = g[c] /\ f[c] \in Nat
    BY OrdersAssumption DEF TypeOK, Credit
  <1>2. Book!GivenBack(S) = SumFunctionOnSet(f, S)
    BY BookSums DEF Book!GivenBack
  <1>3. Book!GivenBack(S \cup {credit}) = SumFunctionOnSet(g, S \cup {credit})
    BY BookSums DEF Book!GivenBack
  <1>4. g[credit] = credit.amount /\ credit.amount \in Nat
    BY <1>1
  <1>. HIDE DEF f, g, S
  <1>5. SumFunctionOnSet(g, S \cup {credit}) = g[credit] + SumFunctionOnSet(g, S)
    BY <1>1, SumAdd
  <1>6. SumFunctionOnSet(f, S) = SumFunctionOnSet(g, S) /\ SumFunctionOnSet(f, S) \in Nat
    BY <1>1, SumSame, SumNat
  <1>7. IsFiniteSet(S \cup {credit})
    BY <1>1, FS_AddElement
  <1>8. Book!GivenBack(S \cup {credit}) = Book!GivenBack(S) + credit.amount
    BY <1>2, <1>3, <1>4, <1>5, <1>6
  <1>. QED BY <1>7, <1>8 DEF S

\* A refund at the provider is a credit of OrderBook.
LEMMA RefundIsCredit ==
  ASSUME TypeOK, BooksInv, NEW source \in RefundCalls \cup {"psp_dashboard"}, NEW amount \in Int,
         Refundable(amount), CreditBuyer(source, amount),
         \A c \in txn.refunds : c.source # source
  PROVE  /\ IsFiniteSet(txn'.refunds) /\ txn'.refunded = Book!GivenBack(txn'.refunds)
         /\ amount \in 1..Total
         /\ txn'.refunds = txn.refunds \cup {[source |-> source, amount |-> amount]}
         /\ Book!GivenBack(txn.refunds) + amount <= Total
  <1>. DEFINE credit == [source |-> source, amount |-> amount]
  <1>1. /\ txn'.refunds = txn.refunds \cup {credit} /\ amount \in 1..Total
        /\ txn'.refunded = txn.refunded + amount
    BY CreditTyped
  <1>2. credit \in Credit /\ credit \notin txn.refunds /\ credit.amount = amount
    BY <1>1 DEF Credit
  <1>. HIDE DEF credit
  <1>3. /\ IsFiniteSet(txn.refunds \cup {credit})
        /\ Book!GivenBack(txn.refunds \cup {credit})
             = Book!GivenBack(txn.refunds) + credit.amount
    BY <1>2, OneMoreCredit DEF BooksInv
  <1>4. txn.refunded = Book!GivenBack(txn.refunds) /\ txn.refunded + amount <= Total
    BY DEF BooksInv, Refundable
  <1>. QED BY <1>1, <1>2, <1>3, <1>4 DEF credit

\* A step of Orders keeps BooksInv.
LEMMA BooksStep == TypeOK /\ BooksInv /\ [Next]_vars => BooksInv'
  <1>. SUFFICES ASSUME TypeOK, BooksInv, [Next]_vars PROVE BooksInv'
    OBVIOUS
  <1>1. refunds \in [RefundCalls -> Call]
    BY DEF TypeOK, Call
  <1>2. CASE /\ txn' = txn
             /\ \A r \in RefundCalls : refunds'[r].pc \in {"idle", "asking"} =>
                                       refunds[r].pc \in {"idle", "asking"}
    BY <1>2 DEF BooksInv
  <1>3. ASSUME NEW r \in RefundCalls, RefundPayment(r) PROVE BooksInv'
    <2>. DEFINE amount == AmountOf(refunds[r].asked)
    <2>1. amount \in Int
      BY <1>1, OrdersAssumption DEF AmountOf, Call, Asked, Rest, TypeOK
    <2>2. /\ Refundable(amount) /\ CreditBuyer(r, amount) /\ refunds[r].pc = "asking"
          /\ refunds' = [refunds EXCEPT ![r] =
               [pc |-> "credited", asked |-> Rest, amount |-> amount, result |-> TxnStatus']]
      BY <1>3 DEF RefundPayment
    <2>. HIDE DEF amount
    <2>3. \A c \in txn.refunds : c.source # r
      BY <2>2 DEF BooksInv
    <2>4. /\ IsFiniteSet(txn'.refunds) /\ txn'.refunded = Book!GivenBack(txn'.refunds)
          /\ txn'.refunds = txn.refunds \cup {[source |-> r, amount |-> amount]}
      BY <2>1, <2>2, <2>3, RefundIsCredit
    <2>5. refunds'[r].pc = "credited" /\ \A q \in RefundCalls \ {r} : refunds'[q] = refunds[q]
      BY <1>1, <2>2
    <2>6. \A q \in RefundCalls : refunds'[q].pc \in {"idle", "asking"} =>
            \A c \in txn'.refunds : c.source # q
      BY <2>4, <2>5 DEF BooksInv
    <2>. QED BY <2>4, <2>6 DEF BooksInv
  <1>4. ASSUME NEW amount \in 1..Total, DashboardRefund(amount) PROVE BooksInv'
    <2>1. /\ Refundable(amount) /\ CreditBuyer("psp_dashboard", amount) /\ refunds' = refunds
          /\ \A c \in txn.refunds : c.source # "psp_dashboard"
      BY <1>4 DEF DashboardRefund
    <2>2. amount \in Int
      BY OrdersAssumption
    <2>3. /\ IsFiniteSet(txn'.refunds) /\ txn'.refunded = Book!GivenBack(txn'.refunds)
          /\ txn'.refunds = txn.refunds \cup {[source |-> "psp_dashboard", amount |-> amount]}
      BY <2>1, <2>2, RefundIsCredit
    <2>4. \A q \in RefundCalls : q # "psp_dashboard"
      BY OrdersAssumption
    <2>. QED BY <2>1, <2>3, <2>4 DEF BooksInv
  <1>5. ASSUME NEW r \in RefundCalls, NEW asked \in Asked, RefundOrder(r, asked) PROVE BooksInv'
    BY <1>1, <1>2, <1>5 DEF RefundOrder, Call
  <1>6. ASSUME NEW r \in RefundCalls, RefundFails(r) \/ RecordRefund(r) PROVE BooksInv'
    BY <1>1, <1>2, <1>6 DEF RefundFails, RecordRefund, Idle, Call
  <1>7. ASSUME NEW p \in Pushes, Webhook(p) PROVE BooksInv'
    BY <1>1, <1>2, <1>7
       DEF Webhook, PostWebhook, ReceiveWebhook, RejectWebhook, LoseWebhook, EndPush, Call
  <1>8. CASE AutoShip \/ PortalShip \/ Deliver \/ FileDispute \/ UNCHANGED vars
    BY <1>2, <1>8 DEF AutoShip, PortalShip, Ship, Deliver, FileDispute, vars
  <1>. QED BY <1>3, <1>4, <1>5, <1>6, <1>7, <1>8 DEF Next, Refund

LEMMA BooksInit == Init => BooksInv
  <1>. SUFFICES ASSUME Init PROVE BooksInv
    OBVIOUS
  <1>1. Book!GivenBack({}) = 0
    BY BookSums, SumEmpty DEF Book!GivenBack
  <1>. QED BY <1>1, FS_EmptySet DEF Init, BooksInv

\* Every step of Orders is a step of OrderBook, or leaves it where it is.
LEMMA BookStep ==
  TypeOK /\ LeavesOnce /\ RefundInv /\ PushInv /\ BooksInv /\ [Next]_vars
    => [Book!Next]_(Book!vars)
  <1>. SUFFICES ASSUME TypeOK, LeavesOnce, RefundInv, PushInv, BooksInv, [Next]_vars
                PROVE  [Book!Next]_(Book!vars)
    OBVIOUS
  <1>1. CASE UNCHANGED <<txn, adjustments, events, shipped>>
    BY <1>1 DEF Book!vars
  <1>2. ASSUME NEW source \in RefundCalls \cup {"psp_dashboard"}, NEW amount \in Int,
               Refundable(amount), CreditBuyer(source, amount),
               \A c \in txn.refunds : c.source # source,
               UNCHANGED <<adjustments, events, shipped>>
        PROVE  Book!Next
    <2>1. /\ amount \in 1..Total
          /\ txn'.refunds = txn.refunds \cup {[source |-> source, amount |-> amount]}
          /\ Book!GivenBack(txn.refunds) + amount <= Total
      BY <1>2, RefundIsCredit
    <2>2. Book!Credit(source, amount)
      BY <1>2, <2>1 DEF Book!Credit
    <2>. QED BY <1>2, <2>1, <2>2 DEF Book!Next
  <1>3. ASSUME NEW r \in RefundCalls, RefundPayment(r) PROVE Book!Next
    <2>1. AmountOf(refunds[r].asked) \in Int
      BY OrdersAssumption DEF AmountOf, Asked, Rest, TypeOK
    <2>2. \A c \in txn.refunds : c.source # r
      BY <1>3 DEF RefundPayment, BooksInv
    <2>. QED BY <1>2, <1>3, <2>1, <2>2 DEF RefundPayment
  <1>4. ASSUME NEW amount \in 1..Total, DashboardRefund(amount) PROVE Book!Next
    <2>1. amount \in Int
      BY OrdersAssumption
    <2>. QED BY <1>2, <1>4, <2>1 DEF DashboardRefund
  <1>5. ASSUME NEW r \in RefundCalls, RecordRefund(r) PROVE Book!Next
    <2>. DEFINE c == [source |-> r, amount |-> refunds[r].amount]
    <2>1. c \in txn.refunds /\ \A i \in DOMAIN adjustments : adjustments[i].source # r
      BY <1>5 DEF RecordRefund, RefundInv, CallInv, Records
    <2>2. adjustments' = Append(adjustments, c) /\ UNCHANGED <<txn, events, shipped>>
      BY <1>5 DEF RecordRefund, Adjusted
    <2>3. c.source = r
      OBVIOUS
    <2>. HIDE DEF c
    <2>4. Book!EnterCredit(c)
      BY <2>1, <2>2, <2>3 DEF Book!EnterCredit, Book!Enter
    <2>. QED BY <2>1, <2>4 DEF Book!Next
  <1>6. CASE FileDispute
    BY <1>6 DEF FileDispute, Book!EnterComplaint, Book!Enter, Book!Next
  <1>7. CASE Shippable /\ Ship
    <2>1. events = <<>> /\ events' = Append(events, "shipped")
          /\ UNCHANGED <<txn, adjustments, shipped>>
      BY <1>7 DEF Shippable, Ship, LeavesOnce
    <2>2. events' = <<"shipped">>
      BY <2>1
    <2>. QED BY <2>1, <2>2 DEF Book!Leave, Book!Next
  <1>8. CASE Deliver
    <2>1. events = <<"shipped">> /\ events' = Append(events, "delivered")
          /\ UNCHANGED <<txn, adjustments, shipped>>
      BY <1>8 DEF Deliver, LeavesOnce
    <2>2. events' = <<"shipped", "delivered">>
      BY <2>1, ShippedThenDelivered
    <2>. QED BY <2>1, <2>2 DEF Book!Arrive, Book!Next
  <1>9. ASSUME NEW p \in Pushes, ReceiveWebhook(p) PROVE Book!Next
    <2>. DEFINE b == pushes[p].body
                n == Len(b.events)
                m == Len(b.adjustments)
    <2>1. shipped' = b /\ UNCHANGED <<txn, adjustments, events>>
      BY <1>9 DEF ReceiveWebhook
    <2>2. b \in Body
      BY DEF TypeOK
    <2>3. IsPrefix(b.events, events) /\ IsPrefix(b.adjustments, adjustments)
      BY DEF PushInv
    <2>. HIDE DEF b
    <2>4. /\ b = [events |-> b.events, adjustments |-> b.adjustments]
          /\ b.events \in Seq({"shipped", "delivered"}) /\ b.adjustments \in Seq(Adjustment)
      BY <2>2 DEF Body
    <2>5. /\ SubSeq(b.events, 1, n) = b.events /\ SubSeq(b.adjustments, 1, m) = b.adjustments
          /\ n \in Nat /\ m \in Nat
      BY <2>4, SubSeqFull, LenProperties
    <2>6. /\ SubSeq(events, 1, n) = b.events /\ SubSeq(adjustments, 1, m) = b.adjustments
          /\ n <= Len(events) /\ m <= Len(adjustments)
      BY <2>3, <2>5 DEF IsPrefix
    <2>7. n \in 0..Len(events) /\ m \in 0..Len(adjustments)
      BY <2>5, <2>6, LenProperties DEF TypeOK
    <2>. HIDE DEF n, m
    <2>8. Book!Tell(n, m)
      BY <2>1, <2>4, <2>6 DEF Book!Tell
    <2>. QED BY <2>7, <2>8 DEF Book!Next
  <1>10. CASE AutoShip
    BY <1>1, <1>7, <1>10 DEF AutoShip
  <1>11. CASE PortalShip
    BY <1>7, <1>11 DEF PortalShip
  <1>12. ASSUME NEW r \in RefundCalls, Refund(r) PROVE [Book!Next]_(Book!vars)
    BY <1>1, <1>3, <1>5, <1>12 DEF Refund, RefundOrder, RefundFails
  <1>13. ASSUME NEW p \in Pushes, Webhook(p) PROVE [Book!Next]_(Book!vars)
    BY <1>1, <1>9, <1>13 DEF Webhook, PostWebhook, RejectWebhook, LoseWebhook
  <1>14. CASE UNCHANGED vars
    BY <1>1, <1>14 DEF vars
  <1>. QED BY <1>4, <1>6, <1>8, <1>10, <1>11, <1>12, <1>13, <1>14 DEF Next

\* An order keeps the promise of OrderBook, for every number of refund calls, every total
\* and however webhooks, timers and answers interleave.
THEOREM OrderKeepsBooks == Spec => KeepsBooks
  <1>1. Init => Book!Init
    BY DEF Init, NoBody, Book!Init
  <1>2. Init => TypeOK /\ LeavesOnce /\ RefundInv /\ PushInv /\ BooksInv
    BY TypeInit, RefundInit, PushInit, BooksInit DEF Init, LeavesOnce
  <1>3. TypeOK /\ LeavesOnce /\ RefundInv /\ PushInv /\ BooksInv /\ [Next]_vars
          => (TypeOK /\ LeavesOnce /\ RefundInv /\ PushInv /\ BooksInv)'
    BY TypeStep, LeavesStep, RefundStep, PushStep, BooksStep
  <1>. QED BY <1>1, <1>2, <1>3, BookStep, PTL DEF Spec, KeepsBooks, Book!Spec
=============================================================================
