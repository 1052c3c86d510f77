----------------------- MODULE PaymentProvider_proofs -----------------------
(***************************************************************************)
(* Proofs about PaymentProvider, for every set of calls, agents and open   *)
(* mandates and every limit.                                               *)
(***************************************************************************)
EXTENDS PaymentProvider, Sums, FiniteSetTheorems, TLAPS

\* A request nobody made yet is a request.
LEMMA NoRequestIsRequest == NoRequest \in Request
  BY PspAssumption DEF NoRequest, Request

\* The record of a registered agent is one, and its score an integer.
LEMMA RecordTyped ==
  ASSUME TypeOK, NEW a \in Registered
  PROVE  /\ agentRegistry[a] \in [status: {"active", "suspended"}, reputation: 0..100]
         /\ agentRegistry[a].reputation \in Int
  <1>1. agentRegistry \in [Registered -> [status: {"active", "suspended"}, reputation: 0..100]]
    BY DEF TypeOK
  <1>2. agentRegistry[a] \in [status: {"active", "suspended"}, reputation: 0..100]
    BY <1>1
  <1>3. agentRegistry[a].reputation \in 0..100
    BY <1>2
  <1>. QED BY <1>2, <1>3

\* A reputation event keeps the registry well typed.
LEMMA ReputationTyped ==
  ASSUME TypeOK, NEW a \in Agents, NEW delta \in Int, ReputationEvent(a, delta)
  PROVE  agentRegistry' \in [Registered -> [status: {"active", "suspended"}, reputation: 0..100]]
  <1>1. \A n \in Int : Clamp(n) \in 0..100
    BY DEF Clamp
  <1>2. CASE a \in Registered
    <2>1. agentRegistry[a].reputation + delta \in Int
      BY <1>2, RecordTyped
    <2>2. Clamp(agentRegistry[a].reputation + delta) \in 0..100
      BY <1>1, <2>1
    <2>. QED BY <1>2, <2>2 DEF ReputationEvent, TypeOK
  <1>3. CASE a \notin Registered
    BY <1>3 DEF ReputationEvent, TypeOK
  <1>. QED BY <1>2, <1>3

\* A call that goes on, with a request of its own, is well typed.
LEMMA CallTyped ==
  ASSUME TypeOK, NEW c \in Calls, NEW req \in Request,
         NEW pc \in {"idle", "releasing", "refused", "answered"},
         \/ calls' = [calls EXCEPT ![c].pc = pc, ![c].req = req]
         \/ calls' = [calls EXCEPT ![c].pc = pc]
         \/ calls' = [calls EXCEPT ![c] = [pc |-> pc, req |-> req, at |-> now]]
  PROVE  calls' \in [Calls -> Call]
  <1>1. calls[c] \in Call /\ calls \in [Calls -> Call] /\ now \in Nat
    BY DEF TypeOK
  <1>2. /\ [calls[c] EXCEPT !.pc = pc, !.req = req] \in Call
        /\ [calls[c] EXCEPT !.pc = pc] \in Call
        /\ [pc |-> pc, req |-> req, at |-> now] \in Call
    BY <1>1 DEF Call
  <1>3. \/ calls' = [calls EXCEPT ![c] = [calls[c] EXCEPT !.pc = pc, !.req = req]]
        \/ calls' = [calls EXCEPT ![c] = [calls[c] EXCEPT !.pc = pc]]
        \/ calls' = [calls EXCEPT ![c] = [pc |-> pc, req |-> req, at |-> now]]
    OBVIOUS
  <1>. QED BY <1>1, <1>2, <1>3

\* The request of a call is one, with an agent and an amount.
LEMMA RequestTyped ==
  ASSUME TypeOK, NEW c \in Calls
  PROVE  /\ calls[c].req \in Request
         /\ calls[c].req.agent \in Agents
         /\ calls[c].req.amount \in Nat
  BY PspAssumption DEF TypeOK, Call, Request

\* Counting an occurrence keeps the ledger well typed.
LEMMA LedgerTyped ==
  ASSUME TypeOK, NEW req \in Request, CountOccurrence(req)
  PROVE  openMandateLedger' \in [OpenMandates -> [count: Nat, spent: Nat]]
  <1>1. req.amount \in Nat
    BY PspAssumption DEF Request
  <1>2. CASE req.open = NoOpen
    BY <1>2 DEF CountOccurrence, TypeOK
  <1>3. CASE req.open # NoOpen
    <2>1. req.open \in OpenMandates
      BY <1>3 DEF Request
    <2>. DEFINE row == openMandateLedger[req.open]
    <2>2. row.count \in Nat /\ row.spent \in Nat
      BY <2>1 DEF TypeOK
    <2>3. [count |-> row.count + 1, spent |-> row.spent + req.amount] \in [count: Nat, spent: Nat]
      BY <1>1, <2>2
    <2>4. openMandateLedger' = [openMandateLedger EXCEPT ![req.open] =
             [count |-> row.count + 1, spent |-> row.spent + req.amount]]
      BY <1>3 DEF CountOccurrence
    <2>. HIDE DEF row
    <2>. QED BY <2>3, <2>4 DEF TypeOK
  <1>. QED BY <1>2, <1>3

\* Every step of the provider keeps the types of its state.
LEMMA TypeStep == TypeOK /\ [Next]_vars => TypeOK'
  <1>. SUFFICES ASSUME TypeOK, [Next]_vars PROVE TypeOK'
    OBVIOUS
  <1>. USE PspAssumption
  <1>1. ASSUME NEW c \in Calls, NEW req \in Request, RefuseUntrusted(c, req) PROVE TypeOK'
    <2>1. calls' \in [Calls -> Call]
      BY <1>1, CallTyped DEF RefuseUntrusted
    <2>. QED BY <1>1, <2>1 DEF RefuseUntrusted, TypeOK
  <1>2. ASSUME NEW c \in Calls, NEW req \in Request, RefuseVelocity(c, req) PROVE TypeOK'
    <2>1. agentRegistry' \in [Registered -> [status: {"active", "suspended"}, reputation: 0..100]]
      BY <1>2, ReputationTyped DEF RefuseVelocity, Request
    <2>2. calls' \in [Calls -> Call]
      BY <1>2, CallTyped DEF RefuseVelocity
    <2>3. velocityLog' \in [Agents -> SUBSET Calls]
      BY <1>2 DEF RefuseVelocity, TypeOK, Recent
    <2>. QED BY <1>2, <2>1, <2>2, <2>3 DEF RefuseVelocity, TypeOK
  <1>3. ASSUME NEW c \in Calls, NEW req \in Request, NEW ok \in BOOLEAN, Admit(c, req, ok)
        PROVE TypeOK'
    <2>1. calls' \in [Calls -> Call]
      BY <1>3, CallTyped DEF Admit
    <2>2. velocityLog' \in [Agents -> SUBSET Calls]
      BY <1>3 DEF Admit, TypeOK, Recent
    <2>. QED BY <1>3, <2>1, <2>2 DEF Admit, TypeOK
  <1>4. ASSUME NEW c \in Calls, ReleaseFailed(c) \/ ConstraintFailed(c) PROVE TypeOK'
    <2>1. calls' \in [Calls -> Call]
      BY <1>4, CallTyped, RequestTyped DEF ReleaseFailed, ConstraintFailed
    <2>. QED BY <1>4, <2>1 DEF ReleaseFailed, ConstraintFailed, TypeOK
  <1>5. ASSUME NEW c \in Calls, NEW cap \in Caps, OverCap(c, cap) PROVE TypeOK'
    <2>1. calls[c].req \in Request /\ calls[c].req.agent \in Agents
      BY RequestTyped
    <2>2. agentRegistry' \in [Registered -> [status: {"active", "suspended"}, reputation: 0..100]]
      BY <1>5, <2>1, ReputationTyped DEF OverCap
    <2>3. openMandateLedger' \in [OpenMandates -> [count: Nat, spent: Nat]]
      BY LedgerTyped, <1>5, <2>1 DEF OverCap
    <2>4. calls' \in [Calls -> Call]
      BY <1>5, <2>1, CallTyped DEF OverCap
    <2>. QED BY <1>5, <2>2, <2>3, <2>4 DEF OverCap, TypeOK
  <1>6. ASSUME NEW c \in Calls, NEW cap \in Caps, NEW behavior \in {"ok", "challenge", "decline"},
               Settle(c, behavior, cap)
        PROVE TypeOK'
    <2>1. calls[c].req \in Request /\ calls[c].req.agent \in Agents
      BY RequestTyped
    <2>2. agentRegistry' \in [Registered -> [status: {"active", "suspended"}, reputation: 0..100]]
      BY <1>6, <2>1, ReputationTyped DEF Settle
    <2>3. openMandateLedger' \in [OpenMandates -> [count: Nat, spent: Nat]]
      BY LedgerTyped, <1>6, <2>1 DEF Settle
    <2>4. txns' \in [Calls -> [status: TxnStatus, refunded: Nat]]
      BY <1>6 DEF Settle, TypeOK, TxnStatus, Outcome
    <2>5. calls' \in [Calls -> Call]
      BY <1>6, <2>1, CallTyped DEF Settle, Answer
    <2>. QED BY <1>6, <2>2, <2>3, <2>4, <2>5 DEF Settle, TypeOK
  <1>7. ASSUME NEW c \in Calls, CapturePayment(c) PROVE TypeOK'
    <2>1. calls[c].req.agent \in Agents
      BY RequestTyped
    <2>2. agentRegistry' \in [Registered -> [status: {"active", "suspended"}, reputation: 0..100]]
      BY <1>7, <2>1, ReputationTyped DEF CapturePayment
    <2>3. txns' \in [Calls -> [status: TxnStatus, refunded: Nat]]
      BY <1>7 DEF CapturePayment, TypeOK, TxnStatus
    <2>. QED BY <1>7, <2>2, <2>3 DEF CapturePayment, TypeOK
  <1>8. ASSUME NEW c \in Calls, NEW amount \in 0..(calls[c].req.amount + 1),
               RefundPayment(c, amount)
        PROVE TypeOK'
    <2>1. calls[c].req.amount \in Nat
      BY RequestTyped
    <2>2. txns' \in [Calls -> [status: TxnStatus, refunded: Nat]]
      BY <1>8, <2>1 DEF RefundPayment, TypeOK, TxnStatus
    <2>. QED BY <1>8, <2>2 DEF RefundPayment, TypeOK
  <1>9. ASSUME NEW a \in Registered, NEW status \in {"active", "suspended"}, NEW score \in Int,
                EditRegistry(a, status, score)
         PROVE TypeOK'
    BY <1>9 DEF EditRegistry, TypeOK, Clamp
  <1>10. ASSUME NEW limit \in Limits, SetVelocityLimit(limit) PROVE TypeOK'
    BY <1>10 DEF SetVelocityLimit, TypeOK
  <1>11. CASE Tick
    BY <1>11 DEF Tick, TypeOK
  <1>12. CASE UNCHANGED vars
    BY <1>12 DEF vars, TypeOK
  <1>13. \A a \in Registered : agentRegistry[a].reputation \in Int
    BY RecordTyped
  <1>14. Scores \subseteq Int
    OBVIOUS
  <1>. QED
    BY <1>1, <1>2, <1>3, <1>4, <1>5, <1>6, <1>7, <1>8, <1>9, <1>10, <1>11, <1>12, <1>13, <1>14
    DEF Next, Authorize, Admin, Released

\* Types hold in every reachable state, for every value of the constants.
THEOREM TypeCorrect == Spec => []TypeOK
  <1>1. Init => TypeOK
    BY PspAssumption, NoRequestIsRequest DEF Init, TypeOK, Call, TxnStatus, InitialScore
  <1>. QED BY <1>1, TypeStep, PTL DEF Spec
-----------------------------------------------------------------------------
(***************************************************************************)
(* What one step does to one call, its transaction and the ledger.         *)
(***************************************************************************)
Opens(c) ==
  /\ calls[c].pc = "idle"
  /\ calls'[c].pc \in {"releasing", "refused"}
  /\ calls'[c].req \in Request
  /\ UNCHANGED <<txns, openMandateLedger>>

Refuses(c) ==
  /\ calls[c].pc = "releasing"
  /\ calls'[c].pc = "refused"
  /\ calls'[c].req = calls[c].req
  /\ UNCHANGED txns
  /\ \/ UNCHANGED openMandateLedger
     \/ WithinOpenMandate(calls[c].req) /\ CountOccurrence(calls[c].req)

Settles(c) ==
  /\ calls[c].pc = "releasing"
  /\ calls'[c].req = calls[c].req
  /\ txns'[c].status \in {"declined", "requires_challenge", "authorized"}
  /\ txns'[c].refunded = txns[c].refunded
  /\ calls'[c].pc = Answer(txns'[c].status)
  /\ WithinOpenMandate(calls[c].req)
  /\ CountOccurrence(calls[c].req)

Captures(c) ==
  /\ UNCHANGED <<calls, openMandateLedger>>
  /\ txns[c].status = "authorized"
  /\ txns'[c].status = "captured"
  /\ txns'[c].refunded = txns[c].refunded

Refunds(c) ==
  /\ UNCHANGED <<calls, openMandateLedger>>
  /\ txns[c].status \in {"captured", "partially_refunded"}
  /\ txns'[c].refunded > txns[c].refunded
  /\ txns'[c].refunded <= calls[c].req.amount
  /\ txns'[c].status = IF txns'[c].refunded = calls[c].req.amount
                       THEN "refunded" ELSE "partially_refunded"

\* Every step leaves all calls, transactions and the ledger alone, or does one of
\* the above to one call and leaves the others alone.
OneCallStep ==
  \/ UNCHANGED <<calls, txns, openMandateLedger>>
  \/ \E c \in Calls :
       /\ \A d \in Calls \ {c} : calls'[d] = calls[d] /\ txns'[d] = txns[d]
       /\ Opens(c) \/ Refuses(c) \/ Settles(c) \/ Captures(c) \/ Refunds(c)

\* Each action of the provider is such a step.
LEMMA StepsAreOneCallSteps == TypeOK /\ [Next]_vars => OneCallStep
  <1>. SUFFICES ASSUME TypeOK, [Next]_vars PROVE OneCallStep
    OBVIOUS
  <1>. USE PspAssumption
  <1>0. DOMAIN calls = Calls /\ DOMAIN txns = Calls
    BY DEF TypeOK
  <1>1. ASSUME NEW c \in Calls, NEW req \in Request,
               \/ RefuseUntrusted(c, req) \/ RefuseVelocity(c, req)
               \/ \E ok \in BOOLEAN : Admit(c, req, ok)
        PROVE OneCallStep
    <2>1. calls[c] \in Call
      BY DEF TypeOK
    <2>2. Opens(c)
      BY <1>0, <1>1, <2>1 DEF RefuseUntrusted, RefuseVelocity, Admit, Opens, Call
    <2>3. \A d \in Calls \ {c} : calls'[d] = calls[d] /\ txns'[d] = txns[d]
      BY <1>0, <1>1 DEF RefuseUntrusted, RefuseVelocity, Admit
    <2>. QED BY <2>2, <2>3 DEF OneCallStep
  <1>2. ASSUME NEW c \in Calls,
               \/ ReleaseFailed(c) \/ ConstraintFailed(c)
               \/ \E cap \in Caps : OverCap(c, cap)
        PROVE OneCallStep
    <2>1. calls[c] \in Call
      BY DEF TypeOK
    <2>2. Refuses(c)
      BY <1>0, <1>2, <2>1 DEF ReleaseFailed, ConstraintFailed, OverCap, Refuses, Call
    <2>3. \A d \in Calls \ {c} : calls'[d] = calls[d] /\ txns'[d] = txns[d]
      BY <1>0, <1>2 DEF ReleaseFailed, ConstraintFailed, OverCap
    <2>. QED BY <2>2, <2>3 DEF OneCallStep
  <1>3. ASSUME NEW c \in Calls, NEW cap \in Caps, NEW behavior \in {"ok", "challenge", "decline"},
               Settle(c, behavior, cap)
        PROVE OneCallStep
    <2>1. calls[c] \in Call /\ txns[c] \in [status: TxnStatus, refunded: Nat]
      BY DEF TypeOK
    <2>2. Settles(c)
      BY <1>0, <1>3, <2>1 DEF Settle, Settles, Outcome, Call
    <2>3. \A d \in Calls \ {c} : calls'[d] = calls[d] /\ txns'[d] = txns[d]
      BY <1>0, <1>3 DEF Settle
    <2>. QED BY <2>2, <2>3 DEF OneCallStep
  <1>4. ASSUME NEW c \in Calls, CapturePayment(c) PROVE OneCallStep
    <2>1. txns[c] \in [status: TxnStatus, refunded: Nat]
      BY DEF TypeOK
    <2>2. Captures(c)
      BY <1>0, <1>4, <2>1 DEF CapturePayment, Capturable, Captures
    <2>3. \A d \in Calls \ {c} : calls'[d] = calls[d] /\ txns'[d] = txns[d]
      BY <1>0, <1>4 DEF CapturePayment
    <2>. QED BY <2>2, <2>3 DEF OneCallStep
  <1>5. ASSUME NEW c \in Calls, NEW amount \in 0..(calls[c].req.amount + 1),
               RefundPayment(c, amount)
        PROVE OneCallStep
    <2>1. calls[c].req.amount \in Nat /\ txns[c].refunded \in Nat
      BY RequestTyped DEF TypeOK
    <2>2. Refunds(c)
      BY <1>0, <1>5, <2>1 DEF RefundPayment, RefundFits, Refunds
    <2>3. \A d \in Calls \ {c} : calls'[d] = calls[d] /\ txns'[d] = txns[d]
      BY <1>0, <1>5 DEF RefundPayment
    <2>. QED BY <2>2, <2>3 DEF OneCallStep
  <1>6. CASE Admin
    BY <1>6 DEF Admin, EditRegistry, SetVelocityLimit, OneCallStep
  <1>7. CASE Tick
    BY <1>7 DEF Tick, OneCallStep
  <1>8. CASE UNCHANGED vars
    BY <1>8 DEF vars, OneCallStep
  <1>9. CASE Authorize
    BY <1>1, <1>2, <1>3, <1>9 DEF Authorize, Released
  <1>. QED BY <1>4, <1>5, <1>6, <1>7, <1>8, <1>9 DEF Next
-----------------------------------------------------------------------------
(***************************************************************************)
(* Money.  The two invariants are inductive only together: a settlement    *)
(* starts from a transaction nothing was refunded of, because a waiting    *)
(* call has none yet.                                                      *)
(***************************************************************************)
MoneyInv == TypeOK /\ RefundsWithinCapture /\ RefusedCallHoldsNoMoney

\* The part of MoneyInv that is about one call.
MoneyOf(c) ==
  LET t == txns[c] amount == calls[c].req.amount IN
  /\ t.refunded <= amount
  /\ t.status = "refunded" <=> (0 < t.refunded /\ t.refunded = amount)
  /\ t.status = "partially_refunded" <=> (0 < t.refunded /\ t.refunded < amount)
  /\ calls[c].pc \in {"idle", "releasing"} => t.status = "none"
  /\ calls[c].pc = "refused" => t.status \in {"none", "declined"}
  /\ calls[c].pc = "answered" => t.status \notin {"none", "declined"}

\* MoneyInv is MoneyOf for every call.
LEMMA MoneyInvIsMoneyOf == MoneyInv <=> TypeOK /\ \A c \in Calls : MoneyOf(c)
  BY DEF MoneyInv, MoneyOf, RefundsWithinCapture, RefusedCallHoldsNoMoney

\* Every step keeps the money of every call in order.
LEMMA MoneyStep == MoneyInv /\ [Next]_vars => MoneyInv'
  <1>. SUFFICES ASSUME MoneyInv, [Next]_vars PROVE MoneyInv'
    OBVIOUS
  <1>1. TypeOK /\ TypeOK' /\ OneCallStep /\ \A c \in Calls : MoneyOf(c)
    BY TypeStep, StepsAreOneCallSteps, MoneyInvIsMoneyOf
  <1>2. ASSUME NEW d \in Calls, calls'[d] = calls[d], txns'[d] = txns[d] PROVE MoneyOf(d)'
    BY <1>1, <1>2 DEF MoneyOf
  <1>3. ASSUME NEW c \in Calls, Opens(c) \/ Refuses(c) \/ Settles(c) \/ Captures(c) \/ Refunds(c)
        PROVE MoneyOf(c)'
    <2>1. /\ txns[c].refunded \in Nat /\ txns'[c].refunded \in Nat
          /\ calls[c].req.amount \in Nat
      BY <1>1, RequestTyped DEF TypeOK
    <2>2. MoneyOf(c)
      BY <1>1
    <2>3. CASE Opens(c)
      <3>1. calls'[c].req.amount \in Nat
        BY <2>3, PspAssumption DEF Opens, Request
      <3>. QED BY <2>1, <2>2, <2>3, <3>1 DEF Opens, MoneyOf
    <2>4. CASE Refuses(c)
      BY <2>1, <2>2, <2>4 DEF Refuses, MoneyOf
    <2>5. CASE Settles(c)
      BY <2>1, <2>2, <2>5 DEF Settles, Answer, MoneyOf
    <2>6. CASE Captures(c)
      BY <2>1, <2>2, <2>6 DEF Captures, MoneyOf
    <2>7. CASE Refunds(c)
      BY <2>1, <2>2, <2>7 DEF Refunds, MoneyOf
    <2>. QED BY <1>3, <2>3, <2>4, <2>5, <2>6, <2>7
  <1>4. (\A c \in Calls : MoneyOf(c))'
    BY <1>1, <1>2, <1>3 DEF OneCallStep
  <1>. QED BY <1>1, <1>4, MoneyInvIsMoneyOf, PTL

\* MoneyInv holds in the initial states.
LEMMA MoneyInit == Init => MoneyInv
  <1>1. Init => TypeOK
    BY PspAssumption, NoRequestIsRequest DEF Init, TypeOK, Call, TxnStatus, InitialScore
  <1>. QED
    BY <1>1, RequestTyped DEF Init, MoneyInv, RefundsWithinCapture, RefusedCallHoldsNoMoney

\* MoneyInv holds in every reachable state.
LEMMA MoneyIsInvariant == Spec => []MoneyInv
  BY MoneyInit, MoneyStep, PTL DEF Spec

\* No sequence of refunds, over the tool or the dashboard, gives back more than
\* was captured, and the status of a transaction says how much went back.
THEOREM RefundsAreBounded == Spec => []RefundsWithinCapture
  BY MoneyIsInvariant, PTL DEF MoneyInv

\* authorize_payment that ends with an error leaves no money held.
THEOREM RefusalHoldsNothing == Spec => []RefusedCallHoldsNoMoney
  BY MoneyIsInvariant, PTL DEF MoneyInv

\* A transaction never goes back: not out of a decline, a challenge or a refund.
THEOREM TransactionsMoveForward == Spec => TxnProgress
  <1>1. ASSUME MoneyInv, [Next]_vars PROVE TxnStep
    <2>1. OneCallStep /\ TypeOK /\ TypeOK'
      BY <1>1, StepsAreOneCallSteps, TypeStep DEF MoneyInv
    <2>2. ASSUME NEW c \in Calls,
                 \/ calls'[c] = calls[c] /\ txns'[c] = txns[c]
                 \/ Opens(c) \/ Refuses(c) \/ Settles(c) \/ Captures(c) \/ Refunds(c)
          PROVE  /\ txns[c].status \in {"declined", "requires_challenge", "refunded"}
                      => txns'[c] = txns[c]
                 /\ (txns[c].status # "captured" /\ txns'[c].status = "captured")
                      => txns[c].status = "authorized"
                 /\ txns'[c].refunded >= txns[c].refunded
                 /\ txns[c].status \in {"captured", "partially_refunded"}
                      => txns'[c].status \in {"captured", "partially_refunded", "refunded"}
      <3>1. calls[c].pc = "releasing" => txns[c].status = "none"
        BY <1>1, <2>1 DEF MoneyInv, RefusedCallHoldsNoMoney
      <3>2. txns[c].refunded \in Nat /\ txns'[c].refunded \in Nat
        BY <2>1 DEF TypeOK
      <3>3. CASE Settles(c)
        BY <3>1, <3>2, <3>3 DEF Settles
      <3>4. CASE Captures(c)
        BY <3>2, <3>4 DEF Captures
      <3>5. CASE Refunds(c)
        BY <3>2, <3>5 DEF Refunds
      <3>. QED BY <2>2, <3>2, <3>3, <3>4, <3>5 DEF Opens, Refuses
    <2>. QED BY <2>1, <2>2 DEF OneCallStep, TxnStep
  <1>. QED BY <1>1, MoneyIsInvariant, PTL DEF Spec, TxnProgress
-----------------------------------------------------------------------------
(***************************************************************************)
(* Open mandates.  A transaction starts to ride a mandate in the step that *)
(* counts it, so the number of riders never passes the counter.            *)
(***************************************************************************)
RideInv == MoneyInv /\ OccurrencesWithinRecurrence

\* Adding an element to a finite set adds at most one to its size.
LEMMA OneMore ==
  ASSUME NEW S, NEW x, IsFiniteSet(S)
  PROVE  /\ Cardinality(S \cup {x}) \in Nat
         /\ Cardinality(S \cup {x}) <= Cardinality(S) + 1
  <1>1. Cardinality(S) \in Nat
    BY FS_CardinalityType
  <1>2. Cardinality(S \cup {x}) = IF x \in S THEN Cardinality(S) ELSE Cardinality(S) + 1
    BY FS_AddElement
  <1>. QED BY <1>1, <1>2

\* The riders of a mandate are finitely many.
LEMMA RidersAreFinite ==
  ASSUME NEW m \in OpenMandates
  PROVE  IsFiniteSet(Riding(m)) /\ Cardinality(Riding(m)) \in Nat
  BY PspAssumption, FS_Subset, FS_CardinalityType DEF Riding

\* Every step keeps the number of riders within the ledger, and that within the
\* mandate.
LEMMA RideStep == RideInv /\ [Next]_vars => RideInv'
  <1>. SUFFICES ASSUME RideInv, [Next]_vars PROVE RideInv'
    OBVIOUS
  <1>1. MoneyInv /\ MoneyInv' /\ TypeOK /\ TypeOK' /\ OneCallStep
    BY MoneyStep, StepsAreOneCallSteps DEF RideInv, MoneyInv
  <1>. SUFFICES ASSUME NEW m \in OpenMandates
                PROVE  /\ Cardinality(Riding(m)') <= openMandateLedger'[m].count
                       /\ openMandateLedger'[m].count <= MaxOccurrences
    BY <1>1 DEF RideInv, OccurrencesWithinRecurrence
  <1>2. /\ openMandateLedger[m].count \in Nat
        /\ openMandateLedger[m].count <= MaxOccurrences
        /\ Cardinality(Riding(m)) <= openMandateLedger[m].count
        /\ Cardinality(Riding(m)) \in Nat /\ IsFiniteSet(Riding(m))
        /\ MaxOccurrences \in Nat /\ NoOpen # m
    BY <1>1, RidersAreFinite, PspAssumption DEF RideInv, OccurrencesWithinRecurrence, TypeOK
  <1>3. CASE UNCHANGED <<calls, txns, openMandateLedger>>
    BY <1>2, <1>3 DEF Riding
  <1>4. Cardinality(Riding(m)') \in Nat /\ openMandateLedger'[m].count \in Nat
    <2>1. Riding(m)' \subseteq Calls
      BY DEF Riding
    <2>. QED BY <1>1, <2>1, PspAssumption, FS_Subset, FS_CardinalityType DEF TypeOK
  <1>5. ASSUME NEW c \in Calls,
               \A d \in Calls \ {c} : calls'[d] = calls[d] /\ txns'[d] = txns[d],
               Opens(c) \/ Refuses(c) \/ Settles(c) \/ Captures(c) \/ Refunds(c)
        PROVE  /\ Cardinality(Riding(m)') <= openMandateLedger'[m].count
               /\ openMandateLedger'[m].count <= MaxOccurrences
    <2>1. calls[c].pc \in {"idle", "releasing"} => txns[c].status = "none"
      BY <1>1 DEF MoneyInv, RefusedCallHoldsNoMoney
    <2>2. (WithinOpenMandate(calls[c].req) /\ CountOccurrence(calls[c].req)) =>
             /\ openMandateLedger'[m].count <= MaxOccurrences
             /\ openMandateLedger'[m].count =
                  IF calls[c].req.open = m THEN openMandateLedger[m].count + 1
                  ELSE openMandateLedger[m].count
      BY <1>1, <1>2 DEF WithinOpenMandate, CountOccurrence, TypeOK
    <2>3. CASE Settles(c)
      <3>1. CASE calls[c].req.open = m
        <4>1. Riding(m)' = Riding(m) \cup {c}
          BY <1>5, <2>3, <3>1 DEF Riding, Settles
        <4>2. Cardinality(Riding(m) \cup {c}) <= Cardinality(Riding(m)) + 1
          BY <1>2, OneMore
        <4>3. openMandateLedger'[m].count = openMandateLedger[m].count + 1
          BY <2>2, <2>3, <3>1 DEF Settles
        <4>. QED BY <1>2, <1>4, <2>2, <2>3, <4>1, <4>2, <4>3 DEF Settles
      <3>2. CASE calls[c].req.open # m
        <4>1. Riding(m)' = Riding(m)
          BY <1>5, <2>3, <3>2 DEF Riding, Settles
        <4>. QED BY <1>2, <2>2, <2>3, <3>2, <4>1 DEF Settles
      <3>. QED BY <3>1, <3>2
    <2>4. CASE ~Settles(c)
      <3>1. Riding(m)' = Riding(m)
        BY <1>5, <2>1, <2>4 DEF Riding, Opens, Refuses, Captures, Refunds
      <3>2. \/ openMandateLedger' = openMandateLedger
            \/ WithinOpenMandate(calls[c].req) /\ CountOccurrence(calls[c].req)
        BY <1>5, <2>4 DEF Opens, Refuses, Captures, Refunds
      <3>. QED BY <1>2, <2>2, <3>1, <3>2
    <2>. QED BY <2>3, <2>4
  <1>. QED BY <1>1, <1>3, <1>5 DEF OneCallStep

\* However many calls of an open mandate overlap, no more transactions than the
\* user allowed occurrences ride it, and each of them was counted.
THEOREM RecurrenceHolds == Spec => []OccurrencesWithinRecurrence
  <1>1. Init => OccurrencesWithinRecurrence
    <2>. SUFFICES ASSUME Init, NEW m \in OpenMandates
                  PROVE  /\ Cardinality(Riding(m)) <= openMandateLedger[m].count
                         /\ openMandateLedger[m].count <= MaxOccurrences
      BY DEF OccurrencesWithinRecurrence
    <2>1. Riding(m) = {}
      BY DEF Init, Riding
    <2>. QED BY <2>1, FS_EmptySet, PspAssumption DEF Init
  <1>2. OccurrencesWithinRecurrence /\ MoneyInv /\ [Next]_vars => OccurrencesWithinRecurrence'
    BY RideStep DEF RideInv
  <1>. QED BY <1>1, <1>2, MoneyIsInvariant, PTL DEF Spec
-----------------------------------------------------------------------------
(***************************************************************************)
(* Velocity.  The log holds every call admitted within the window since    *)
(* the limit was set, and what it still counts never passes the limit.     *)
(***************************************************************************)
LogInv ==
  /\ \A a \in Agents : \A c \in velocityLog[a] : calls[c].pc # "idle" /\ calls[c].req.agent = a
  /\ \A c \in sinceLimit : calls[c].pc # "idle"
  /\ \A c \in sinceLimit :
       now - calls[c].at < Window => c \in velocityLog[calls[c].req.agent]
  /\ \A a \in Agents : Cardinality(Recent(a)) <= velocityLimit

VelocityInv == TypeOK /\ LogInv

\* Sets of calls are finite and grow with their elements.
LEMMA CallSets ==
  ASSUME NEW S, NEW T, S \subseteq T, T \subseteq Calls
  PROVE  /\ IsFiniteSet(T) /\ Cardinality(S) \in Nat /\ Cardinality(T) \in Nat
         /\ Cardinality(S) <= Cardinality(T)
  BY PspAssumption, FS_Subset, FS_CardinalityType

\* Only the actions named here touch the log, the limit or the clock; the others
\* leave the agent and the time of the calls in the log as they are.
LEMMA LogUntouched ==
  ASSUME TypeOK, [Next]_vars
  PROVE  \/ \E c \in Calls, req \in Request :
              RefuseVelocity(c, req) \/ \E ok \in BOOLEAN : Admit(c, req, ok)
         \/ \E limit \in Limits : SetVelocityLimit(limit)
         \/ Tick
         \/ /\ UNCHANGED <<velocityLog, velocityLimit, now, sinceLimit>>
            /\ \A c \in Calls : calls[c].pc # "idle" =>
                 /\ calls'[c].pc # "idle"
                 /\ calls'[c].req = calls[c].req
                 /\ calls'[c].at = calls[c].at
  <1>. DEFINE Same == /\ UNCHANGED <<velocityLog, velocityLimit, now, sinceLimit>>
                      /\ \A c \in Calls : calls[c].pc # "idle" =>
                           /\ calls'[c].pc # "idle"
                           /\ calls'[c].req = calls[c].req
                           /\ calls'[c].at = calls[c].at
  <1>0. calls \in [Calls -> Call]
    BY DEF TypeOK
  <1>1. ASSUME NEW c \in Calls, NEW req \in Request, RefuseUntrusted(c, req) PROVE Same
    BY <1>0, <1>1 DEF RefuseUntrusted, Call
  <1>2. ASSUME NEW c \in Calls, ReleaseFailed(c) \/ ConstraintFailed(c) PROVE Same
    BY <1>0, <1>2 DEF ReleaseFailed, ConstraintFailed, Call
  <1>3. ASSUME NEW c \in Calls, NEW cap \in Caps, OverCap(c, cap) PROVE Same
    BY <1>0, <1>3 DEF OverCap, Call
  <1>4. ASSUME NEW c \in Calls, NEW cap \in Caps, NEW behavior \in {"ok", "challenge", "decline"},
               Settle(c, behavior, cap)
        PROVE Same
    BY <1>0, <1>4 DEF Settle, Call, Answer
  <1>5. ASSUME \/ \E c \in Calls : CapturePayment(c)
               \/ \E c \in Calls : \E amount \in 0..(calls[c].req.amount + 1) :
                    RefundPayment(c, amount)
               \/ UNCHANGED vars
        PROVE Same
    BY <1>5 DEF CapturePayment, RefundPayment, vars
  <1>6. ASSUME NEW a \in Registered, NEW status, NEW score, EditRegistry(a, status, score) PROVE Same
    BY <1>6 DEF EditRegistry
  <1>. HIDE DEF Same
  <1>7. CASE Authorize
    BY <1>1, <1>2, <1>3, <1>4, <1>7 DEF Authorize, Released, Same
  <1>8. CASE Admin
    BY <1>6, <1>8 DEF Admin, Same
  <1>. QED BY <1>5, <1>7, <1>8 DEF Next, Same
\* Every step keeps the log complete and within the limit.
LEMMA VelocityStep == VelocityInv /\ [Next]_vars => VelocityInv'
  <1>. SUFFICES ASSUME VelocityInv, [Next]_vars PROVE VelocityInv'
    OBVIOUS
  <1>1. TypeOK /\ TypeOK' /\ LogInv
    BY TypeStep DEF VelocityInv
  <1>. USE PspAssumption
  <1>2. \A a \in Agents : Recent(a) \subseteq Calls /\ Recent(a)' \subseteq Calls
    BY <1>1 DEF TypeOK, Recent
  <1>3. /\ calls \in [Calls -> Call] /\ velocityLog \in [Agents -> SUBSET Calls]
        /\ now \in Nat /\ sinceLimit \subseteq Calls /\ velocityLimit \in Nat
        /\ \A c \in Calls : calls[c].at \in Nat /\ calls[c].req.agent \in Agents
        /\ velocityLimit' \in Nat /\ Window \in Nat
    BY <1>1 DEF TypeOK, Call, Request
  \* The log and the clock only lose calls: enough for the limit.
  <1>4. ASSUME velocityLimit' = velocityLimit, NEW a \in Agents, Recent(a)' \subseteq Recent(a)
        PROVE Cardinality(Recent(a)') <= velocityLimit'
    <2>. DEFINE S == Recent(a)'
                T == Recent(a)
    <2>1. Cardinality(T) <= velocityLimit
      BY <1>1 DEF LogInv
    <2>2. S \subseteq T /\ T \subseteq Calls
      BY <1>2, <1>4
    <2>. HIDE DEF S, T
    <2>3. Cardinality(S) \in Nat /\ Cardinality(T) \in Nat /\ Cardinality(S) <= Cardinality(T)
      BY <2>2, CallSets
    <2>4. Cardinality(S) <= velocityLimit'
      BY <1>3, <1>4, <2>1, <2>3
    <2>. QED BY <2>4 DEF S
  <1>5. ASSUME NEW c \in Calls, NEW req \in Request, RefuseVelocity(c, req) PROVE LogInv'
    <2>1. /\ calls[c].pc = "idle"
          /\ \A d \in Calls : calls'[d].at = calls[d].at
          /\ \A d \in Calls \ {c} : calls'[d] = calls[d]
          /\ calls'[c].pc # "idle"
          /\ velocityLog' = [velocityLog EXCEPT ![req.agent] = Recent(req.agent)]
          /\ UNCHANGED <<velocityLimit, now, sinceLimit>>
      BY <1>3, <1>5 DEF RefuseVelocity, Call
    <2>2. req.agent \in Agents
      BY DEF Request
    <2>3. \A a \in Agents : velocityLog'[a] \subseteq velocityLog[a] /\ c \notin velocityLog[a]
      BY <1>1, <1>3, <2>1 DEF LogInv, Recent
    <2>4. \A a \in Agents : Recent(a)' \subseteq Recent(a)
      BY <1>3, <2>1, <2>3 DEF Recent
    <2>5. c \notin sinceLimit
      BY <1>1, <2>1 DEF LogInv
    <2>6. \A d \in sinceLimit' :
             now' - calls'[d].at < Window => d \in velocityLog'[calls'[d].req.agent]
      BY <1>1, <1>3, <2>1, <2>2, <2>5 DEF LogInv, Recent
    <2>. QED BY <1>1, <1>3, <1>4, <2>1, <2>3, <2>4, <2>5, <2>6 DEF LogInv
  <1>6. ASSUME NEW c \in Calls, NEW req \in Request, NEW ok \in BOOLEAN, Admit(c, req, ok)
        PROVE LogInv'
    <2>1. /\ calls[c].pc = "idle"
          /\ \A d \in Calls \ {c} : calls'[d] = calls[d]
          /\ calls'[c].pc # "idle" /\ calls'[c].req = req /\ calls'[c].at = now
          /\ velocityLog' = [velocityLog EXCEPT ![req.agent] = Recent(req.agent) \cup {c}]
          /\ sinceLimit' = sinceLimit \cup {c}
          /\ UNCHANGED <<velocityLimit, now>>
          /\ Cardinality(Recent(req.agent)) < velocityLimit
      BY <1>3, <1>6 DEF Admit
    <2>2. req.agent \in Agents
      BY DEF Request
    <2>3. c \notin sinceLimit /\ \A a \in Agents : c \notin velocityLog[a]
      BY <1>1, <2>1 DEF LogInv
    <2>4. \A a \in Agents : \A d \in velocityLog'[a] :
             calls'[d].pc # "idle" /\ calls'[d].req.agent = a
      BY <1>1, <1>3, <2>1, <2>2, <2>3 DEF LogInv, Recent
    <2>5. \A d \in sinceLimit' :
             now' - calls'[d].at < Window => d \in velocityLog'[calls'[d].req.agent]
      BY <1>1, <1>3, <2>1, <2>2, <2>3 DEF LogInv, Recent
    <2>6. ASSUME NEW a \in Agents PROVE Cardinality(Recent(a)') <= velocityLimit'
      <3>1. CASE a # req.agent
        <4>1. Recent(a)' \subseteq Recent(a)
          BY <1>3, <2>1, <2>3, <3>1 DEF Recent
        <4>. QED BY <1>4, <2>1, <4>1
      <3>2. CASE a = req.agent
        <4>. DEFINE S == Recent(a)'
                    T == Recent(a)
        <4>1. S \subseteq T \cup {c} /\ T \subseteq Calls
          BY <1>2, <1>3, <2>1, <2>3, <3>2 DEF Recent
        <4>2. Cardinality(T) < velocityLimit
          BY <2>1, <3>2
        <4>. HIDE DEF S, T
        <4>3. IsFiniteSet(T) /\ Cardinality(T) \in Nat
          BY <4>1, CallSets
        <4>4. Cardinality(T \cup {c}) <= Cardinality(T) + 1
          BY <4>3, OneMore
        <4>5. T \cup {c} \subseteq Calls
          BY <4>1
        <4>6. /\ Cardinality(S) \in Nat /\ Cardinality(T \cup {c}) \in Nat
              /\ Cardinality(S) <= Cardinality(T \cup {c})
          BY <4>1, <4>5, CallSets
        <4>7. Cardinality(S) <= velocityLimit'
          BY <1>3, <2>1, <4>2, <4>3, <4>4, <4>6
        <4>. QED BY <4>7 DEF S
      <3>. QED BY <3>1, <3>2
    <2>7. \A d \in sinceLimit' : calls'[d].pc # "idle"
      BY <1>1, <1>3, <2>1, <2>3 DEF LogInv
    <2>. QED BY <2>4, <2>5, <2>6, <2>7 DEF LogInv
  <1>7. ASSUME NEW limit \in Limits, SetVelocityLimit(limit) PROVE LogInv'
    <2>1. \A a \in Agents : Recent(a)' = {}
      BY <1>7 DEF SetVelocityLimit, Recent
    <2>2. \A a \in Agents : Cardinality(Recent(a)') = 0
      BY <2>1, FS_EmptySet
    <2>3. /\ sinceLimit' = {} /\ \A a \in Agents : velocityLog'[a] = {}
      BY <1>7 DEF SetVelocityLimit
    <2>4. ASSUME NEW a \in Agents PROVE Cardinality(Recent(a)') <= velocityLimit'
      BY <1>3, <2>2
    <2>. QED BY <2>3, <2>4 DEF LogInv
  <1>8. ASSUME Tick PROVE LogInv'
    <2>1. \A a \in Agents : Recent(a)' \subseteq Recent(a)
      BY <1>3, <1>8 DEF Tick, Recent
    <2>2. \A d \in sinceLimit' :
             now' - calls'[d].at < Window => d \in velocityLog'[calls'[d].req.agent]
      BY <1>1, <1>3, <1>8 DEF Tick, LogInv
    <2>3. ASSUME NEW a \in Agents PROVE Cardinality(Recent(a)') <= velocityLimit'
      BY <1>4, <1>8, <2>1 DEF Tick
    <2>4. /\ \A a \in Agents : \A d \in velocityLog'[a] :
               calls'[d].pc # "idle" /\ calls'[d].req.agent = a
          /\ \A d \in sinceLimit' : calls'[d].pc # "idle"
      BY <1>1, <1>8 DEF Tick, LogInv
    <2>. QED BY <2>2, <2>3, <2>4 DEF LogInv
  <1>9. ASSUME UNCHANGED <<velocityLog, velocityLimit, now, sinceLimit>>,
               \A c \in Calls : calls[c].pc # "idle" =>
                 /\ calls'[c].pc # "idle"
                 /\ calls'[c].req = calls[c].req
                 /\ calls'[c].at = calls[c].at
        PROVE LogInv'
    <2>1. \A a \in Agents : Recent(a)' \subseteq Recent(a)
      BY <1>1, <1>3, <1>9 DEF Recent, LogInv
    <2>2. \A a \in Agents : \A d \in velocityLog'[a] :
             calls'[d].pc # "idle" /\ calls'[d].req.agent = a
      BY <1>1, <1>3, <1>9 DEF LogInv
    <2>3. \A d \in sinceLimit' : calls'[d].pc # "idle"
      BY <1>1, <1>3, <1>9 DEF LogInv
    <2>4. \A d \in sinceLimit' :
             now' - calls'[d].at < Window => d \in velocityLog'[calls'[d].req.agent]
      BY <1>1, <1>3, <1>9 DEF LogInv
    <2>5. ASSUME NEW a \in Agents PROVE Cardinality(Recent(a)') <= velocityLimit'
      BY <1>4, <1>9, <2>1
    <2>. QED BY <2>2, <2>3, <2>4, <2>5 DEF LogInv
  <1>10. LogInv'
    <2>1. ASSUME \E c \in Calls, req \in Request :
                   RefuseVelocity(c, req) \/ \E ok \in BOOLEAN : Admit(c, req, ok)
          PROVE LogInv'
      BY <1>5, <1>6, <2>1
    <2>2. ASSUME \E limit \in Limits : SetVelocityLimit(limit) PROVE LogInv'
      BY <1>7, <2>2
    <2>. QED BY <1>1, <1>8, <1>9, <2>1, <2>2, LogUntouched
  <1>. QED BY <1>1, <1>10 DEF VelocityInv

\* In no window since the limit was last set does an agent get more calls past the
\* velocity rule than the limit.
THEOREM VelocityIsLimited == Spec => []VelocityRespected
  <1>1. Init => TypeOK
    BY PspAssumption, NoRequestIsRequest DEF Init, TypeOK, Call, TxnStatus, InitialScore
  <1>2. Init => VelocityInv
    <2>. SUFFICES ASSUME Init PROVE VelocityInv
      OBVIOUS
    <2>1. \A a \in Agents : Recent(a) = {}
      BY DEF Init, Recent
    <2>2. \A a \in Agents : Cardinality(Recent(a)) = 0
      BY <2>1, FS_EmptySet
    <2>3. \A a \in Agents : Cardinality(Recent(a)) <= velocityLimit
      BY <2>2, PspAssumption DEF Init
    <2>4. sinceLimit = {} /\ \A a \in Agents : velocityLog[a] = {}
      BY DEF Init
    <2>. QED BY <1>1, <2>3, <2>4 DEF VelocityInv, LogInv
  <1>3. VelocityInv => VelocityRespected
    <2>. SUFFICES ASSUME VelocityInv, NEW a \in Agents
                  PROVE Cardinality({c \in sinceLimit : /\ calls[c].req.agent = a
                                                        /\ now - calls[c].at < Window})
                          <= velocityLimit
      BY DEF VelocityRespected
    <2>. DEFINE S == {c \in sinceLimit : calls[c].req.agent = a /\ now - calls[c].at < Window}
                T == Recent(a)
    <2>1. S \subseteq T /\ T \subseteq Calls
      BY DEF VelocityInv, LogInv, TypeOK, Recent
    <2>2. Cardinality(T) <= velocityLimit /\ velocityLimit \in Nat
      BY DEF VelocityInv, LogInv, TypeOK
    <2>. HIDE DEF S, T
    <2>3. Cardinality(S) \in Nat /\ Cardinality(T) \in Nat /\ Cardinality(S) <= Cardinality(T)
      BY <2>1, CallSets
    <2>4. Cardinality(S) <= velocityLimit
      BY <2>2, <2>3
    <2>. QED BY <2>4 DEF S
  <1>. QED BY <1>2, <1>3, VelocityStep, PTL DEF Spec
-----------------------------------------------------------------------------
(***************************************************************************)
(* Lockout.                                                                *)
(***************************************************************************)
\* A step that neither opens a call of a locked-out agent nor raises its score
\* leaves it locked out.
LEMMA StaysLockedOut ==
  ASSUME MoneyInv, MoneyInv', NEW a \in Registered, LockedOut(a), OneCallStep,
         agentRegistry'[a] = agentRegistry[a],
         \A c \in Calls : Opens(c) =>
           (calls'[c].req.agent = a => calls'[c].pc = "refused")
  PROVE  LockedOut(a)'
  <1>1. agentRegistry'[a].reputation < TrustThreshold
    BY DEF LockedOut
  <1>2. ASSUME NEW d \in Calls, calls'[d] = calls[d], txns'[d] = txns[d], calls'[d].req.agent = a
        PROVE calls'[d].pc # "releasing" /\ txns'[d].status # "authorized"
    BY <1>2 DEF LockedOut
  <1>3. ASSUME NEW c \in Calls, calls'[c].req.agent = a,
               Opens(c) \/ Refuses(c) \/ Settles(c) \/ Captures(c) \/ Refunds(c)
        PROVE calls'[c].pc # "releasing" /\ txns'[c].status # "authorized"
    <2>1. calls[c].pc = "idle" => txns[c].status = "none"
      BY DEF MoneyInv, RefusedCallHoldsNoMoney
    <2>2. CASE Opens(c)
      BY <1>3, <2>1, <2>2 DEF Opens
    <2>3. CASE Refuses(c) \/ Settles(c)
      BY <1>3, <2>3 DEF Refuses, Settles, LockedOut
    <2>4. CASE Captures(c) \/ Refunds(c)
      BY <1>3, <2>4 DEF Captures, Refunds, LockedOut
    <2>. QED BY <1>3, <2>2, <2>3, <2>4
  <1>4. \A c \in Calls : calls'[c].req.agent = a =>
           calls'[c].pc # "releasing" /\ txns'[c].status # "authorized"
    BY <1>2, <1>3 DEF OneCallStep
  <1>. QED BY <1>1, <1>4 DEF LockedOut

\* An agent whose score fell below the threshold and who has nothing under way
\* pays again only after an admin's edit, which touches no call or transaction.
THEOREM LockoutIsFinal == Spec => LockoutNeedsAdmin
  <1>1. ASSUME MoneyInv, [Next]_vars PROVE LockoutStep
    <2>. SUFFICES ASSUME NEW a \in Registered, LockedOut(a), ~UNCHANGED <<calls, txns>>
                  PROVE LockedOut(a)'
      BY DEF LockoutStep
    <2>1. MoneyInv' /\ OneCallStep /\ TypeOK
      BY <1>1, MoneyStep, StepsAreOneCallSteps DEF MoneyInv
    <2>2. ~Trusted(a) /\ a \in Agents /\ agentRegistry \in
            [Registered -> [status: {"active", "suspended"}, reputation: 0..100]]
      <3>1. a \in Agents
        BY PspAssumption
      <3>2. agentRegistry \in [Registered -> [status: {"active", "suspended"}, reputation: 0..100]]
        BY <2>1 DEF TypeOK
      <3>3. agentRegistry[a].reputation \in Int
        BY <2>1, RecordTyped
      <3>. QED BY <3>1, <3>2, <3>3 DEF LockedOut, Trusted, TrustThreshold
    <2>. DEFINE Kept ==
           /\ agentRegistry'[a] = agentRegistry[a]
           /\ \A c \in Calls : Opens(c) => (calls'[c].req.agent = a => calls'[c].pc = "refused")
    <2>3. ASSUME NEW b \in Agents, NEW delta, ReputationEvent(b, delta), b # a
          PROVE agentRegistry'[a] = agentRegistry[a]
      BY <2>2, <2>3 DEF ReputationEvent
    <2>4. ASSUME NEW c \in Calls, NEW req \in Request,
                 \/ RefuseUntrusted(c, req) \/ RefuseVelocity(c, req)
                 \/ \E ok \in BOOLEAN : Admit(c, req, ok)
          PROVE Kept
      <3>1. calls \in [Calls -> Call] /\ req.agent \in Agents
        BY <2>1 DEF TypeOK, Request
      <3>2. agentRegistry'[a] = agentRegistry[a]
        BY <2>2, <2>3, <2>4, <3>1 DEF RefuseUntrusted, RefuseVelocity, Admit
      <3>3. ASSUME NEW d \in Calls, Opens(d), calls'[d].req.agent = a
            PROVE calls'[d].pc = "refused"
        <4>1. d = c
          BY <2>4, <3>1, <3>3 DEF RefuseUntrusted, RefuseVelocity, Admit, Opens
        <4>. QED BY <2>2, <2>4, <3>1, <3>3, <4>1
                 DEF RefuseUntrusted, RefuseVelocity, Admit, Call
      <3>. QED BY <3>2, <3>3
    <2>5. ASSUME NEW c \in Calls,
                 \/ ReleaseFailed(c) \/ CapturePayment(c)
                 \/ \E behavior \in {"ok", "challenge", "decline"}, cap \in Caps :
                      Released(c, behavior, cap)
          PROVE Kept
      <3>1. calls \in [Calls -> Call] /\ calls[c].req.agent \in Agents
        BY <2>1, RequestTyped DEF TypeOK
      <3>2. calls[c].req.agent # a
        BY <2>5 DEF LockedOut, ReleaseFailed, CapturePayment, Capturable, Released,
                    ConstraintFailed, OverCap, Settle
      <3>3. agentRegistry'[a] = agentRegistry[a]
        BY <2>3, <2>5, <3>1, <3>2 DEF ReleaseFailed, CapturePayment, Released,
                                      ConstraintFailed, OverCap, Settle
      <3>4. \A d \in Calls : ~Opens(d)
        <4>. SUFFICES ASSUME NEW d \in Calls, Opens(d) PROVE FALSE
          OBVIOUS
        <4>1. calls'[d] # calls[d] /\ calls[d].pc = "idle"
          BY DEF Opens
        <4>. QED BY <2>5, <3>1, <4>1 DEF ReleaseFailed, CapturePayment, Released,
                                         ConstraintFailed, OverCap, Settle
      <3>. QED BY <3>3, <3>4
    <2>6. ASSUME NEW c \in Calls, NEW amount, RefundPayment(c, amount) PROVE Kept
      BY <2>6 DEF RefundPayment, Opens
    <2>. HIDE DEF Kept
    <2>7. Kept
      BY <1>1, <2>4, <2>5, <2>6
      DEF Next, Authorize, Admin, EditRegistry, SetVelocityLimit, Tick, vars
    <2>. QED BY <1>1, <2>1, <2>7, StaysLockedOut DEF Kept
  <1>. QED BY <1>1, MoneyIsInvariant, PTL DEF Spec, LockoutNeedsAdmin-----------------------------------------------------------------------------
(***************************************************************************)
(* The same for money: a settlement adds its amount to the ledger's spend  *)
(* in the step in which its transaction starts to ride the mandate.        *)
(***************************************************************************)
\* What each call asks for.
AmountOf == [c \in Calls |-> calls[c].req.amount]

SpendInv == MoneyInv /\ SpendWithinOpenBudget

\* As long as the riders of a mandate and their amounts stay, so does their sum.
LEMMA RidersSumSame ==
  ASSUME NEW m \in OpenMandates,
         \A c \in Riding(m) : calls'[c].req.amount = calls[c].req.amount
  PROVE  SumFunctionOnSet(AmountOf', Riding(m)) = SumFunctionOnSet(AmountOf, Riding(m))
  <1>1. IsFiniteSet(Riding(m)) /\ Riding(m) \subseteq Calls
    BY RidersAreFinite DEF Riding
  <1>2. \A c \in Riding(m) : AmountOf'[c] = AmountOf[c]
    BY <1>1 DEF AmountOf
  <1>. QED BY <1>1, <1>2, SumSame

\* Every step keeps what the riders charge within the ledger's spend, and that
\* within the budget.
LEMMA SpendStep == SpendInv /\ [Next]_vars => SpendInv'
  <1>. SUFFICES ASSUME SpendInv, [Next]_vars PROVE SpendInv'
    OBVIOUS
  <1>1. MoneyInv /\ MoneyInv' /\ TypeOK /\ TypeOK' /\ OneCallStep
    BY MoneyStep, StepsAreOneCallSteps DEF SpendInv, MoneyInv
  <1>. DEFINE Sum(m) == SumFunctionOnSet(AmountOf, Riding(m))
  <1>. SUFFICES ASSUME NEW m \in OpenMandates
                PROVE  Sum(m)' <= openMandateLedger'[m].spent /\ openMandateLedger'[m].spent <= OpenBudget
    BY <1>1 DEF SpendInv, SpendWithinOpenBudget, AmountOf
  <1>2. /\ \A c \in Calls : calls[c].req.amount \in Nat /\ calls'[c].req.amount \in Nat
        /\ \A c \in Calls : AmountOf[c] \in Nat /\ AmountOf'[c] \in Nat
        /\ Riding(m) \subseteq Calls /\ IsFiniteSet(Riding(m))
    <2>1. \A c \in Calls : calls[c].req.amount \in Nat
      BY <1>1, RequestTyped
    <2>2. (\A c \in Calls : calls[c].req.amount \in Nat)'
      BY <1>1, PspAssumption DEF TypeOK, Call, Request
    <2>. QED BY <2>1, <2>2, RidersAreFinite DEF AmountOf, Riding
  <1>3. /\ openMandateLedger[m].spent \in Nat
        /\ openMandateLedger[m].spent <= OpenBudget
        /\ Sum(m) <= openMandateLedger[m].spent
        /\ Sum(m) \in Nat
        /\ OpenBudget \in Nat /\ NoOpen # m
    <2>1. Sum(m) \in Nat
      BY <1>2, SumNat
    <2>2. Sum(m) <= openMandateLedger[m].spent /\ openMandateLedger[m].spent <= OpenBudget
      BY DEF SpendInv, SpendWithinOpenBudget, AmountOf
    <2>. QED BY <1>1, <2>1, <2>2, PspAssumption DEF TypeOK
  <1>4. CASE UNCHANGED <<calls, txns, openMandateLedger>>
    <2>1. Sum(m)' = Sum(m)
      BY <1>4 DEF AmountOf, Riding
    <2>. QED BY <1>3, <1>4, <2>1
  <1>5. ASSUME NEW c \in Calls,
               \A d \in Calls \ {c} : calls'[d] = calls[d] /\ txns'[d] = txns[d],
               Opens(c) \/ Refuses(c) \/ Settles(c) \/ Captures(c) \/ Refunds(c)
        PROVE  Sum(m)' <= openMandateLedger'[m].spent /\ openMandateLedger'[m].spent <= OpenBudget
    <2>1. calls[c].pc \in {"idle", "releasing"} => txns[c].status = "none"
      BY <1>1 DEF MoneyInv, RefusedCallHoldsNoMoney
    <2>2. (WithinOpenMandate(calls[c].req) /\ CountOccurrence(calls[c].req)) =>
             /\ openMandateLedger'[m].spent <= OpenBudget
             /\ openMandateLedger'[m].spent =
                  IF calls[c].req.open = m THEN openMandateLedger[m].spent + calls[c].req.amount
                  ELSE openMandateLedger[m].spent
      BY <1>1, <1>2, <1>3 DEF WithinOpenMandate, CountOccurrence, TypeOK
    <2>3. \A d \in Riding(m) : calls'[d].req.amount = calls[d].req.amount
      BY <1>2, <1>5, <2>1 DEF Riding, Opens, Refuses, Settles, Captures, Refunds
    <2>4. SumFunctionOnSet(AmountOf', Riding(m)) = Sum(m)
      BY <2>3, RidersSumSame
    <2>5. CASE Settles(c) /\ calls[c].req.open = m
      <3>1. Riding(m)' = Riding(m) \cup {c} /\ c \notin Riding(m)
        BY <1>5, <2>1, <2>5 DEF Riding, Settles
      <3>2. SumFunctionOnSet(AmountOf', Riding(m) \cup {c})
              = AmountOf'[c] + SumFunctionOnSet(AmountOf', Riding(m))
        <4>1. \A x \in Riding(m) \cup {c} : AmountOf'[x] \in Nat
          BY <1>2
        <4>. QED BY <1>2, <3>1, <4>1, SumAdd
      <3>3. AmountOf'[c] = calls[c].req.amount
        BY <2>5 DEF AmountOf, Settles
      <3>4. Sum(m)' = calls[c].req.amount + Sum(m)
        BY <2>4, <3>1, <3>2, <3>3
      <3>5. openMandateLedger'[m].spent = openMandateLedger[m].spent + calls[c].req.amount
        BY <2>2, <2>5 DEF Settles
      <3>6. openMandateLedger'[m].spent <= OpenBudget
        BY <2>2, <2>5 DEF Settles
      <3>. QED BY <1>2, <1>3, <3>4, <3>5, <3>6
    <2>6. CASE ~(Settles(c) /\ calls[c].req.open = m)
      <3>1. Riding(m)' = Riding(m)
        BY <1>5, <2>1, <2>6 DEF Riding, Opens, Refuses, Settles, Captures, Refunds
      <3>2. Sum(m)' = Sum(m)
        BY <2>4, <3>1
      <3>3. \/ openMandateLedger' = openMandateLedger
            \/ WithinOpenMandate(calls[c].req) /\ CountOccurrence(calls[c].req)
        BY <1>5 DEF Opens, Refuses, Settles, Captures, Refunds
      <3>. QED BY <1>2, <1>3, <2>2, <3>2, <3>3
    <2>. QED BY <2>5, <2>6
  <1>. QED BY <1>1, <1>4, <1>5 DEF OneCallStep

\* SpendInv holds in the initial states: nothing rides a mandate yet.
LEMMA SpendInit == Init => SpendInv
  <1>. SUFFICES ASSUME Init PROVE SpendInv
    OBVIOUS
  <1>. SUFFICES ASSUME NEW m \in OpenMandates
                PROVE  /\ SumFunctionOnSet(AmountOf, Riding(m)) <= openMandateLedger[m].spent
                       /\ openMandateLedger[m].spent <= OpenBudget
    BY MoneyInit DEF SpendInv, SpendWithinOpenBudget, AmountOf
  <1>1. Riding(m) = {}
    BY DEF Init, Riding
  <1>2. SumFunctionOnSet(AmountOf, {}) = 0
    BY SumEmpty
  <1>. QED BY <1>1, <1>2, PspAssumption DEF Init

\* However many calls of an open mandate overlap, what the transactions that ride
\* it charge together is in the ledger's spend, and never passes its budget.
THEOREM OpenBudgetHolds == Spec => []SpendWithinOpenBudget
  <1>1. SpendInv => SpendWithinOpenBudget
    BY DEF SpendInv
  <1>. QED BY <1>1, SpendInit, SpendStep, PTL DEF Spec
=============================================================================
