--------------------------- MODULE PaymentProvider ---------------------------
(***************************************************************************)
(* The payment service provider ("PayStream",                              *)
(* src/apps/payment-provider/src/server.ts): authorize, capture and refund *)
(* of transactions, the agent registry with its reputation, the velocity   *)
(* rule and the ledger of open payment mandates.                           *)
(*                                                                         *)
(* authorize_payment awaits the credentials provider in the middle, so a   *)
(* call is two steps, Admit and Settle, and other calls, captures, refunds *)
(* and admin edits run in between.  Everything else is one step.  A call   *)
(* creates at most one transaction, so a transaction is named by its call. *)
(* Requests whose mandate does not verify change nothing and are no step.  *)
(***************************************************************************)
EXTENDS Integers, FiniteSets, FiniteSetsExt

CONSTANTS
  Calls,          \* authorize_payment calls
  Agents,         \* agent profile URLs a mandate can name
  Registered,     \* those with a record in the registry
  OpenMandates,   \* open payment mandates (human not present)
  NoOpen,         \* no open mandate: the human-present flow
  Amounts,        \* minor units of a charge
  MaxCharge,      \* payment.amount_range of every open mandate
  MaxOccurrences, \* payment.agent_recurrence of every open mandate
  OpenBudget,     \* payment.budget of every open mandate, in minor units
  Caps,           \* per-transaction caps a token can carry
  Scores,         \* reputations the registry admin can set
  Limits,         \* velocity limits the admin can set
  InitialLimit,
  Window,         \* VELOCITY_WINDOW_MS in ticks
  MaxTime         \* bound on the clock

InitialScore == 92
TrustThreshold == 40

ASSUME PspAssumption ==
  /\ IsFiniteSet(Calls)
  /\ Agents # {}
  /\ Registered \subseteq Agents
  /\ NoOpen \notin OpenMandates
  /\ Amounts \subseteq Nat
  /\ Amounts # {}
  /\ MaxCharge \in Nat
  /\ MaxOccurrences \in Nat
  /\ OpenBudget \in Nat
  /\ Caps \subseteq Nat
  /\ Scores \subseteq 0..100
  /\ Limits \subseteq Nat
  /\ InitialLimit \in Nat
  /\ Window \in Nat \ {0}
  /\ MaxTime \in Nat

VARIABLES
  calls,             \* where each authorize_payment call is, and its request
  txns,              \* the transaction each call created
  openMandateLedger, \* occurrences and spend of each open mandate
  agentRegistry,     \* status and reputation of the registered agents
  velocityLog,       \* admitted calls of each agent that the log still holds
  velocityLimit,
  now,
  sinceLimit         \* history: calls admitted since the limit was last set

vars == <<calls, txns, openMandateLedger, agentRegistry, velocityLog,
          velocityLimit, now, sinceLimit>>

Request == [agent: Agents, open: OpenMandates \cup {NoOpen}, amount: Amounts,
            attested: BOOLEAN]

TxnStatus == {"none", "authorized", "captured", "declined", "requires_challenge",
              "partially_refunded", "refunded"}

\* Mutant of Trusted: the score is not asked for.
TrustedIfActive(a) == a \in Registered => agentRegistry[a].status = "active"

Trusted(a) ==
  a \in Registered =>
    /\ agentRegistry[a].status = "active"
    /\ agentRegistry[a].reputation >= TrustThreshold

Clamp(n) == IF n < 0 THEN 0 ELSE IF n > 100 THEN 100 ELSE n

\* reputationEvent: an unregistered agent has no score to move.
ReputationEvent(a, delta) ==
  agentRegistry' = IF a \in Registered
                   THEN [agentRegistry EXCEPT ![a].reputation = Clamp(@ + delta)]
                   ELSE agentRegistry

\* Mutant of Recent: the window is one tick short.
RecentShort(a) == {c \in velocityLog[a] : now - calls[c].at < Window - 1}

\* checkVelocity: the log is pruned to the rolling window before it is counted.
Recent(a) == {c \in velocityLog[a] : now - calls[c].at < Window}

-----------------------------------------------------------------------------
NoRequest == [agent |-> CHOOSE a \in Agents : TRUE, open |-> NoOpen,
              amount |-> CHOOSE n \in Amounts : TRUE, attested |-> FALSE]

Init ==
  /\ calls = [c \in Calls |-> [pc |-> "idle", req |-> NoRequest, at |-> 0]]
  /\ txns = [c \in Calls |-> [status |-> "none", refunded |-> 0]]
  /\ openMandateLedger = [m \in OpenMandates |-> [count |-> 0, spent |-> 0]]
  /\ agentRegistry = [a \in Registered |-> [status |-> "active", reputation |-> InitialScore]]
  /\ velocityLog = [a \in Agents |-> {}]
  /\ velocityLimit = InitialLimit
  /\ now = 0
  /\ sinceLimit = {}

\* Steps 1b to 3 of authorize_payment, up to the await of release_credentials.
\* scopeOk: expiry, amount, checkout hash, payee and checkout id all match; they
\* are checked after the velocity rule, which has by then counted the call.
RefuseUntrusted(c, req) ==
  /\ calls[c].pc = "idle"
  /\ ~Trusted(req.agent)
  /\ calls' = [calls EXCEPT ![c].pc = "refused", ![c].req = req]
  /\ UNCHANGED <<txns, openMandateLedger, agentRegistry, velocityLog, velocityLimit,
                 now, sinceLimit>>

RefuseVelocity(c, req) ==
  /\ calls[c].pc = "idle"
  /\ Trusted(req.agent)
  /\ Cardinality(Recent(req.agent)) >= velocityLimit
  /\ calls' = [calls EXCEPT ![c].pc = "refused", ![c].req = req]
  /\ velocityLog' = [velocityLog EXCEPT ![req.agent] = Recent(req.agent)]
  /\ ReputationEvent(req.agent, -10)
  /\ UNCHANGED <<txns, openMandateLedger, velocityLimit, now, sinceLimit>>

Admit(c, req, scopeOk) ==
  /\ calls[c].pc = "idle"
  /\ Trusted(req.agent)
  /\ Cardinality(Recent(req.agent)) < velocityLimit
  /\ calls' = [calls EXCEPT ![c] =
       [pc |-> IF scopeOk THEN "releasing" ELSE "refused", req |-> req, at |-> now]]
  /\ velocityLog' = [velocityLog EXCEPT ![req.agent] = Recent(req.agent) \cup {c}]
  /\ sinceLimit' = sinceLimit \cup {c}
  /\ UNCHANGED <<txns, openMandateLedger, agentRegistry, velocityLimit, now>>

(***************************************************************************)
(* The rest of authorize_payment, after the credentials provider answered. *)
(***************************************************************************)
\* Mutants of WithinOpenMandate: the occurrence at hand, or the charge at hand, is
\* not counted in.
WithinMandateOneMore(req) ==
  req.open # NoOpen =>
    /\ req.amount <= MaxCharge
    /\ openMandateLedger[req.open].count <= MaxOccurrences
    /\ openMandateLedger[req.open].spent + req.amount <= OpenBudget
WithinMandateSpentOnly(req) ==
  req.open # NoOpen =>
    /\ req.amount <= MaxCharge
    /\ openMandateLedger[req.open].count + 1 <= MaxOccurrences
    /\ openMandateLedger[req.open].spent <= OpenBudget

\* evaluatePaymentConstraints: range, recurrence and budget.  The payee and the
\* checkout reference are taken to be the ones the mandate names.
WithinOpenMandate(req) ==
  req.open # NoOpen =>
    /\ req.amount <= MaxCharge
    /\ openMandateLedger[req.open].count + 1 <= MaxOccurrences
    /\ openMandateLedger[req.open].spent + req.amount <= OpenBudget

ReleaseFailed(c) ==
  /\ calls[c].pc = "releasing"
  /\ calls' = [calls EXCEPT ![c].pc = "refused"]
  /\ UNCHANGED <<txns, openMandateLedger, agentRegistry, velocityLog, velocityLimit,
                 now, sinceLimit>>

ConstraintFailed(c) ==
  /\ calls[c].pc = "releasing"
  /\ ~WithinOpenMandate(calls[c].req)
  /\ calls' = [calls EXCEPT ![c].pc = "refused"]
  /\ UNCHANGED <<txns, openMandateLedger, agentRegistry, velocityLog, velocityLimit,
                 now, sinceLimit>>

\* The ledger counts the charge before the cap and the issuer are asked.
CountOccurrence(req) ==
  openMandateLedger' =
    IF req.open = NoOpen THEN openMandateLedger
    ELSE [openMandateLedger EXCEPT ![req.open] =
           [count |-> @.count + 1, spent |-> @.spent + req.amount]]

\* Mutant of Outcome: the challenge is skipped.
OutcomeUnchallenged(req, behavior) == IF behavior = "decline" THEN "declined" ELSE "authorized"

\* What the issuer simulation makes of a charge within the token's cap.
Outcome(req, behavior) ==
  IF behavior = "decline" THEN "declined"
  ELSE IF behavior = "challenge" /\ ~req.attested THEN "requires_challenge"
  ELSE "authorized"

\* Mutant of Answer: a challenge is reported as an error.
AnswerChallengeAsError(outcome) == IF outcome = "authorized" THEN "answered" ELSE "refused"

\* A declined charge is thrown as an error, everything else is answered.
Answer(outcome) == IF outcome = "declined" THEN "refused" ELSE "answered"

OverCap(c, cap) ==
  LET req == calls[c].req IN
  /\ calls[c].pc = "releasing"
  /\ WithinOpenMandate(req)
  /\ req.amount > cap
  /\ CountOccurrence(req)
  /\ ReputationEvent(req.agent, -8)
  /\ calls' = [calls EXCEPT ![c].pc = "refused"]
  /\ UNCHANGED <<txns, velocityLog, velocityLimit, now, sinceLimit>>

Settle(c, behavior, cap) ==
  LET req == calls[c].req
      outcome == Outcome(req, behavior)
  IN
  /\ calls[c].pc = "releasing"
  /\ WithinOpenMandate(req)
  /\ req.amount <= cap
  /\ CountOccurrence(req)
  /\ ReputationEvent(req.agent, IF outcome = "declined" THEN -8 ELSE 0)
  /\ txns' = [txns EXCEPT ![c].status = outcome]
  /\ calls' = [calls EXCEPT ![c].pc = Answer(outcome)]
  /\ UNCHANGED <<velocityLog, velocityLimit, now, sinceLimit>>

\* The credentials provider's answer, with the token's method and cap.
Released(c, behavior, cap) ==
  ConstraintFailed(c) \/ OverCap(c, cap) \/ Settle(c, behavior, cap)

-----------------------------------------------------------------------------
Capturable(c) == txns[c].status = "authorized"

CapturePayment(c) ==
  /\ Capturable(c)
  /\ txns' = [txns EXCEPT ![c].status = "captured"]
  /\ ReputationEvent(calls[c].req.agent, 1)
  /\ UNCHANGED <<calls, openMandateLedger, velocityLog, velocityLimit, now, sinceLimit>>

\* Mutant of RefundFits: earlier refunds are forgotten.
RefundFitsAlone(c, amount) == amount > 0 /\ amount <= calls[c].req.amount

RefundFits(c, amount) == amount > 0 /\ txns[c].refunded + amount <= calls[c].req.amount

\* refund_payment and the dashboard's /api/psp/refund, for the given amount (the
\* whole rest is what the code takes when no amount is given).
RefundPayment(c, amount) ==
  LET refunded == txns[c].refunded + amount IN
  /\ txns[c].status \in {"captured", "partially_refunded"}
  /\ RefundFits(c, amount)
  /\ txns' = [txns EXCEPT ![c] =
       [status |-> IF refunded >= calls[c].req.amount THEN "refunded"
                   ELSE "partially_refunded",
        refunded |-> refunded]]
  /\ UNCHANGED <<calls, openMandateLedger, agentRegistry, velocityLog, velocityLimit,
                 now, sinceLimit>>

\* /api/psp/registry: one request sets the status, the score or both.
EditRegistry(a, status, score) ==
  /\ agentRegistry' = [agentRegistry EXCEPT ![a] = [status |-> status, reputation |-> Clamp(score)]]
  /\ UNCHANGED <<calls, txns, openMandateLedger, velocityLog, velocityLimit, now, sinceLimit>>

\* /api/psp/velocity: a new limit forgets what the old one counted.
SetVelocityLimit(limit) ==
  /\ velocityLimit' = limit
  /\ velocityLog' = [a \in Agents |-> {}]
  /\ sinceLimit' = {}
  /\ UNCHANGED <<calls, txns, openMandateLedger, agentRegistry, now>>

Tick ==
  /\ now < MaxTime
  /\ now' = now + 1
  /\ UNCHANGED <<calls, txns, openMandateLedger, agentRegistry, velocityLog, velocityLimit,
                 sinceLimit>>

Authorize ==
  \/ \E c \in Calls, req \in Request :
       \/ RefuseUntrusted(c, req)
       \/ RefuseVelocity(c, req)
       \/ \E scopeOk \in BOOLEAN : Admit(c, req, scopeOk)
  \/ \E c \in Calls :
       \/ ReleaseFailed(c)
       \/ \E behavior \in {"ok", "challenge", "decline"}, cap \in Caps : Released(c, behavior, cap)

Admin ==
  \/ \E a \in Registered, status \in {"active", "suspended"} :
       \E score \in Scores \cup {agentRegistry[a].reputation} : EditRegistry(a, status, score)
  \/ \E limit \in Limits : SetVelocityLimit(limit)

Next ==
  \/ Authorize
  \/ \E c \in Calls : CapturePayment(c)
  \/ \E c \in Calls : \E amount \in 0..(calls[c].req.amount + 1) : RefundPayment(c, amount)
  \/ Admin
  \/ Tick

Spec == Init /\ [][Next]_vars

-----------------------------------------------------------------------------
Call == [pc: {"idle", "releasing", "refused", "answered"}, req: Request, at: Nat]

\* The state of every map of the provider has its type; a score stays in 0..100.
TypeOK ==
  /\ calls \in [Calls -> Call]
  /\ txns \in [Calls -> [status: TxnStatus, refunded: Nat]]
  /\ openMandateLedger \in [OpenMandates -> [count: Nat, spent: Nat]]
  /\ agentRegistry \in [Registered -> [status: {"active", "suspended"}, reputation: 0..100]]
  /\ velocityLog \in [Agents -> SUBSET Calls]
  /\ velocityLimit \in Nat
  /\ now \in Nat
  /\ sinceLimit \subseteq Calls

\* Refunds never exceed what was captured, and the status says exactly how much
\* of it went back: all, some, or, for every other status, nothing.  A charge of
\* nothing has nothing to give back and stays as it was captured.
RefundsWithinCapture ==
  \A c \in Calls :
    LET t == txns[c] amount == calls[c].req.amount IN
    /\ t.refunded <= amount
    /\ t.status = "refunded" <=> (0 < t.refunded /\ t.refunded = amount)
    /\ t.status = "partially_refunded" <=> (0 < t.refunded /\ t.refunded < amount)

\* The transactions that ride an open mandate.
Riding(m) == {c \in Calls : txns[c].status # "none" /\ calls[c].req.open = m}

\* However many authorize calls of one open mandate wait for credentials at the
\* same time, no more transactions ride the mandate than the user allowed
\* occurrences, and each of them is in the ledger.
OccurrencesWithinRecurrence ==
  \A m \in OpenMandates :
    /\ Cardinality(Riding(m)) <= openMandateLedger[m].count
    /\ openMandateLedger[m].count <= MaxOccurrences

\* The same for money: what the transactions of an open mandate charge is in the
\* ledger's spend, and that is within the mandate's budget.
SpendWithinOpenBudget ==
  \A m \in OpenMandates :
    /\ SumFunctionOnSet([c \in Calls |-> calls[c].req.amount], Riding(m)) <= openMandateLedger[m].spent
    /\ openMandateLedger[m].spent <= OpenBudget

\* The caller and the ledger agree on a call: an error means no money is held for
\* it, now or later, and a success means its transaction exists.
RefusedCallHoldsNoMoney ==
  \A c \in Calls :
    /\ calls[c].pc \in {"idle", "releasing"} => txns[c].status = "none"
    /\ calls[c].pc = "refused" => txns[c].status \in {"none", "declined"}
    /\ calls[c].pc = "answered" => txns[c].status \notin {"none", "declined"}

\* In any window since the limit was set, no agent gets more calls past the
\* velocity rule than the limit, those that fail a later check included.
VelocityRespected ==
  \A a \in Agents :
    Cardinality({c \in sinceLimit : calls[c].req.agent = a /\ now - calls[c].at < Window})
      <= velocityLimit

LockedOut(a) ==
  /\ agentRegistry[a].reputation < TrustThreshold
  /\ \A c \in Calls : calls[c].req.agent = a =>
       calls[c].pc # "releasing" /\ txns[c].status # "authorized"

\* What LockoutNeedsAdmin says of one step.
LockoutStep ==
  \A a \in Registered : (LockedOut(a) /\ ~LockedOut(a)') => UNCHANGED <<calls, txns>>

\* An agent whose score fell below the threshold, and who has no call or capture
\* under way any more, stays out: nothing but an admin's edit lets it pay again.
LockoutNeedsAdmin == [][LockoutStep]_vars

\* What TxnProgress says of one step.
TxnStep ==
  \A c \in Calls :
    /\ txns[c].status \in {"declined", "requires_challenge", "refunded"} => txns'[c] = txns[c]
    /\ (txns[c].status # "captured" /\ txns'[c].status = "captured")
         => txns[c].status = "authorized"
    /\ txns'[c].refunded >= txns[c].refunded
    /\ txns[c].status \in {"captured", "partially_refunded"}
         => txns'[c].status \in {"captured", "partially_refunded", "refunded"}

\* A transaction moves forward only: a challenged or declined one stays so (the
\* retry is a transaction of its own), a capture needs an authorization, and
\* money given back is never taken again.
TxnProgress == [][TxnStep]_vars
=============================================================================
