------------------------------- MODULE Wallet -------------------------------
(***************************************************************************)
(* The credentials provider ("Walletly",                                   *)
(* src/apps/credentials-provider/src/server.ts): the spend policy of the   *)
(* user's agent, the approval inbox, the single-use network tokens and the *)
(* payment mandates it signs.  Every handler modelled here runs without an *)
(* await, so one action is one handler.  A refused call changes nothing    *)
(* but the activity log, so it is no step.                                 *)
(*                                                                         *)
(* A payment method is named by the outcome the demo gives it ("ok",       *)
(* "challenge" or "decline"); time is a counter of ticks.                  *)
(***************************************************************************)
EXTENDS Integers, FiniteSets, FiniteSetsExt

CONSTANTS
  Tokens,       \* token values mint_instrument can draw (random ids)
  Checkouts,    \* checkout sessions at the merchants
  Merchants,    \* merchants; MerchantOf says whose session a checkout is
  MerchantOf,
  Methods,      \* payment methods, a subset of Behaviors
  Amounts,      \* minor units an agent asks for
  Policies,     \* the policies the user can save (without the spent meter)
  InitialPolicy,
  ApprovalTTL,  \* APPROVAL_TTL_MS in ticks
  MaxTime       \* bound on the clock

Behaviors == {"ok", "challenge", "decline"}
Autonomy == {"always_ask", "ask_above", "autonomous"}

PolicySettings ==
  [autonomy: Autonomy, askAbove: Nat, perTxCap: Nat, budget: Nat,
   allowed: SUBSET Merchants, validUntil: Nat]

ASSUME WalletAssumption ==
  /\ Checkouts # {}
  /\ MerchantOf \in [Checkouts -> Merchants]
  /\ Methods \subseteq Behaviors
  /\ Methods # {}
  /\ Amounts \subseteq Nat
  /\ Policies \subseteq PolicySettings
  /\ InitialPolicy \in Policies
  /\ ApprovalTTL \in Nat \ {0}
  /\ MaxTime \in Nat

VARIABLES
  agentPolicy,  \* the saved settings and the spent meter
  tokens,       \* what was minted under each token value
  approvals,    \* the approval of each checkout ("none" before it is asked)
  mandates,     \* payment mandates signed for a present user
  now,          \* the clock
  metered       \* history: tokens counted in the spent meter since its last reset

vars == <<agentPolicy, tokens, approvals, mandates, now, metered>>

Token ==
  [minted: BOOLEAN, checkout: Checkouts, method: Methods, amount: Nat,
   cap: Nat, remaining: Nat, used: BOOLEAN, releases: Nat, revoked: BOOLEAN]

Approval ==
  [status: {"none", "pending", "approved", "denied"}, amount: Nat, decidedAt: Nat]

Mandate == [checkout: Checkouts, amount: Nat]

(***************************************************************************)
(* The policy check made when a token is minted and when a payment mandate *)
(* is signed, and the approval that waives its autonomy gate.              *)
(***************************************************************************)
ApprovedFor(c) ==
  /\ approvals[c].status = "approved"
  /\ now - approvals[c].decidedAt < ApprovalTTL

AutonomyAllows(amount) ==
  /\ agentPolicy.autonomy # "always_ask"
  /\ agentPolicy.autonomy = "ask_above" => amount <= agentPolicy.askAbove

\* Mutant of CheckPolicy: the budget is forgotten.
CheckPolicyNoBudget(c, amount, humanPresent) ==
  /\ now <= agentPolicy.validUntil
  /\ amount <= agentPolicy.perTxCap
  /\ MerchantOf[c] \in agentPolicy.allowed
  /\ humanPresent \/ ApprovedFor(c) \/ AutonomyAllows(amount)

CheckPolicy(c, amount, humanPresent) ==
  /\ now <= agentPolicy.validUntil
  /\ amount <= agentPolicy.perTxCap
  /\ agentPolicy.spent + amount <= agentPolicy.budget
  /\ MerchantOf[c] \in agentPolicy.allowed
  /\ humanPresent \/ ApprovedFor(c) \/ AutonomyAllows(amount)

BudgetRemaining ==
  IF agentPolicy.budget > agentPolicy.spent
  THEN agentPolicy.budget - agentPolicy.spent ELSE 0

-----------------------------------------------------------------------------
NoToken ==
  [minted |-> FALSE, checkout |-> CHOOSE c \in Checkouts : TRUE,
   method |-> CHOOSE m \in Methods : TRUE, amount |-> 0, cap |-> 0,
   remaining |-> 0, used |-> FALSE, releases |-> 0, revoked |-> FALSE]

WithSpent(p, spent) ==
  [autonomy |-> p.autonomy, askAbove |-> p.askAbove, perTxCap |-> p.perTxCap,
   budget |-> p.budget, allowed |-> p.allowed, validUntil |-> p.validUntil,
   spent |-> spent]

Init ==
  /\ agentPolicy = WithSpent(InitialPolicy, 0)
  /\ tokens = [t \in Tokens |-> NoToken]
  /\ approvals = [c \in Checkouts |-> [status |-> "none", amount |-> 0, decidedAt |-> 0]]
  /\ mandates = {}
  /\ now = 0
  /\ metered = {}

\* mint_instrument: the token carries its context and a snapshot of the policy.
MintInstrument(t, m, c, amount, humanPresent) ==
  /\ ~tokens[t].minted
  /\ CheckPolicy(c, amount, humanPresent)
  /\ tokens' = [tokens EXCEPT ![t] =
       [NoToken EXCEPT !.minted = TRUE, !.checkout = c, !.method = m,
                       !.amount = amount, !.cap = agentPolicy.perTxCap,
                       !.remaining = BudgetRemaining]]
  /\ UNCHANGED <<agentPolicy, approvals, mandates, now, metered>>

\* sign_mandate, kind PaymentMandate: the same policy check at the signing surface.
SignPaymentMandate(c, amount, humanPresent) ==
  /\ CheckPolicy(c, amount, humanPresent)
  /\ mandates' = mandates \cup {[checkout |-> c, amount |-> amount]}
  /\ UNCHANGED <<agentPolicy, tokens, approvals, now, metered>>

\* request_approval: an approval that exists for the checkout is returned as it is.
RequestApproval(c, amount) ==
  /\ approvals[c].status = "none"
  /\ approvals' = [approvals EXCEPT ![c].status = "pending", ![c].amount = amount]
  /\ UNCHANGED <<agentPolicy, tokens, mandates, now, metered>>

\* Mutant of Undecided: a decision can be taken back.
UndecidedOrDecided(c) == approvals[c].status # "none"

Undecided(c) == approvals[c].status = "pending"

\* The user decides in the inbox; only a pending approval can be decided.
DecideApproval(c, decision) ==
  /\ Undecided(c)
  /\ approvals' = [approvals EXCEPT ![c].status = decision, ![c].decidedAt = now]
  /\ UNCHANGED <<agentPolicy, tokens, mandates, now, metered>>

\* Mutant of Releasable: revocation ignored.
ReleasableThoughRevoked(t) ==
  /\ tokens[t].minted
  /\ ~(tokens[t].used /\ tokens[t].releases >= 2)

\* A token is released to the PSP unless it is unknown, revoked or used twice.
Releasable(t) ==
  /\ tokens[t].minted
  /\ ~tokens[t].revoked
  /\ ~(tokens[t].used /\ tokens[t].releases >= 2)

\* Mutants of Metered: every release counts; only the second one does.
MeteredAlways(t) == tokens[t].amount
MeteredOnRetry(t) == IF tokens[t].releases = 1 THEN tokens[t].amount ELSE 0

\* What a release adds to the spent meter: only the first one counts.
Metered(t) == IF tokens[t].releases = 0 THEN tokens[t].amount ELSE 0

ReleaseCredentials(t) ==
  /\ Releasable(t)
  /\ tokens' = [tokens EXCEPT ![t].used = TRUE, ![t].releases = @ + 1]
  /\ agentPolicy' = [agentPolicy EXCEPT !.spent = @ + Metered(t)]
  /\ metered' = IF tokens[t].releases = 0 THEN metered \cup {t} ELSE metered
  /\ UNCHANGED <<approvals, mandates, now>>

\* Dashboard: the user revokes a token.
RevokeToken(t) ==
  /\ tokens[t].minted
  /\ tokens' = [tokens EXCEPT ![t].revoked = TRUE]
  /\ UNCHANGED <<agentPolicy, approvals, mandates, now, metered>>

\* Dashboard: the user saves other settings and may zero the spent meter.
EditPolicy(p, resetSpent) ==
  /\ agentPolicy' = WithSpent(p, IF resetSpent THEN 0 ELSE agentPolicy.spent)
  /\ metered' = IF resetSpent THEN {} ELSE metered
  /\ UNCHANGED <<tokens, approvals, mandates, now>>

Tick ==
  /\ now < MaxTime
  /\ now' = now + 1
  /\ UNCHANGED <<agentPolicy, tokens, approvals, mandates, metered>>

Next ==
  \/ \E t \in Tokens, m \in Methods, c \in Checkouts, amount \in Amounts, hp \in BOOLEAN :
       MintInstrument(t, m, c, amount, hp)
  \/ \E c \in Checkouts, amount \in Amounts, hp \in BOOLEAN : SignPaymentMandate(c, amount, hp)
  \/ \E c \in Checkouts, amount \in Amounts : RequestApproval(c, amount)
  \/ \E c \in Checkouts, d \in {"approved", "denied"} : DecideApproval(c, d)
  \/ \E t \in Tokens : ReleaseCredentials(t)
  \/ \E t \in Tokens : RevokeToken(t)
  \/ \E p \in Policies, reset \in BOOLEAN : EditPolicy(p, reset)
  \/ Tick

Spec == Init /\ [][Next]_vars

-----------------------------------------------------------------------------
\* The state of every map of the provider has its type.
TypeOK ==
  /\ agentPolicy \in [autonomy: Autonomy, askAbove: Nat, perTxCap: Nat, budget: Nat,
                      allowed: SUBSET Merchants, validUntil: Nat, spent: Nat]
  /\ tokens \in [Tokens -> Token]
  /\ approvals \in [Checkouts -> Approval]
  /\ mandates \subseteq Mandate
  /\ now \in Nat
  /\ metered \subseteq Tokens

\* The spent meter is what the released tokens were minted for: each token
\* released since the last reset counts once, whether it was released once or,
\* for a 3DS retry, twice, and a token that was never released counts nothing.
SpentMeter ==
  /\ agentPolicy.spent = SumFunctionOnSet([t \in Tokens |-> tokens[t].amount], metered)
  /\ \A t \in metered : tokens[t].used

\* A token settles at most one authorize-retry pair: it is never released more
\* than twice, "used" is exactly "released", and only a minted token is released.
ReleaseBound ==
  \A t \in Tokens :
    /\ tokens[t].releases <= 2
    /\ tokens[t].used <=> tokens[t].releases > 0
    /\ tokens[t].used => tokens[t].minted

\* What TokenScopeIsFixed says of one step.
TokenScopeStep ==
  \A t \in Tokens : tokens[t].minted =>
    /\ [tokens'[t] EXCEPT !.used = tokens[t].used, !.releases = tokens[t].releases,
                          !.revoked = tokens[t].revoked] = tokens[t]
    /\ tokens[t].revoked => tokens'[t] = tokens[t]

\* What a token is bound to never changes after mint_instrument, and revocation
\* is final: no release of the token follows it, whatever was in flight.
TokenScopeIsFixed == [][TokenScopeStep]_vars

\* What OvershootNeedsStaleScope says of one step.
OvershootStep ==
  \A t \in Tokens :
    (/\ tokens'[t].releases > tokens[t].releases
     /\ agentPolicy'.spent > agentPolicy.spent
     /\ agentPolicy'.spent > agentPolicy.budget)
      => tokens[t].remaining # BudgetRemaining

\* A release overshoots the budget only with a stale scope: when the meter rises
\* past the budget, the budget left had already changed since that token was
\* minted (another token was released, or the user lowered it, in between).
OvershootNeedsStaleScope == [][OvershootStep]_vars

\* What DecisionIsFinal says of one step.
DecisionStep ==
  \A c \in Checkouts : approvals[c].status \in {"approved", "denied"} =>
    /\ approvals'[c] = approvals[c]
    /\ ApprovedFor(c)' => ApprovedFor(c)

\* A decision is final and expires for good: no request, decision or retry changes
\* it, so once the approval of a checkout has been denied, or was approved longer
\* ago than its lifetime, it never waives the autonomy gate of that checkout again.
DecisionIsFinal == [][DecisionStep]_vars

\* types.ts:482 calls budget the "total budget for the validity window" and
\* README.md:70 a "total budget with a live spent meter": as long as nobody
\* edits the policy the meter would never pass it.
WithinBudget == agentPolicy.spent <= agentPolicy.budget
=============================================================================
