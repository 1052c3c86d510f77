---------------------------- MODULE Wallet_proofs ----------------------------
(***************************************************************************)
(* Proofs about Wallet, for every set of tokens, checkouts and policies.   *)
(***************************************************************************)
EXTENDS Wallet, Sums, TLAPS

\* The policy settings of the wallet, with the meter.
Policy ==
  [autonomy: Autonomy, askAbove: Nat, perTxCap: Nat, budget: Nat,
   allowed: SUBSET Merchants, validUntil: Nat, spent: Nat]

\* Saving settings keeps a policy well typed.
LEMMA WithSpentTyped ==
  ASSUME NEW p \in PolicySettings, NEW spent \in Nat
  PROVE  WithSpent(p, spent) \in Policy
  BY DEF WithSpent, PolicySettings, Policy

\* A token value nothing was minted under is a token.
LEMMA NoTokenTyped == NoToken \in Token
  BY WalletAssumption DEF NoToken, Token

\* Every step of the wallet keeps the types of its state.
LEMMA TypeStep == TypeOK /\ [Next]_vars => TypeOK'
  <1>. SUFFICES ASSUME TypeOK, [Next]_vars PROVE TypeOK'
    OBVIOUS
  <1>. USE WalletAssumption
  <1>1. /\ agentPolicy \in Policy /\ tokens \in [Tokens -> Token]
        /\ approvals \in [Checkouts -> Approval] /\ now \in Nat
    BY DEF TypeOK, Policy
  <1>2. ASSUME NEW t \in Tokens, NEW m \in Methods, NEW c \in Checkouts, NEW amount \in Amounts,
               NEW hp \in BOOLEAN, MintInstrument(t, m, c, amount, hp)
        PROVE TypeOK'
    <2>1. agentPolicy.perTxCap \in Nat /\ BudgetRemaining \in Nat
      BY <1>1 DEF BudgetRemaining, Policy
    <2>. DEFINE token == [NoToken EXCEPT !.minted = TRUE, !.checkout = c, !.method = m,
                            !.amount = amount, !.cap = agentPolicy.perTxCap,
                            !.remaining = BudgetRemaining]
    <2>2. token \in Token
      BY <2>1, NoTokenTyped DEF Token
    <2>3. tokens' = [tokens EXCEPT ![t] = token]
      BY <1>2 DEF MintInstrument
    <2>. HIDE DEF token
    <2>4. tokens' \in [Tokens -> Token]
      BY <1>1, <2>2, <2>3
    <2>. QED BY <1>2, <2>4 DEF MintInstrument, TypeOK
  <1>3. ASSUME NEW c \in Checkouts, NEW amount \in Amounts, NEW hp \in BOOLEAN,
               SignPaymentMandate(c, amount, hp)
        PROVE TypeOK'
    BY <1>3 DEF SignPaymentMandate, TypeOK, Mandate
  <1>4. ASSUME NEW c \in Checkouts, NEW amount \in Amounts, RequestApproval(c, amount)
        PROVE TypeOK'
    <2>1. [approvals[c] EXCEPT !.status = "pending", !.amount = amount] \in Approval
      BY <1>1 DEF Approval
    <2>2. approvals' = [approvals EXCEPT ![c] =
             [approvals[c] EXCEPT !.status = "pending", !.amount = amount]]
      BY <1>4 DEF RequestApproval
    <2>3. approvals' \in [Checkouts -> Approval]
      BY <1>1, <2>1, <2>2
    <2>. QED BY <1>4, <2>3 DEF RequestApproval, TypeOK
  <1>5. ASSUME NEW c \in Checkouts, NEW d \in {"approved", "denied"}, DecideApproval(c, d)
        PROVE TypeOK'
    <2>1. [approvals[c] EXCEPT !.status = d, !.decidedAt = now] \in Approval
      BY <1>1 DEF Approval
    <2>2. approvals' = [approvals EXCEPT ![c] =
             [approvals[c] EXCEPT !.status = d, !.decidedAt = now]]
      BY <1>5 DEF DecideApproval
    <2>3. approvals' \in [Checkouts -> Approval]
      BY <1>1, <2>1, <2>2
    <2>. QED BY <1>5, <2>3 DEF DecideApproval, TypeOK
  <1>6. ASSUME NEW t \in Tokens, ReleaseCredentials(t) PROVE TypeOK'
    <2>1. tokens[t] \in Token /\ Metered(t) \in Nat
      BY <1>1 DEF Token, Metered
    <2>. DEFINE token == [tokens[t] EXCEPT !.used = TRUE, !.releases = tokens[t].releases + 1]
    <2>2. token \in Token
      <3>1. tokens[t].releases + 1 \in Nat
        BY <2>1 DEF Token
      <3>. QED BY <2>1, <3>1 DEF Token
    <2>3. tokens' = [tokens EXCEPT ![t] = token]
      BY <1>6 DEF ReleaseCredentials
    <2>. HIDE DEF token
    <2>4. tokens' \in [Tokens -> Token]
      BY <1>1, <2>2, <2>3
    <2>5. agentPolicy' \in Policy
      <3>1. agentPolicy.spent + Metered(t) \in Nat
        BY <1>1, <2>1 DEF Policy
      <3>. QED BY <1>1, <1>6, <3>1 DEF ReleaseCredentials, Policy
    <2>6. /\ approvals' = approvals /\ mandates' = mandates /\ now' = now
          /\ metered' = IF tokens[t].releases = 0 THEN metered \cup {t} ELSE metered
      BY <1>6 DEF ReleaseCredentials
    <2>. QED BY <2>4, <2>5, <2>6 DEF TypeOK, Policy
  <1>7. ASSUME NEW t \in Tokens, RevokeToken(t) PROVE TypeOK'
    <2>1. tokens' \in [Tokens -> Token]
      <3>. DEFINE token == [tokens[t] EXCEPT !.revoked = TRUE]
      <3>1. token \in Token
        <4>1. tokens[t] \in Token
          BY <1>1
        <4>. QED BY <4>1 DEF Token
      <3>2. tokens' = [tokens EXCEPT ![t] = [tokens[t] EXCEPT !.revoked = TRUE]]
        BY <1>7 DEF RevokeToken
      <3>. QED BY <1>1, <3>1, <3>2
    <2>. QED BY <1>7, <2>1 DEF RevokeToken, TypeOK
  <1>8. ASSUME NEW p \in Policies, NEW reset \in BOOLEAN, EditPolicy(p, reset) PROVE TypeOK'
    <2>1. agentPolicy.spent \in Nat
      BY <1>1 DEF Policy
    <2>2. agentPolicy' \in Policy
      BY <1>8, <2>1, WithSpentTyped DEF EditPolicy
    <2>. QED BY <1>8, <2>2 DEF EditPolicy, TypeOK, Policy
  <1>9. CASE Tick
    BY <1>9 DEF Tick, TypeOK
  <1>10. CASE UNCHANGED vars
    BY <1>10 DEF vars, TypeOK
  <1>. QED BY <1>2, <1>3, <1>4, <1>5, <1>6, <1>7, <1>8, <1>9, <1>10 DEF Next

\* The initial state has its types.
LEMMA TypeInit == Init => TypeOK
  <1>1. Init => agentPolicy \in Policy
    BY WithSpentTyped, WalletAssumption DEF Init
  <1>2. Init => tokens \in [Tokens -> Token]
    BY NoTokenTyped DEF Init
  <1>. QED BY <1>1, <1>2 DEF Init, TypeOK, Policy, Approval

\* Types hold in every reachable state, for every value of the constants.
THEOREM TypeCorrect == Spec => []TypeOK
  BY TypeInit, TypeStep, PTL DEF Spec
-----------------------------------------------------------------------------
(***************************************************************************)
(* What one step does to one token and the policy.                         *)
(***************************************************************************)
Mints(t) ==
  /\ ~tokens[t].minted
  /\ tokens'[t].minted /\ ~tokens'[t].used /\ tokens'[t].releases = 0
  /\ tokens'[t].amount \in Amounts
  /\ tokens'[t].amount <= tokens'[t].remaining
  /\ UNCHANGED agentPolicy

Releases(t) ==
  /\ Releasable(t)
  /\ tokens'[t] = [tokens[t] EXCEPT !.used = TRUE, !.releases = tokens[t].releases + 1]
  /\ agentPolicy' = [agentPolicy EXCEPT !.spent = agentPolicy.spent + Metered(t)]

Revokes(t) ==
  /\ tokens[t].minted
  /\ tokens'[t] = [tokens[t] EXCEPT !.revoked = TRUE]
  /\ UNCHANGED agentPolicy

OneTokenStep ==
  \/ UNCHANGED tokens
  \/ \E t \in Tokens :
       /\ \A u \in Tokens \ {t} : tokens'[u] = tokens[u]
       /\ Mints(t) \/ Releases(t) \/ Revokes(t)

\* Each action of the wallet changes one token in one of these ways, or none.  A
\* token is minted for no more than the budget left, which it carries along.
LEMMA StepsAreOneTokenSteps == TypeOK /\ [Next]_vars => OneTokenStep
  <1>. SUFFICES ASSUME TypeOK, [Next]_vars PROVE OneTokenStep
    OBVIOUS
  <1>1. /\ tokens \in [Tokens -> Token] /\ agentPolicy \in Policy
        /\ NoToken \in Token /\ Amounts \subseteq Nat
    BY NoTokenTyped, WalletAssumption DEF TypeOK, Policy
  <1>2. ASSUME NEW t \in Tokens, NEW m \in Methods, NEW c \in Checkouts, NEW amount \in Amounts,
               NEW hp \in BOOLEAN, MintInstrument(t, m, c, amount, hp)
        PROVE OneTokenStep
    <2>1. tokens'[t] = [NoToken EXCEPT !.minted = TRUE, !.checkout = c, !.method = m,
                          !.amount = amount, !.cap = agentPolicy.perTxCap,
                          !.remaining = BudgetRemaining]
      BY <1>1, <1>2 DEF MintInstrument
    <2>2. amount <= BudgetRemaining
      BY <1>1, <1>2 DEF MintInstrument, CheckPolicy, BudgetRemaining, Policy
    <2>3. /\ tokens'[t].minted /\ tokens'[t].amount = amount
          /\ tokens'[t].remaining = BudgetRemaining
          /\ ~tokens'[t].used /\ tokens'[t].releases = 0
      BY <2>1 DEF NoToken
    <2>4. Mints(t)
      BY <1>2, <2>2, <2>3 DEF Mints, MintInstrument
    <2>5. \A u \in Tokens \ {t} : tokens'[u] = tokens[u]
      BY <1>1, <1>2 DEF MintInstrument
    <2>. QED BY <2>4, <2>5 DEF OneTokenStep
  <1>3. ASSUME NEW t \in Tokens, ReleaseCredentials(t) PROVE OneTokenStep
    <2>1. Releases(t)
      BY <1>1, <1>3 DEF ReleaseCredentials, Releases
    <2>2. \A u \in Tokens \ {t} : tokens'[u] = tokens[u]
      BY <1>1, <1>3 DEF ReleaseCredentials
    <2>. QED BY <2>1, <2>2 DEF OneTokenStep
  <1>4. ASSUME NEW t \in Tokens, RevokeToken(t) PROVE OneTokenStep
    <2>1. Revokes(t)
      BY <1>1, <1>4 DEF RevokeToken, Revokes
    <2>2. \A u \in Tokens \ {t} : tokens'[u] = tokens[u]
      BY <1>1, <1>4 DEF RevokeToken
    <2>. QED BY <2>1, <2>2 DEF OneTokenStep
  <1>. QED BY <1>2, <1>3, <1>4
           DEF Next, SignPaymentMandate, RequestApproval, DecideApproval, EditPolicy, Tick,
               vars, OneTokenStep

-----------------------------------------------------------------------------
(***************************************************************************)
(* Releases and the budget left that a token carries.                      *)
(***************************************************************************)
\* A minted token was for an amount within the budget left at that time.
TokenInv ==
  /\ TypeOK
  /\ ReleaseBound
  /\ \A t \in Tokens : tokens[t].minted =>
       tokens[t].amount <= tokens[t].remaining

\* TokenInv is inductive.
LEMMA TokenStep == TokenInv /\ [Next]_vars => TokenInv'
  <1>. SUFFICES ASSUME TokenInv, [Next]_vars PROVE TokenInv'
    OBVIOUS
  <1>1. TypeOK /\ TypeOK' /\ OneTokenStep
    BY TypeStep, StepsAreOneTokenSteps DEF TokenInv
  <1>. DEFINE Good(x) == /\ x.releases <= 2
                         /\ x.used <=> x.releases > 0
                         /\ x.used => x.minted
                         /\ x.minted => x.amount <= x.remaining
  <1>2. \A t \in Tokens : Good(tokens[t]) /\ tokens[t] \in Token
    BY <1>1 DEF TokenInv, ReleaseBound, TypeOK
  <1>3. ASSUME NEW t \in Tokens, Mints(t) PROVE Good(tokens'[t])
    BY <1>3 DEF Mints
  <1>4. ASSUME NEW t \in Tokens, Releases(t) PROVE Good(tokens'[t])
    BY <1>2, <1>4 DEF Releases, Releasable, Token
  <1>5. ASSUME NEW t \in Tokens, Revokes(t) PROVE Good(tokens'[t])
    BY <1>2, <1>5 DEF Revokes, Token
  <1>. HIDE DEF Good
  <1>6. \A t \in Tokens : Good(tokens'[t])
    BY <1>1, <1>2, <1>3, <1>4, <1>5 DEF OneTokenStep
  <1>. QED BY <1>1, <1>6 DEF Good, TokenInv, ReleaseBound

\* TokenInv holds in the initial states.
LEMMA TokenInit == Init => TokenInv
  BY TypeInit DEF Init, NoToken, TokenInv, ReleaseBound

\* TokenInv holds in every reachable state.
LEMMA TokenIsInvariant == Spec => []TokenInv
  BY TokenInit, TokenStep, PTL DEF Spec

\* No token is ever released more than twice, nor one that was not minted.
THEOREM ReleasesAreBounded == Spec => []ReleaseBound
  BY TokenIsInvariant, PTL DEF TokenInv

\* Nothing changes what a token is bound to, and nothing releases a revoked one.
THEOREM ScopeIsFixed == Spec => TokenScopeIsFixed
  <1>1. ASSUME TypeOK, [Next]_vars PROVE TokenScopeStep
    <2>1. OneTokenStep /\ \A t \in Tokens : tokens[t] \in Token
      BY <1>1, StepsAreOneTokenSteps DEF TypeOK
    <2>2. ASSUME NEW t \in Tokens, tokens[t].minted,
                 tokens'[t] = tokens[t] \/ Mints(t) \/ Releases(t) \/ Revokes(t)
          PROVE  /\ [tokens'[t] EXCEPT !.used = tokens[t].used, !.releases = tokens[t].releases,
                                       !.revoked = tokens[t].revoked] = tokens[t]
                 /\ tokens[t].revoked => tokens'[t] = tokens[t]
      <3>1. tokens[t] \in Token
        BY <2>1
      <3>. QED BY <2>2, <3>1 DEF Mints, Releases, Releasable, Revokes, Token
    <2>. QED BY <2>1, <2>2 DEF OneTokenStep, TokenScopeStep
  <1>. QED BY <1>1, TypeInit, TypeStep, PTL DEF Spec, TokenScopeIsFixed

\* A release passes the budget only if the budget left is no longer what it was
\* when the token was minted.
THEOREM OvershootIsStale == Spec => OvershootNeedsStaleScope
  <1>1. ASSUME TokenInv, [Next]_vars PROVE OvershootStep
    <2>. SUFFICES ASSUME NEW t \in Tokens,
                         tokens'[t].releases > tokens[t].releases,
                         agentPolicy'.spent > agentPolicy.spent,
                         agentPolicy'.spent > agentPolicy.budget,
                         tokens[t].remaining = BudgetRemaining
                  PROVE FALSE
      BY DEF OvershootStep
    <2>1. /\ OneTokenStep /\ TypeOK /\ tokens[t] \in Token /\ agentPolicy \in Policy
          /\ tokens[t].minted => tokens[t].amount <= tokens[t].remaining
      BY <1>1, StepsAreOneTokenSteps DEF TokenInv, TypeOK, Policy
    <2>2. /\ tokens[t].releases \in Nat /\ tokens[t].amount \in Nat
          /\ agentPolicy.spent \in Nat /\ agentPolicy.budget \in Nat
      BY <2>1 DEF Token, Policy
    <2>3. tokens'[t] # tokens[t] /\ ~Mints(t) /\ ~Revokes(t)
      BY <2>1, <2>2 DEF Mints, Revokes, Token
    <2>4. Releases(t)
      BY <2>1, <2>3 DEF OneTokenStep
    <2>5. /\ agentPolicy'.spent = agentPolicy.spent + Metered(t)
          /\ tokens[t].minted /\ Metered(t) \in {0, tokens[t].amount}
      BY <2>1, <2>4 DEF Releases, Releasable, Metered, Policy
    <2>. QED BY <2>1, <2>2, <2>5 DEF BudgetRemaining
  <1>. QED BY <1>1, TokenIsInvariant, PTL DEF Spec, OvershootNeedsStaleScope

-----------------------------------------------------------------------------
\* A decision about an approval is never changed, and an expired one stays expired.
THEOREM DecisionsAreFinal == Spec => DecisionIsFinal
  <1>1. ASSUME TypeOK, [Next]_vars PROVE DecisionStep
    <2>. SUFFICES ASSUME NEW c \in Checkouts, approvals[c].status \in {"approved", "denied"}
                  PROVE  approvals'[c] = approvals[c] /\ (ApprovedFor(c)' => ApprovedFor(c))
      BY DEF DecisionStep
    <2>1. /\ approvals \in [Checkouts -> Approval] /\ now \in Nat
          /\ approvals[c].decidedAt \in Nat /\ ApprovalTTL \in Nat
      BY <1>1, WalletAssumption DEF TypeOK, Approval
    <2>2. now' = now \/ now' = now + 1
      BY <1>1 DEF Next, MintInstrument, SignPaymentMandate, RequestApproval, DecideApproval,
                  ReleaseCredentials, RevokeToken, EditPolicy, Tick, vars
    <2>3. approvals'[c] = approvals[c]
      BY <1>1, <2>1 DEF Next, MintInstrument, SignPaymentMandate, RequestApproval, DecideApproval,
                        Undecided, ReleaseCredentials, RevokeToken, EditPolicy, Tick, vars
    <2>. QED BY <2>1, <2>2, <2>3 DEF ApprovedFor
  <1>. QED BY <1>1, TypeInit, TypeStep, PTL DEF Spec, DecisionIsFinal
-----------------------------------------------------------------------------
(***************************************************************************)
(* The spent meter as a sum over the tokens released since its last reset. *)
(***************************************************************************)
\* What each token was minted for.
AmountOf == [t \in Tokens |-> tokens[t].amount]

\* The tokens that the meter counts are finitely many.
MeterInv == TokenInv /\ SpentMeter /\ IsFiniteSet(metered)

\* Tokens keep what they were minted for, so a sum over minted ones stays.
LEMMA MeterKept ==
  ASSUME MeterInv, TypeOK', \A t \in metered : tokens'[t].amount = tokens[t].amount
  PROVE  SumFunctionOnSet(AmountOf', metered) = agentPolicy.spent
  <1>1. /\ IsFiniteSet(metered) /\ metered \subseteq Tokens
        /\ SumFunctionOnSet(AmountOf, metered) = agentPolicy.spent
    BY DEF MeterInv, TokenInv, TypeOK, SpentMeter, AmountOf
  <1>2. \A t \in metered : AmountOf[t] = AmountOf'[t]
    BY <1>1 DEF AmountOf
  <1>. QED BY <1>1, <1>2, SumSame

\* MeterInv is inductive: a first release adds its token to the sum, a second
\* one adds nothing, and a reset empties it.
LEMMA MeterStep == MeterInv /\ [Next]_vars => MeterInv'
  <1>. SUFFICES ASSUME MeterInv, [Next]_vars PROVE MeterInv'
    OBVIOUS
  <1>. USE WalletAssumption
  <1>1. /\ TokenInv /\ TokenInv' /\ TypeOK /\ TypeOK' /\ OneTokenStep /\ ReleaseBound
        /\ IsFiniteSet(metered) /\ metered \subseteq Tokens /\ metered' \subseteq Tokens
        /\ tokens \in [Tokens -> Token] /\ tokens' \in [Tokens -> Token]
        /\ agentPolicy \in Policy
        /\ \A t \in metered : tokens[t].used /\ tokens[t].minted
        /\ SumFunctionOnSet(AmountOf, metered) = agentPolicy.spent
    BY TokenStep, StepsAreOneTokenSteps
       DEF MeterInv, TokenInv, TypeOK, SpentMeter, ReleaseBound, Policy, AmountOf
  <1>2. \A t \in metered : tokens'[t].amount = tokens[t].amount /\ tokens'[t].used
    <2>1. ASSUME NEW t \in metered, Mints(t) \/ Releases(t) \/ Revokes(t)
          PROVE  tokens'[t].amount = tokens[t].amount /\ tokens'[t].used
      <3>1. tokens[t] \in Token /\ tokens[t].used /\ tokens[t].minted
        BY <1>1
      <3>. QED BY <2>1, <3>1 DEF Mints, Releases, Revokes, Token
    <2>. QED BY <1>1, <2>1 DEF OneTokenStep
  <1>3. SumFunctionOnSet(AmountOf', metered) = agentPolicy.spent
    BY <1>1, <1>2, MeterKept
  <1>4. CASE metered' = metered /\ agentPolicy'.spent = agentPolicy.spent
    BY <1>1, <1>2, <1>3, <1>4 DEF MeterInv, SpentMeter, AmountOf
  <1>5. ASSUME NEW t \in Tokens, ReleaseCredentials(t) PROVE MeterInv'
    <2>1. /\ tokens[t] \in Token /\ tokens[t].releases \in Nat /\ tokens[t].amount \in Nat
          /\ tokens[t].used <=> tokens[t].releases > 0
          /\ agentPolicy.spent \in Nat
          /\ agentPolicy'.spent = agentPolicy.spent + Metered(t)
          /\ metered' = IF tokens[t].releases = 0 THEN metered \cup {t} ELSE metered
          /\ tokens'[t] = [tokens[t] EXCEPT !.used = TRUE, !.releases = tokens[t].releases + 1]
      BY <1>1, <1>5 DEF ReleaseCredentials, Policy, Token, ReleaseBound
    <2>2. CASE tokens[t].releases # 0
      BY <1>4, <2>1, <2>2 DEF Metered
    <2>3. CASE tokens[t].releases = 0
      <3>1. t \notin metered /\ metered' = metered \cup {t} /\ IsFiniteSet(metered')
        BY <1>1, <2>1, <2>3, FS_AddElement
      <3>2. /\ tokens'[t].amount = tokens[t].amount /\ tokens'[t].used
            /\ agentPolicy'.spent = tokens[t].amount + agentPolicy.spent
        BY <2>1, <2>3 DEF Metered, Token
      <3>3. \A u \in metered \cup {t} : AmountOf'[u] \in Nat
        BY <1>1 DEF AmountOf, Token
      <3>4. SumFunctionOnSet(AmountOf', metered \cup {t})
              = AmountOf'[t] + SumFunctionOnSet(AmountOf', metered)
        BY <1>1, <3>1, <3>3, SumAdd
      <3>5. AmountOf'[t] = tokens[t].amount
        BY <3>2 DEF AmountOf
      <3>. QED BY <1>1, <1>2, <1>3, <3>1, <3>2, <3>4, <3>5 DEF MeterInv, SpentMeter, AmountOf
    <2>. QED BY <2>2, <2>3
  <1>6. ASSUME NEW p \in Policies, NEW reset \in BOOLEAN, EditPolicy(p, reset) PROVE MeterInv'
    <2>1. CASE reset
      <3>1. metered' = {} /\ agentPolicy'.spent = 0
        BY <1>6, <2>1 DEF EditPolicy, WithSpent
      <3>2. SumFunctionOnSet(AmountOf', {}) = 0
        BY SumEmpty
      <3>. QED BY <1>1, <3>1, <3>2, FS_EmptySet DEF MeterInv, SpentMeter, AmountOf
    <2>2. CASE ~reset
      BY <1>4, <1>6, <2>2 DEF EditPolicy, WithSpent
    <2>. QED BY <2>1, <2>2
  <1>. QED BY <1>4, <1>5, <1>6 DEF Next, MintInstrument, SignPaymentMandate, RequestApproval,
                                   DecideApproval, RevokeToken, Tick, vars

\* The meter starts at zero and counts nothing.
LEMMA MeterInit == Init => MeterInv
  <1>. SUFFICES ASSUME Init PROVE MeterInv
    OBVIOUS
  <1>1. metered = {} /\ agentPolicy.spent = 0
    BY DEF Init, WithSpent
  <1>2. SumFunctionOnSet(AmountOf, {}) = 0
    BY SumEmpty
  <1>. QED BY <1>1, <1>2, TokenInit, FS_EmptySet DEF MeterInv, SpentMeter, AmountOf

\* MeterInv holds in every reachable state.
LEMMA MeterIsInvariant == Spec => []MeterInv
  BY MeterInit, MeterStep, PTL DEF Spec

\* The spent meter always is the sum of what the tokens released since its last
\* reset were minted for, each counted once however often it was released.
THEOREM MeterIsExact == Spec => []SpentMeter
  BY MeterIsInvariant, PTL DEF MeterInv
=============================================================================
