--------------------------- MODULE Purchase_proofs ---------------------------
(***************************************************************************)
(* Theorems about Purchase: the composition takes only steps its three     *)
(* services allow, so that everything proved of them holds of it, and the  *)
(* chain from the user's consent to the order keeps PurchaseContract.      *)
(***************************************************************************)
EXTENDS Purchase, Sums, FiniteSetTheorems, TLAPS

\* The services' modules with their theorems, over the composition's state.
MT == INSTANCE CheckoutSession_proofs
PT == INSTANCE PaymentProvider_proofs WITH
        Agents <- {Agent}, Registered <- {Agent}, OpenMandates <- {}, NoOpen <- "present",
        Amounts <- 0..MaxCharge, MaxOccurrences <- 0, OpenBudget <- 0,
        Caps <- {MaxCharge}, Scores <- {}, Limits <- {},
        InitialLimit <- Cardinality(Calls), Window <- 1, MaxTime <- 0
WT == INSTANCE Wallet_proofs WITH
        Merchants <- {Merchant}, MerchantOf <- [c \in Checkouts |-> Merchant],
        Amounts <- 0..MaxCharge, Policies <- {Policy}, InitialPolicy <- Policy,
        ApprovalTTL <- 1, MaxTime <- 0

\* Finiteness and size mean the same in every module.
LEMMA SameSizes ==
  /\ \A S : PT!IsFiniteSet(S) <=> IsFiniteSet(S)
  /\ \A S : PT!Cardinality(S) = P!Cardinality(S)
  <1>1. \A S : PT!IsFiniteSet(S) <=> IsFiniteSet(S)
    BY DEF PT!IsFiniteSet, IsFiniteSet
  <1>2. \A S : PT!Cardinality(S) = P!Cardinality(S)
    BY DEF PT!Cardinality, P!Cardinality, PT!IsFiniteSet, P!IsFiniteSet
  <1>. QED BY <1>1, <1>2

\* The parameters are ones the services' theorems are about.
LEMMA ServiceAssumptions ==
  /\ MT!CheckoutAssumption
  /\ PT!PspAssumption
  /\ WT!WalletAssumption
  <1>. USE PurchaseAssumption DEF PurchaseAssumption
  <1>1. MT!CheckoutAssumption
    BY DEF MT!CheckoutAssumption
  <1>2. PT!PspAssumption
    <2>1. Cardinality(Calls) \in Nat
      BY FS_CardinalityType
    <2>2. 0..MaxCharge \subseteq Nat /\ 0..MaxCharge # {}
      <3>1. 0 \in 0..MaxCharge
        OBVIOUS
      <3>. QED BY <3>1
    <2>. QED BY <2>1, <2>2, SameSizes DEF PT!PspAssumption
  <1>3. WT!WalletAssumption
    BY DEF WT!WalletAssumption, WT!Behaviors, WT!PolicySettings, WT!Autonomy, Policy
  <1>. QED BY <1>1, <1>2, <1>3

\* Each service is the same module whether it is taken with its theorems or without.
LEMMA SameMerchant ==
  /\ MT!Init <=> M!Init
  /\ [MT!Next]_(MT!vars) <=> [M!Next]_(M!vars)
  <1>1. MT!Init <=> M!Init
    BY DEF MT!Init, M!Init, MT!IdleCall, M!IdleCall, MT!NoTerms, M!NoTerms, MT!NoOrder, M!NoOrder
  <1>2. [MT!Next]_(MT!vars) <=> [M!Next]_(M!vars)
    BY DEF MT!vars, M!vars, MT!Next, M!Next, MT!Sessions, M!Sessions, MT!CompleteCheckout,
           M!CompleteCheckout, MT!CreateCheckout, MT!UpdateCheckout, MT!CancelCheckout,
           M!CreateCheckout, M!UpdateCheckout, M!CancelCheckout, MT!StartComplete,
           M!StartComplete, MT!Resume, M!Resume, MT!KyaPassed, M!KyaPassed, MT!KyaRefused,
           M!KyaRefused, MT!RefuseMandate, M!RefuseMandate, MT!RequestAuthorization,
           M!RequestAuthorization, MT!AuthorizeFailed, M!AuthorizeFailed, MT!Escalate,
           M!Escalate, MT!Authorized, M!Authorized, MT!CaptureFailed, M!CaptureFailed,
           MT!PlaceOrder, M!PlaceOrder, MT!Publish, M!Publish, MT!Refreshed, M!Refreshed,
           MT!Kept, M!Kept, MT!Live, M!Live, MT!Created, M!Created, MT!Room, M!Room, MT!At, M!At,
           MT!Goto, M!Goto, MT!TermsMatch, M!TermsMatch, MT!InFlight, M!InFlight, MT!Waiting,
           M!Waiting, MT!history, M!history
  <1>. QED BY <1>1, <1>2

LEMMA SameProvider ==
  /\ PT!Init <=> P!Init
  /\ [PT!Next]_(PT!vars) <=> [P!Next]_(P!vars)
  <1>1. PT!Init <=> P!Init
    BY DEF PT!Init, P!Init, PT!NoRequest, P!NoRequest, PT!InitialScore, P!InitialScore
  <1>2. PT!vars = P!vars
    BY DEF PT!vars, P!vars
  <1>3. PT!Authorize <=> P!Authorize
    <2>1. ASSUME NEW h \in Calls, NEW req
          PROVE  /\ PT!RefuseUntrusted(h, req) <=> P!RefuseUntrusted(h, req)
                 /\ PT!RefuseVelocity(h, req) <=> P!RefuseVelocity(h, req)
                 /\ \A ok : PT!Admit(h, req, ok) <=> P!Admit(h, req, ok)
      <3>1. \A a : PT!Recent(a) = P!Recent(a)
        BY DEF PT!Recent, P!Recent
      <3>. QED BY <3>1, SameSizes DEF
             PT!RefuseUntrusted, P!RefuseUntrusted, PT!RefuseVelocity, P!RefuseVelocity,
             PT!Admit, P!Admit, PT!Trusted, P!Trusted, PT!TrustThreshold, P!TrustThreshold,
             PT!ReputationEvent, P!ReputationEvent, PT!Clamp, P!Clamp
    <2>2. ASSUME NEW h \in Calls
          PROVE  /\ PT!ReleaseFailed(h) <=> P!ReleaseFailed(h)
                 /\ \A behavior, cap : PT!Released(h, behavior, cap) <=> P!Released(h, behavior, cap)
      BY DEF PT!ReleaseFailed, P!ReleaseFailed, PT!Released, P!Released, PT!ConstraintFailed,
             P!ConstraintFailed, PT!OverCap, P!OverCap, PT!Settle, P!Settle, PT!Outcome,
             P!Outcome, PT!Answer, P!Answer, PT!CountOccurrence, P!CountOccurrence,
             PT!WithinOpenMandate, P!WithinOpenMandate, PT!ReputationEvent,
             P!ReputationEvent, PT!Clamp, P!Clamp
    <2>3. PT!Request = P!Request
      BY DEF PT!Request, P!Request
    <2>. QED BY <2>1, <2>2, <2>3 DEF PT!Authorize, P!Authorize
  <1>4. ASSUME NEW h \in Calls
        PROVE  /\ PT!CapturePayment(h) <=> P!CapturePayment(h)
               /\ \A amount : PT!RefundPayment(h, amount) <=> P!RefundPayment(h, amount)
    BY DEF PT!CapturePayment, P!CapturePayment, PT!Capturable, P!Capturable,
           PT!ReputationEvent, P!ReputationEvent, PT!Clamp, P!Clamp, PT!RefundPayment,
           P!RefundPayment, PT!RefundFits, P!RefundFits
  <1>5. PT!Admin <=> P!Admin
    BY DEF PT!Admin, P!Admin, PT!EditRegistry, P!EditRegistry, PT!Clamp, P!Clamp,
           PT!SetVelocityLimit, P!SetVelocityLimit
  <1>6. PT!Tick <=> P!Tick
    BY DEF PT!Tick, P!Tick
  <1>7. PT!Next <=> P!Next
    BY <1>3, <1>4, <1>5, <1>6 DEF PT!Next, P!Next
  <1>8. PT!vars' = P!vars'
    BY DEF PT!vars, P!vars
  <1>. QED BY <1>1, <1>2, <1>7, <1>8

LEMMA SameWallet ==
  /\ WT!Init <=> W!Init
  /\ [WT!Next]_(WT!vars) <=> [W!Next]_(W!vars)
  <1>1. WT!Init <=> W!Init
    BY DEF WT!Init, W!Init, WT!NoToken, W!NoToken, WT!WithSpent, W!WithSpent
  <1>2. [WT!Next]_(WT!vars) <=> [W!Next]_(W!vars)
    BY DEF WT!vars, W!vars, WT!Next, W!Next, WT!MintInstrument, W!MintInstrument,
           WT!SignPaymentMandate, W!SignPaymentMandate, WT!RequestApproval, W!RequestApproval,
           WT!DecideApproval, W!DecideApproval, WT!Undecided, W!Undecided,
           WT!ReleaseCredentials, W!ReleaseCredentials, WT!Releasable, W!Releasable,
           WT!Metered, W!Metered, WT!RevokeToken, W!RevokeToken, WT!EditPolicy, W!EditPolicy,
           WT!Tick, W!Tick, WT!CheckPolicy, W!CheckPolicy, WT!ApprovedFor, W!ApprovedFor,
           WT!AutonomyAllows, W!AutonomyAllows, WT!BudgetRemaining, W!BudgetRemaining,
           WT!NoToken, W!NoToken, WT!WithSpent, W!WithSpent
  <1>. QED BY <1>1, <1>2
-----------------------------------------------------------------------------
(***************************************************************************)
(* The merchant.  Its steps are its own whatever the others do.            *)
(***************************************************************************)
LEMMA MerchantSteps == [Next]_vars => [M!Next]_(M!vars)
  <1>. SUFFICES ASSUME [Next]_vars PROVE [M!Next]_(M!vars)
    OBVIOUS
  <1>1. CASE UNCHANGED merchant
    BY <1>1 DEF merchant, M!vars
  <1>2. CASE Shop
    BY <1>2 DEF Shop, M!Next
  <1>3. ASSUME NEW h \in Calls, NEW terms \in offers, NEW t \in Tokens, NEW attested \in BOOLEAN,
               Submit(h, terms, t, attested)
        PROVE  M!Next
    BY <1>3 DEF Submit, M!Next, M!CompleteCheckout
  <1>4. ASSUME NEW h \in Calls, Service(h) \/ LoseAuthorization(h) \/ LoseCapture(h)
        PROVE  M!Resume(h) \/ UNCHANGED merchant
    BY <1>4 DEF Service, Kya, Verify, PspReject, PspReceive, CpRelease, PspReleaseFailed,
                PspSettle, ReadAuthorization, PspCapture, ReadCapture, LoseAuthorization,
                LoseCapture, M!Resume
  <1>5. ASSUME NEW offer \in offers, Sign(offer) \/ \E t \in Tokens, m \in Methods : Mint(t, m, offer)
        PROVE  UNCHANGED merchant
    BY <1>5 DEF Sign, Mint
  <1>6. ASSUME NEW t \in Tokens, Revoke(t)
        PROVE  UNCHANGED merchant
    BY <1>6 DEF Revoke
  <1>7. CASE Suspend
    BY <1>1, <1>7 DEF Suspend
  <1>8. CASE UNCHANGED vars
    BY <1>1, <1>8 DEF vars
  <1>. QED BY <1>1, <1>2, <1>3, <1>4, <1>5, <1>6, <1>7, <1>8 DEF Next, M!Next, M!CompleteCheckout

\* The composition runs the merchant's sessions as CheckoutSession does.
LEMMA MerchantRuns == Spec => MT!Spec
  <1>1. Init => MT!Init
    BY SameMerchant DEF Init
  <1>2. [Next]_vars => [MT!Next]_(MT!vars)
    BY MerchantSteps, SameMerchant
  <1>. QED BY <1>1, <1>2, PTL DEF Spec, MT!Spec

\* What the others rely on: charges are of signed terms, and the terms add up.
MerchantInv == MT!SignedInv /\ MT!ChargeIsSigned

LEMMA MerchantAlways == Spec => []MerchantInv
  <1>1. MT!Spec => []MT!SignedInv
    BY ServiceAssumptions, MT!SignedIsInvariant
  <1>2. MT!Spec => []MT!ChargeIsSigned
    BY ServiceAssumptions, MT!ChargesAreSigned
  <1>. QED BY <1>1, <1>2, MerchantRuns, PTL DEF MerchantInv
LEMMA MerchantTyped ==
  ASSUME MerchantInv
  PROVE  /\ completes \in [Calls -> MT!CallOf(Len(heap))]
         /\ orders \in [Calls -> [placed: BOOLEAN, qty: Nat, total: Int]]
         /\ \A offer \in offers : offer.checkout \in Checkouts /\ offer.total \in Nat
         /\ \A h \in Calls : completes[h].checkout \in Checkouts /\ completes[h].terms.total \in Int
  <1>1. MT!TypeOK /\ MT!OffersAddUp
    BY DEF MerchantInv, MT!SignedInv, MT!TotalInv, MT!HeapInv
  <1>2. completes \in [Calls -> MT!CallOf(Len(heap))]
    BY <1>1 DEF MT!TypeOK, MT!CallOf
  <1>3. orders \in [Calls -> [placed: BOOLEAN, qty: Nat, total: Int]]
    BY <1>1 DEF MT!TypeOK
  <1>4. ASSUME NEW offer \in offers
        PROVE  offer.checkout \in Checkouts /\ offer.total \in Nat
    <2>1. offer \in MT!Terms
      BY <1>1 DEF MT!TypeOK
    <2>2. offer.total \in Nat
      BY <1>1, PurchaseAssumption DEF MT!OffersAddUp, PurchaseAssumption
    <2>. QED BY <2>1, <2>2 DEF MT!Terms
  <1>5. ASSUME NEW h \in Calls
        PROVE  completes[h].checkout \in Checkouts /\ completes[h].terms.total \in Int
    <2>1. completes[h] \in MT!CallOf(Len(heap))
      BY <1>2
    <2>. QED BY <2>1 DEF MT!CallOf, MT!Terms
  <1>. QED BY <1>2, <1>3, <1>4, <1>5

-----------------------------------------------------------------------------
(***************************************************************************)
(* The two providers.  That their steps are their own needs what the calls *)
(* carry: amounts within the user's cap, and tokens minted under it.       *)
(***************************************************************************)
\* Where complete_checkout is once its charge may have reached the PSP.
Sent == {"authorizing", "capturing", "completed", "escalated", "failed", "capture_failed"}

WireOK ==
  /\ payload \in [Calls -> [token: Tokens, attested: BOOLEAN]]
  /\ creds \in [Calls -> {"none", "released"}]
  /\ lost \subseteq Calls

\* Only the meter of the policy moves, and every token was minted under its cap.
PolicyInv ==
  /\ agentPolicy = W!WithSpent(Policy, agentPolicy.spent)
  /\ \A t \in Tokens : tokens[t].minted => tokens[t].cap = MaxCharge
  /\ \A x \in mandates : x.checkout \in Checkouts /\ x.amount \in 0..MaxCharge

\* The PSP has a call only for a charge that was sent, and credentials are released
\* only for a call the PSP has.
CallInv ==
  \A h \in Calls :
    /\ calls[h].pc # "idle" => completes[h].pc \in Sent
    /\ creds[h] = "released" => calls[h].pc # "idle" /\ tokens[payload[h].token].used

LinkInv == PT!MoneyInv /\ WT!TokenInv /\ WireOK /\ PolicyInv /\ CallInv

LEMMA LinkTyped ==
  ASSUME LinkInv
  PROVE  /\ calls \in [Calls -> PT!Call]
         /\ txns \in [Calls -> [status: PT!TxnStatus, refunded: Nat]]
         /\ agentRegistry \in [{Agent} -> [status: {"active", "suspended"}, reputation: 0..100]]
         /\ tokens \in [Tokens -> WT!Token]
         /\ mandates \subseteq WT!Mandate
         /\ agentPolicy.spent \in Nat
  BY DEF LinkInv, PT!MoneyInv, PT!TypeOK, WT!TokenInv, WT!TypeOK

\* A charge the mandate of the call is for is one the PSP takes requests of.
LEMMA ChargeIsRequest ==
  ASSUME MerchantInv, LinkInv, NEW h \in Calls, completes[h].pc = "authorizing", MandateHolds(h)
  PROVE  /\ completes[h].charge = completes[h].terms.total
         /\ completes[h].terms \in offers
         /\ completes[h].terms.checkout = completes[h].checkout
         /\ ChargeRequest(h) \in P!Request
  <1>1. /\ completes[h].charge = completes[h].terms.total
        /\ completes[h].terms \in offers
        /\ completes[h].terms.checkout = completes[h].checkout
    BY DEF MerchantInv, MT!ChargeIsSigned, MT!Charged
  <1>2. completes[h].terms.total \in 0..MaxCharge
    BY DEF MandateHolds, LinkInv, PolicyInv
  <1>3. payload[h].attested \in BOOLEAN
    BY DEF LinkInv, WireOK
  <1>. QED BY <1>1, <1>2, <1>3 DEF ChargeRequest, P!Request

\* An amount the policy check passes is within the user's cap.
LEMMA WithinCap ==
  ASSUME LinkInv, NEW amount \in Nat, NEW c \in Checkouts, W!CheckPolicy(c, amount, TRUE)
  PROVE  amount \in 0..MaxCharge
  <1>1. agentPolicy.perTxCap = MaxCharge
    BY DEF LinkInv, PolicyInv, W!WithSpent, Policy
  <1>. QED BY <1>1, PurchaseAssumption DEF W!CheckPolicy, PurchaseAssumption

\* The token of a released call was minted, under the user's cap.
LEMMA ReleasedToken ==
  ASSUME LinkInv, NEW h \in Calls, creds[h] = "released"
  PROVE  /\ payload[h].token \in Tokens
         /\ tokens[payload[h].token].minted
         /\ tokens[payload[h].token].cap = MaxCharge
         /\ tokens[payload[h].token].method \in {"ok", "challenge", "decline"}
  <1>1. payload[h].token \in Tokens
    BY DEF LinkInv, WireOK
  <1>2. tokens[payload[h].token].used
    BY DEF LinkInv, CallInv
  <1>3. tokens[payload[h].token].minted
    BY <1>1, <1>2 DEF LinkInv, WT!TokenInv, WT!ReleaseBound
  <1>4. tokens[payload[h].token] \in WT!Token
    BY <1>1, LinkTyped
  <1>. QED BY <1>1, <1>3, <1>4, PurchaseAssumption DEF LinkInv, PolicyInv, WT!Token, PurchaseAssumption

LEMMA ProviderSteps ==
  ASSUME MerchantInv, LinkInv, [Next]_vars
  PROVE  [P!Next]_(P!vars)
  <1>1. CASE UNCHANGED <<psp, now>>
    BY <1>1 DEF psp, P!vars
  <1>2. CASE Suspend
    <2>1. P!EditRegistry(Agent, "suspended", agentRegistry[Agent].reputation)
      BY <1>2 DEF Suspend
    <2>. QED BY <2>1 DEF P!Next, P!Admin
  <1>3. ASSUME NEW h \in Calls, PspReceive(h)
        PROVE  P!Next
    <2>1. ChargeRequest(h) \in P!Request
      BY <1>3, ChargeIsRequest DEF PspReceive
    <2>2. (completes[h].terms.total = completes[h].charge) \in BOOLEAN
      OBVIOUS
    <2>. QED BY <1>3, <2>1, <2>2 DEF PspReceive, P!Next, P!Authorize
  <1>4. ASSUME NEW h \in Calls, PspReleaseFailed(h)
        PROVE  P!Next
    BY <1>4 DEF PspReleaseFailed, P!Next, P!Authorize
  <1>5. ASSUME NEW h \in Calls, PspSettle(h)
        PROVE  P!Next
    BY <1>5, ReleasedToken DEF PspSettle, P!Next, P!Authorize
  <1>6. ASSUME NEW h \in Calls, PspCapture(h)
        PROVE  P!Next
    BY <1>6 DEF PspCapture, P!Next
  <1>7. ASSUME NEW h \in Calls, CpRelease(h)
        PROVE  UNCHANGED <<psp, now>>
    BY <1>7 DEF CpRelease, W!ReleaseCredentials
  <1>8. ASSUME NEW offer \in offers, Sign(offer) \/ \E t \in Tokens, m \in Methods : Mint(t, m, offer)
        PROVE  UNCHANGED <<psp, now>>
    BY <1>8 DEF Sign, Mint, W!SignPaymentMandate, W!MintInstrument
  <1>9. ASSUME NEW t \in Tokens, Revoke(t)
        PROVE  UNCHANGED <<psp, now>>
    BY <1>9 DEF Revoke, W!RevokeToken
  <1>10. CASE Shop
    BY <1>1, <1>10 DEF Shop
  <1>11. ASSUME NEW h \in Calls, NEW terms \in offers, NEW t \in Tokens, NEW attested \in BOOLEAN,
                Submit(h, terms, t, attested)
         PROVE  UNCHANGED <<psp, now>>
    BY <1>11 DEF Submit
  <1>12. ASSUME NEW h \in Calls, LoseAuthorization(h) \/ LoseCapture(h)
         PROVE  UNCHANGED <<psp, now>>
    BY <1>12 DEF LoseAuthorization, LoseCapture
  <1>13. ASSUME NEW h \in Calls,
                \/ Kya(h) \/ Verify(h) \/ PspReject(h)
                \/ ReadAuthorization(h) \/ ReadCapture(h)
         PROVE  UNCHANGED <<psp, now>>
    BY <1>13 DEF Kya, Verify, PspReject, ReadAuthorization, ReadCapture
  <1>14. CASE UNCHANGED vars
    BY <1>1, <1>14 DEF vars
  <1>. QED BY <1>1, <1>2, <1>3, <1>4, <1>5, <1>6, <1>7, <1>8, <1>9, <1>10, <1>11, <1>12, <1>13, <1>14
           DEF Next, Service

LEMMA WalletSteps ==
  ASSUME MerchantInv, LinkInv, [Next]_vars
  PROVE  [W!Next]_(W!vars)
  <1>1. CASE UNCHANGED <<wallet, now>>
    BY <1>1 DEF wallet, W!vars
  <1>2. ASSUME NEW offer \in offers, Sign(offer)
        PROVE  W!Next
    <2>1. offer.checkout \in Checkouts /\ offer.total \in Nat
      BY MerchantTyped
    <2>2. W!SignPaymentMandate(offer.checkout, offer.total, TRUE)
      BY <1>2 DEF Sign
    <2>3. offer.total \in 0..MaxCharge
      BY <2>1, <2>2, WithinCap DEF W!SignPaymentMandate
    <2>. QED BY <2>1, <2>2, <2>3 DEF W!Next
  <1>3. ASSUME NEW offer \in offers, NEW t \in Tokens, NEW m \in Methods, Mint(t, m, offer)
        PROVE  W!Next
    <2>1. offer.checkout \in Checkouts /\ offer.total \in Nat
      BY MerchantTyped
    <2>2. W!MintInstrument(t, m, offer.checkout, offer.total, TRUE)
      BY <1>3 DEF Mint
    <2>3. offer.total \in 0..MaxCharge
      BY <2>1, <2>2, WithinCap DEF W!MintInstrument
    <2>. QED BY <2>1, <2>2, <2>3 DEF W!Next
  <1>4. ASSUME NEW t \in Tokens, Revoke(t)
        PROVE  W!Next
    BY <1>4 DEF Revoke, W!Next
  <1>5. ASSUME NEW h \in Calls, CpRelease(h)
        PROVE  W!Next
    <2>1. payload[h].token \in Tokens
      BY DEF LinkInv, WireOK
    <2>. QED BY <1>5, <2>1 DEF CpRelease, W!Next
  <1>6. CASE Suspend
    BY <1>1, <1>6 DEF Suspend, P!EditRegistry
  <1>7. CASE Shop
    BY <1>1, <1>7 DEF Shop
  <1>8. ASSUME NEW h \in Calls, NEW terms \in offers, NEW t \in Tokens, NEW attested \in BOOLEAN,
               Submit(h, terms, t, attested)
        PROVE  UNCHANGED <<wallet, now>>
    BY <1>8 DEF Submit
  <1>9. ASSUME NEW h \in Calls, LoseAuthorization(h) \/ LoseCapture(h)
        PROVE  UNCHANGED <<wallet, now>>
    BY <1>9 DEF LoseAuthorization, LoseCapture
  <1>10. ASSUME NEW h \in Calls,
                \/ Kya(h) \/ Verify(h) \/ PspReject(h)
                \/ ReadAuthorization(h) \/ ReadCapture(h)
         PROVE  UNCHANGED <<wallet, now>>
    BY <1>10 DEF Kya, Verify, PspReject, ReadAuthorization, ReadCapture
  <1>11. ASSUME NEW h \in Calls,
                PspReceive(h) \/ PspReleaseFailed(h) \/ PspSettle(h) \/ PspCapture(h)
         PROVE  UNCHANGED <<wallet, now>>
    BY <1>11 DEF PspReceive, PspReleaseFailed, PspSettle, PspCapture, P!RefuseUntrusted, P!Admit,
                 P!ReleaseFailed, P!Released, P!ConstraintFailed, P!OverCap, P!Settle,
                 P!CapturePayment
  <1>12. CASE UNCHANGED vars
    BY <1>1, <1>12 DEF vars
  <1>. QED BY <1>1, <1>2, <1>3, <1>4, <1>5, <1>6, <1>7, <1>8, <1>9, <1>10, <1>11, <1>12
           DEF Next, Service
-----------------------------------------------------------------------------
(***************************************************************************)
(* What one step does to one complete_checkout call, and to what its       *)
(* parties share.                                                          *)
(***************************************************************************)
Untouched(h) ==
  /\ completes'[h] = completes[h] /\ orders'[h] = orders[h]
  /\ calls'[h] = calls[h] /\ txns'[h] = txns[h]
  /\ payload'[h] = payload[h] /\ creds'[h] = creds[h]

Submits(h) ==
  \E terms \in offers, t \in Tokens, attested \in BOOLEAN : Submit(h, terms, t, attested)

StepOf(h) == Submits(h) \/ Service(h) \/ LoseAuthorization(h) \/ LoseCapture(h)

\* Steps of the user, the sessions and the registry touch no call.
Aside == Shop \/ (\E offer \in offers : Sign(offer) \/ \E t \in Tokens, m \in Methods : Mint(t, m, offer))
              \/ (\E t \in Tokens : Revoke(t)) \/ Suspend \/ UNCHANGED vars

\* A step is of one call, or of none.
LEMMA OthersUntouched ==
  ASSUME MerchantInv, LinkInv, NEW h \in Calls, Aside \/ \E k \in Calls \ {h} : StepOf(k)
  PROVE  Untouched(h)
  <1>0. /\ completes \in [Calls -> MT!CallOf(Len(heap))]
        /\ orders \in [Calls -> [placed: BOOLEAN, qty: Nat, total: Int]]
        /\ calls \in [Calls -> PT!Call]
        /\ txns \in [Calls -> [status: PT!TxnStatus, refunded: Nat]]
        /\ payload \in [Calls -> [token: Tokens, attested: BOOLEAN]]
        /\ creds \in [Calls -> {"none", "released"}]
    BY MerchantTyped, LinkTyped DEF LinkInv, WireOK
  <1>1. CASE UNCHANGED <<completes, orders, calls, txns, payload, creds>>
    BY <1>1 DEF Untouched
  <1>2. CASE Shop
    BY <1>1, <1>2 DEF Shop, psp, wire, M!Sessions, M!CreateCheckout, M!UpdateCheckout,
                      M!CancelCheckout
  <1>3. ASSUME NEW k \in Calls \ {h}, Submits(k)
        PROVE  Untouched(h)
    BY <1>0, <1>3 DEF Submits, Submit, M!StartComplete, psp, Untouched
  <1>4. ASSUME NEW k \in Calls \ {h}, M!Resume(k)
        PROVE  completes'[h] = completes[h] /\ orders'[h] = orders[h]
    BY <1>0, <1>4 DEF M!Resume, M!KyaPassed, M!KyaRefused, M!RefuseMandate,
                      M!RequestAuthorization, M!AuthorizeFailed, M!Escalate, M!Authorized,
                      M!CaptureFailed, M!PlaceOrder, M!Goto
  <1>5. ASSUME NEW k \in Calls \ {h},
               \/ Kya(k) \/ Verify(k) \/ PspReject(k) \/ ReadAuthorization(k) \/ ReadCapture(k)
               \/ LoseAuthorization(k) \/ LoseCapture(k)
        PROVE  Untouched(h)
    <2>1. M!Resume(k)
      BY <1>5 DEF M!Resume, Kya, Verify, PspReject, ReadAuthorization, ReadCapture,
                  LoseAuthorization, LoseCapture
    <2>2. UNCHANGED <<calls, txns, payload, creds>>
      BY <1>5 DEF Kya, Verify, PspReject, ReadAuthorization, ReadCapture, LoseAuthorization,
                  LoseCapture, psp, wire
    <2>. QED BY <1>4, <2>1, <2>2 DEF Untouched
  <1>6. ASSUME NEW k \in Calls \ {h},
               PspReceive(k) \/ PspReleaseFailed(k) \/ PspSettle(k) \/ PspCapture(k)
        PROVE  Untouched(h)
    <2>1. UNCHANGED <<completes, orders, payload, creds>>
      BY <1>6 DEF PspReceive, PspReleaseFailed, PspSettle, PspCapture, merchant, wire
    <2>2. calls'[h] = calls[h] /\ txns'[h] = txns[h]
      BY <1>0, <1>6 DEF PspReceive, PspReleaseFailed, PspSettle, PspCapture, P!RefuseUntrusted,
           P!Admit, P!ReleaseFailed, P!Released, P!ConstraintFailed, P!OverCap, P!Settle,
           P!CapturePayment
    <2>. QED BY <2>1, <2>2 DEF Untouched
  <1>7. ASSUME NEW k \in Calls \ {h}, CpRelease(k)
        PROVE  Untouched(h)
    BY <1>0, <1>7 DEF CpRelease, merchant, psp, Untouched
  <1>8. ASSUME NEW offer \in offers, Sign(offer) \/ \E t \in Tokens, m \in Methods : Mint(t, m, offer)
        PROVE  Untouched(h)
    BY <1>8 DEF Sign, Mint, merchant, psp, wire, Untouched
  <1>9. ASSUME NEW t \in Tokens, Revoke(t)
        PROVE  Untouched(h)
    BY <1>9 DEF Revoke, merchant, psp, wire, Untouched
  <1>10. CASE Suspend
    BY <1>10 DEF Suspend, P!EditRegistry, merchant, wire, Untouched
  <1>11. CASE UNCHANGED vars
    BY <1>1, <1>11 DEF vars, merchant, psp, wire
  <1>12. ASSUME NEW k \in Calls \ {h}, StepOf(k)
         PROVE  Untouched(h)
    BY <1>3, <1>5, <1>6, <1>7, <1>12 DEF StepOf, Service
  <1>. QED BY <1>2, <1>8, <1>9, <1>10, <1>11, <1>12 DEF Aside

LEMMA StepIsOfOneCall ==
  ASSUME MerchantInv, LinkInv, [Next]_vars
  PROVE  /\ Aside \/ \E h \in Calls : StepOf(h)
         /\ \A h \in Calls : Untouched(h) \/ StepOf(h)
  <1>1. Aside \/ \E h \in Calls : StepOf(h)
    BY DEF Next, Aside, StepOf, Submits
  <1>. QED BY <1>1, OthersUntouched

\* What was signed, mandated or missed stays so, and a minted token keeps what it is
\* bound to and, once used, stays used.
LEMMA SharedStateGrows ==
  ASSUME MerchantInv, LinkInv, [Next]_vars
  PROVE  /\ offers \subseteq offers' /\ mandates \subseteq mandates' /\ lost \subseteq lost'
         /\ \A t \in Tokens : tokens[t].minted =>
              /\ tokens'[t].minted
              /\ tokens'[t].method = tokens[t].method /\ tokens'[t].amount = tokens[t].amount
              /\ tokens[t].used => tokens'[t].used
              /\ tokens'[t].releases >= tokens[t].releases
  <1>1. offers \subseteq offers'
    <2>1. [M!Next]_(M!vars)
      BY MerchantSteps
    <2>. QED BY <2>1 DEF M!Next, M!vars, M!Sessions, M!CreateCheckout, M!UpdateCheckout,
           M!CancelCheckout, M!CompleteCheckout, M!StartComplete, M!Resume, M!KyaPassed,
           M!KyaRefused, M!RefuseMandate, M!RequestAuthorization, M!AuthorizeFailed,
           M!Escalate, M!Authorized, M!CaptureFailed, M!PlaceOrder, M!Publish
  <1>2. [W!Next]_(W!vars)
    BY WalletSteps
  <1>3. mandates \subseteq mandates'
    BY <1>2 DEF W!Next, W!vars, W!MintInstrument, W!SignPaymentMandate, W!RequestApproval,
           W!DecideApproval, W!ReleaseCredentials, W!RevokeToken, W!EditPolicy, W!Tick
  <1>4. lost \subseteq lost'
    <2>1. \A h \in Calls : (LoseAuthorization(h) \/ LoseCapture(h)) => lost \subseteq lost'
      BY DEF LoseAuthorization, LoseCapture
    <2>2. \A h \in Calls : Service(h) => lost' = lost
      BY DEF Service, Kya, Verify, PspReject, PspReceive, CpRelease, PspReleaseFailed,
             PspSettle, ReadAuthorization, PspCapture, ReadCapture, wire
    <2>. QED BY <2>1, <2>2 DEF Next, Shop, Sign, Mint, Revoke, Suspend, Submit, wire, vars
  <1>5. ASSUME NEW t \in Tokens, tokens[t].minted
        PROVE  /\ tokens'[t].minted
               /\ tokens'[t].method = tokens[t].method /\ tokens'[t].amount = tokens[t].amount
               /\ tokens[t].used => tokens'[t].used
               /\ tokens'[t].releases >= tokens[t].releases
    <2>1. tokens[t] \in WT!Token /\ tokens \in [Tokens -> WT!Token]
      BY LinkTyped
    <2>2. WT!OneTokenStep
      BY <1>2, ServiceAssumptions, SameWallet, WT!StepsAreOneTokenSteps DEF LinkInv, WT!TokenInv
    <2>3. tokens[t].releases \in Nat
      BY <2>1 DEF WT!Token
    <2>4. tokens'[t] = tokens[t] \/ WT!Releases(t) \/ WT!Revokes(t)
      BY <1>5, <2>2 DEF WT!OneTokenStep, WT!Mints
    <2>5. CASE tokens'[t] = tokens[t]
      BY <1>5, <2>3, <2>5
    <2>6. CASE WT!Releases(t)
      BY <1>5, <2>1, <2>3, <2>6 DEF WT!Releases, WT!Token
    <2>7. CASE WT!Revokes(t)
      BY <1>5, <2>1, <2>3, <2>7 DEF WT!Revokes, WT!Token
    <2>. QED BY <2>4, <2>5, <2>6, <2>7
  <1>. QED BY <1>1, <1>3, <1>4, <1>5
-----------------------------------------------------------------------------
(***************************************************************************)
(* LinkInv is inductive, so the providers' steps are always their own.     *)
(***************************************************************************)
LEMMA LinkInit == Init => LinkInv
  <1>. SUFFICES ASSUME Init PROVE LinkInv
    OBVIOUS
  <1>1. PT!MoneyInv /\ WT!TokenInv
    BY ServiceAssumptions, SameProvider, SameWallet, PT!MoneyInit, WT!TokenInit DEF Init
  <1>2. (CHOOSE t \in Tokens : TRUE) \in Tokens
    BY PurchaseAssumption DEF PurchaseAssumption
  <1>3. WireOK
    BY <1>2 DEF Init, WireOK
  <1>4. PolicyInv
    BY DEF Init, W!Init, PolicyInv, W!WithSpent, W!NoToken
  <1>5. CallInv
    BY DEF Init, P!Init, CallInv
  <1>. QED BY <1>1, <1>3, <1>4, <1>5 DEF LinkInv

LEMMA WireStep ==
  ASSUME MerchantInv, LinkInv, [Next]_vars
  PROVE  WireOK'
  <1>. USE DEF WireOK, wire
  <1>1. WireOK
    BY DEF LinkInv
  <1>2. ASSUME NEW h \in Calls, Submits(h)
        PROVE  WireOK'
    BY <1>1, <1>2 DEF Submits, Submit
  <1>3. ASSUME NEW h \in Calls, LoseAuthorization(h) \/ LoseCapture(h)
        PROVE  WireOK'
    BY <1>1, <1>3 DEF LoseAuthorization, LoseCapture
  <1>4. ASSUME NEW h \in Calls, Service(h)
        PROVE  WireOK'
    BY <1>1, <1>4 DEF Service, Kya, Verify, PspReject, PspReceive, CpRelease, PspReleaseFailed,
                      PspSettle, ReadAuthorization, PspCapture, ReadCapture
  <1>5. CASE UNCHANGED wire
    BY <1>1, <1>5
  <1>. QED BY <1>2, <1>3, <1>4, <1>5
           DEF Next, Submits, Shop, Sign, Mint, Revoke, Suspend, vars

LEMMA PolicyStep ==
  ASSUME MerchantInv, LinkInv, [Next]_vars
  PROVE  PolicyInv'
  <1>0. /\ PolicyInv /\ [W!Next]_(W!vars) /\ tokens \in [Tokens -> WT!Token]
        /\ agentPolicy.perTxCap = MaxCharge
    BY WalletSteps, LinkTyped DEF LinkInv, PolicyInv, W!WithSpent, Policy
  <1>1. ASSUME NEW t \in Tokens, NEW m \in Methods, NEW c \in Checkouts, NEW amount \in 0..MaxCharge,
               NEW present \in BOOLEAN, W!MintInstrument(t, m, c, amount, present)
        PROVE  PolicyInv'
    <2>1. tokens'[t].cap = MaxCharge
      BY <1>0, <1>1 DEF W!MintInstrument, W!NoToken
    <2>2. \A u \in Tokens \ {t} : tokens'[u] = tokens[u]
      BY <1>0, <1>1 DEF W!MintInstrument
    <2>. QED BY <1>0, <1>1, <2>1, <2>2 DEF W!MintInstrument, PolicyInv
  <1>2. ASSUME NEW c \in Checkouts, NEW amount \in 0..MaxCharge, NEW present \in BOOLEAN,
               W!SignPaymentMandate(c, amount, present)
        PROVE  PolicyInv'
    BY <1>0, <1>2 DEF W!SignPaymentMandate, PolicyInv
  <1>3. ASSUME NEW t \in Tokens, W!ReleaseCredentials(t) \/ W!RevokeToken(t)
        PROVE  PolicyInv'
    <2>1. \A u \in Tokens : /\ tokens'[u].minted <=> tokens[u].minted
                            /\ tokens'[u].cap = tokens[u].cap
      <3>1. tokens[t] \in WT!Token
        BY <1>0
      <3>. QED BY <1>0, <1>3, <3>1 DEF W!ReleaseCredentials, W!RevokeToken, WT!Token
    <2>2. agentPolicy' = W!WithSpent(Policy, agentPolicy'.spent)
      BY <1>0, <1>3 DEF W!ReleaseCredentials, W!RevokeToken, PolicyInv, W!WithSpent
    <2>3. mandates' = mandates
      BY <1>3 DEF W!ReleaseCredentials, W!RevokeToken
    <2>. QED BY <1>0, <2>1, <2>2, <2>3 DEF PolicyInv
  <1>4. ASSUME NEW reset \in BOOLEAN, W!EditPolicy(Policy, reset)
        PROVE  PolicyInv'
    BY <1>0, <1>4 DEF W!EditPolicy, PolicyInv, W!WithSpent
  <1>5. CASE UNCHANGED <<agentPolicy, tokens, mandates>>
    BY <1>0, <1>5 DEF PolicyInv, W!WithSpent
  <1>. QED BY <1>0, <1>1, <1>2, <1>3, <1>4, <1>5
           DEF W!Next, W!vars, W!RequestApproval, W!DecideApproval, W!Tick

LEMMA CallStep ==
  ASSUME MerchantInv, LinkInv, [Next]_vars
  PROVE  CallInv'
  <1>. SUFFICES ASSUME NEW h \in Calls
                PROVE  /\ calls'[h].pc # "idle" => completes'[h].pc \in Sent
                       /\ creds'[h] = "released" =>
                            calls'[h].pc # "idle" /\ tokens'[payload'[h].token].used
    BY DEF CallInv
  <1>0. /\ completes \in [Calls -> MT!CallOf(Len(heap))]
        /\ calls \in [Calls -> PT!Call]
        /\ tokens \in [Tokens -> WT!Token]
        /\ payload \in [Calls -> [token: Tokens, attested: BOOLEAN]]
        /\ creds \in [Calls -> {"none", "released"}]
        /\ calls[h].pc # "idle" => completes[h].pc \in Sent
        /\ creds[h] = "released" => calls[h].pc # "idle" /\ tokens[payload[h].token].used
    BY MerchantTyped, LinkTyped DEF LinkInv, WireOK, CallInv
  <1>1. /\ payload[h].token \in Tokens
        /\ tokens[payload[h].token].used => tokens'[payload[h].token].used
    <2>1. payload[h].token \in Tokens
      BY <1>0
    <2>2. tokens[payload[h].token].used => tokens[payload[h].token].minted
      BY <2>1 DEF LinkInv, WT!TokenInv, WT!ReleaseBound
    <2>. QED BY <2>1, <2>2, SharedStateGrows
  <1>2. CASE Untouched(h)
    BY <1>0, <1>1, <1>2 DEF Untouched
  <1>3. CASE Submits(h)
    <2>1. completes[h].pc = "idle" /\ calls' = calls /\ creds' = creds
      BY <1>3 DEF Submits, Submit, M!StartComplete, M!At, psp
    <2>. QED BY <1>0, <2>1 DEF Sent
  <1>4. CASE Kya(h) \/ Verify(h) \/ PspReject(h) \/ ReadAuthorization(h) \/ ReadCapture(h)
              \/ LoseAuthorization(h) \/ LoseCapture(h)
    <2>1. UNCHANGED <<calls, payload, creds, tokens>> /\ M!Resume(h)
      BY <1>4 DEF M!Resume, Kya, Verify, PspReject, ReadAuthorization, ReadCapture,
                  LoseAuthorization, LoseCapture, psp, wire, wallet
    <2>2. completes[h].pc \in Sent => completes'[h].pc \in Sent
      BY <1>0, <2>1 DEF M!Resume, M!KyaPassed, M!KyaRefused, M!RefuseMandate,
           M!RequestAuthorization, M!AuthorizeFailed, M!Escalate, M!Authorized,
           M!CaptureFailed, M!PlaceOrder, M!Goto, M!At, Sent, MT!CallOf
    <2>. QED BY <1>0, <2>1, <2>2
  <1>5. CASE PspReceive(h) \/ PspReleaseFailed(h) \/ PspSettle(h) \/ PspCapture(h)
    <2>1. UNCHANGED <<completes, payload, creds, tokens>>
      BY <1>5 DEF PspReceive, PspReleaseFailed, PspSettle, PspCapture, merchant, wire, wallet
    <2>2. CASE PspReceive(h)
      <3>1. calls'[h].pc # "idle"
        BY <1>0, <2>2 DEF PspReceive, P!RefuseUntrusted, P!Admit, PT!Call
      <3>. QED BY <1>0, <2>1, <2>2, <3>1 DEF PspReceive, Sent
    <2>3. CASE PspReleaseFailed(h) \/ PspSettle(h) \/ PspCapture(h)
      <3>1. calls'[h].pc # "idle" <=> calls[h].pc # "idle"
        BY <1>0, <2>3 DEF PspReleaseFailed, PspSettle, PspCapture, P!ReleaseFailed, P!Released,
             P!ConstraintFailed, P!OverCap, P!Settle, P!Answer, P!CapturePayment, PT!Call
      <3>. QED BY <1>0, <2>1, <3>1
    <2>. QED BY <1>5, <2>2, <2>3
  <1>6. CASE CpRelease(h)
    <2>1. /\ UNCHANGED <<completes, calls, payload>> /\ calls[h].pc = "releasing"
          /\ W!ReleaseCredentials(payload[h].token)
      BY <1>6 DEF CpRelease, merchant, psp
    <2>2. tokens'[payload[h].token].used
      BY <1>0, <1>1, <2>1 DEF W!ReleaseCredentials, WT!Token
    <2>. QED BY <1>0, <2>1, <2>2
  <1>. QED BY <1>2, <1>3, <1>4, <1>5, <1>6, StepIsOfOneCall DEF StepOf, Service

LEMMA LinkStep ==
  ASSUME MerchantInv, LinkInv, [Next]_vars
  PROVE  LinkInv'
  <1>1. PT!MoneyInv'
    BY ProviderSteps, SameProvider, ServiceAssumptions, PT!MoneyStep DEF LinkInv
  <1>2. WT!TokenInv'
    BY WalletSteps, SameWallet, ServiceAssumptions, WT!TokenStep DEF LinkInv
  <1>. QED BY <1>1, <1>2, WireStep, PolicyStep, CallStep DEF LinkInv

LEMMA LinkAlways == Spec => []LinkInv
  BY LinkInit, LinkStep, MerchantAlways, PTL DEF Spec

\* The composition adds nothing to what a service may do, so that every theorem about
\* the merchant, the PSP or the credentials provider alone holds of a purchase across
\* all three.
THEOREM ServicesRunAsSpecified == Spec => M!Spec /\ P!Spec /\ W!Spec
  <1>1. Init => M!Init /\ P!Init /\ W!Init
    BY DEF Init
  <1>2. MerchantInv /\ LinkInv /\ [Next]_vars => /\ [M!Next]_(M!vars)
                                                 /\ [P!Next]_(P!vars)
                                                 /\ [W!Next]_(W!vars)
    BY MerchantSteps, ProviderSteps, WalletSteps
  <1>. QED BY <1>1, <1>2, MerchantAlways, LinkAlways, PTL DEF Spec, M!Spec, P!Spec, W!Spec
-----------------------------------------------------------------------------
(***************************************************************************)
(* The money of one call, from the mandate to the order.                   *)
(***************************************************************************)
\* What the PSP was asked is what was submitted, for terms the user mandated.
Asked(h) ==
  calls[h].pc # "idle" =>
    /\ calls[h].req.amount = completes[h].terms.total
    /\ calls[h].req.attested = payload[h].attested
    /\ completes[h].terms \in offers
    /\ completes[h].terms.checkout = completes[h].checkout
    /\ MandateHolds(h)

\* Where the merchant is, the PSP's transaction was, unless an answer was lost.
Settled(h) ==
  /\ completes[h].pc = "capturing" => Paid(h)
  /\ completes[h].pc = "completed" <=> orders[h].placed
  /\ orders[h].placed => txns[h].status = "captured"
  /\ completes[h].pc = "escalated" => txns[h].status = "requires_challenge"
  /\ completes[h].pc = "capture_failed" => h \in lost
  /\ completes[h].pc = "failed" => calls[h].pc \in {"idle", "refused"} \/ h \in lost

\* Nothing is settled before credentials were released, nor past a decline or an
\* unanswered challenge of the card.
Released(h) ==
  /\ calls[h].pc = "answered" => creds[h] = "released"
  /\ Paid(h) => /\ tokens[payload[h].token].method # "decline"
                /\ tokens[payload[h].token].method = "challenge" => payload[h].attested

FlowOf(h) == Asked(h) /\ Settled(h) /\ Released(h)
FlowInv == \A h \in Calls : FlowOf(h)

\* A paid call was answered, and its token minted and used.
LEMMA PaidIsReleased ==
  ASSUME LinkInv, FlowInv, NEW h \in Calls, Paid(h)
  PROVE  /\ calls[h].pc = "answered" /\ creds[h] = "released"
         /\ payload[h].token \in Tokens
         /\ tokens[payload[h].token].minted /\ tokens[payload[h].token].used
  <1>1. calls[h] \in PT!Call
    BY LinkTyped
  <1>2. calls[h].pc = "answered"
    BY <1>1 DEF LinkInv, PT!MoneyInv, PT!RefusedCallHoldsNoMoney, PT!Call, Paid, Money
  <1>3. creds[h] = "released"
    BY <1>2 DEF FlowInv, FlowOf, Released
  <1>. QED BY <1>2, <1>3, ReleasedToken DEF LinkInv, CallInv

LEMMA FlowInit == Init => FlowInv
  BY DEF Init, M!Init, P!Init, FlowInv, FlowOf, Asked, Settled, Released, Paid, Money, M!IdleCall,
         M!NoOrder

\* A call that only reads shared state is as it was.
LEMMA UntouchedFlow ==
  ASSUME MerchantInv, LinkInv, FlowInv, [Next]_vars, NEW h \in Calls, Untouched(h)
  PROVE  FlowOf(h)'
  <1>1. FlowOf(h) /\ offers \subseteq offers' /\ mandates \subseteq mandates' /\ lost \subseteq lost'
    BY SharedStateGrows DEF FlowInv
  <1>2. Asked(h)'
    BY <1>1 DEF Untouched, FlowOf, Asked, MandateHolds
  <1>3. Settled(h)'
    BY <1>1 DEF Untouched, FlowOf, Settled, Paid
  <1>4. Released(h)'
    <2>1. Paid(h) => tokens'[payload[h].token].method = tokens[payload[h].token].method
      BY PaidIsReleased, SharedStateGrows
    <2>. QED BY <1>1, <2>1 DEF Untouched, FlowOf, Released, Paid
  <1>. QED BY <1>2, <1>3, <1>4 DEF FlowOf

\* The merchant goes on with a call: no provider's state moves.
LEMMA MerchantFlow ==
  ASSUME MerchantInv, LinkInv, FlowInv, [Next]_vars, NEW h \in Calls,
         \/ Kya(h) \/ Verify(h) \/ PspReject(h) \/ ReadAuthorization(h) \/ ReadCapture(h)
         \/ LoseAuthorization(h) \/ LoseCapture(h)
  PROVE  FlowOf(h)'
  <1>0. /\ completes \in [Calls -> MT!CallOf(Len(heap))]
        /\ orders \in [Calls -> [placed: BOOLEAN, qty: Nat, total: Int]]
        /\ completes[h] \in MT!CallOf(Len(heap))
        /\ FlowOf(h) /\ offers \subseteq offers' /\ lost \subseteq lost'
        /\ calls[h].pc # "idle" => completes[h].pc \in Sent
    BY MerchantTyped, SharedStateGrows DEF FlowInv, LinkInv, CallInv
  <1>1. UNCHANGED <<calls, txns, payload, creds, tokens, mandates>>
    BY DEF Kya, Verify, PspReject, ReadAuthorization, ReadCapture, LoseAuthorization,
           LoseCapture, psp, wire, wallet
  <1>2. /\ M!Resume(h)
        /\ completes'[h].terms = completes[h].terms
        /\ completes'[h].checkout = completes[h].checkout
    <2>1. M!Resume(h)
      BY DEF Kya, Verify, PspReject, ReadAuthorization, ReadCapture, LoseAuthorization,
             LoseCapture, M!Resume
    <2>. QED BY <1>0, <2>1 DEF M!Resume, M!KyaPassed, M!KyaRefused, M!RefuseMandate,
           M!RequestAuthorization, M!AuthorizeFailed, M!Escalate, M!Authorized,
           M!CaptureFailed, M!PlaceOrder, M!Goto, MT!CallOf
  <1>3. Asked(h)'
    BY <1>0, <1>1, <1>2 DEF FlowOf, Asked, MandateHolds
  <1>4. Released(h)'
    BY <1>0, <1>1 DEF FlowOf, Released, Paid
  <1>5. Settled(h)'
    <2>1. CASE Kya(h) \/ Verify(h)
      <3>1. /\ completes[h].pc \in {"kya", "verify"}
            /\ completes'[h].pc \in {"verify", "failed", "authorizing"}
            /\ orders'[h] = orders[h]
        BY <1>0, <2>1 DEF Kya, Verify, M!KyaPassed, M!KyaRefused, M!RefuseMandate,
             M!RequestAuthorization, M!Goto, M!At, MT!CallOf
      <3>. QED BY <1>0, <1>1, <3>1 DEF FlowOf, Settled, Sent
    <2>2. CASE PspReject(h)
      <3>1. /\ completes[h].pc = "authorizing" /\ completes'[h].pc = "failed"
            /\ orders'[h] = orders[h]
        BY <1>0, <2>2 DEF PspReject, M!AuthorizeFailed, M!Goto, M!At, MT!CallOf
      <3>2. calls[h].pc = "idle"
        BY <1>0, <2>2 DEF PspReject, FlowOf, Asked
      <3>. QED BY <1>0, <1>1, <3>1, <3>2 DEF FlowOf, Settled
    <2>3. CASE ReadAuthorization(h)
      <3>1. /\ completes[h].pc = "authorizing" /\ orders'[h] = orders[h]
            /\ \/ completes'[h].pc = "failed" /\ calls[h].pc = "refused"
               \/ completes'[h].pc = "escalated" /\ txns[h].status = "requires_challenge"
               \/ completes'[h].pc = "capturing" /\ txns[h].status = "authorized"
        BY <1>0, <2>3 DEF ReadAuthorization, M!AuthorizeFailed, M!Escalate, M!Authorized,
             M!Goto, M!At, MT!CallOf
      <3>. QED BY <1>0, <1>1, <3>1 DEF FlowOf, Settled, Paid, Money
    <2>4. CASE ReadCapture(h)
      <3>1. /\ completes'[h].pc = "completed" /\ orders'[h].placed
            /\ txns[h].status = "captured"
        BY <1>0, <2>4 DEF ReadCapture, M!PlaceOrder, M!Goto, MT!CallOf
      <3>. QED BY <1>0, <1>1, <3>1 DEF Settled
    <2>5. CASE LoseAuthorization(h) \/ LoseCapture(h)
      <3>1. /\ completes[h].pc \in {"authorizing", "capturing"}
            /\ completes'[h].pc \in {"failed", "capture_failed"} /\ h \in lost'
            /\ orders'[h] = orders[h]
        BY <1>0, <2>5 DEF LoseAuthorization, LoseCapture, M!AuthorizeFailed, M!CaptureFailed,
             M!Goto, M!At, MT!CallOf
      <3>. QED BY <1>0, <1>1, <3>1 DEF FlowOf, Settled
    <2>. QED BY <2>1, <2>2, <2>3, <2>4, <2>5
  <1>. QED BY <1>3, <1>4, <1>5 DEF FlowOf

\* A call is submitted: it starts with nothing asked, released or paid.
LEMMA SubmitFlow ==
  ASSUME MerchantInv, LinkInv, FlowInv, NEW h \in Calls, Submits(h)
  PROVE  FlowOf(h)'
  <1>0. /\ completes \in [Calls -> MT!CallOf(Len(heap))]
        /\ calls[h] \in PT!Call /\ FlowOf(h)
    BY MerchantTyped, LinkTyped DEF FlowInv
  <1>1. /\ completes[h].pc = "idle" /\ completes'[h].pc = "kya"
        /\ UNCHANGED <<calls, txns, creds, orders>>
    BY <1>0 DEF Submits, Submit, M!StartComplete, M!At, psp
  <1>2. calls[h].pc = "idle" /\ ~Paid(h)
    BY <1>1 DEF LinkInv, CallInv, Sent, PT!MoneyInv, PT!RefusedCallHoldsNoMoney, Paid, Money
  <1>. QED BY <1>0, <1>1, <1>2 DEF FlowOf, Asked, Settled, Released, Paid

\* The PSP goes on with a call.
LEMMA ProviderFlow ==
  ASSUME MerchantInv, LinkInv, FlowInv, NEW h \in Calls,
         PspReceive(h) \/ PspReleaseFailed(h) \/ PspSettle(h) \/ PspCapture(h)
  PROVE  FlowOf(h)'
  <1>0. /\ calls \in [Calls -> PT!Call] /\ calls[h] \in PT!Call
        /\ txns \in [Calls -> [status: PT!TxnStatus, refunded: Nat]]
        /\ calls[h].pc \in {"idle", "releasing"} => txns[h].status = "none"
        /\ calls[h].pc # "idle" => completes[h].pc \in Sent
        /\ FlowOf(h)
    BY LinkTyped DEF FlowInv, LinkInv, CallInv, PT!MoneyInv, PT!RefusedCallHoldsNoMoney
  <1>1. UNCHANGED <<completes, orders, offers, payload, creds, lost, tokens, mandates>>
    BY DEF PspReceive, PspReleaseFailed, PspSettle, PspCapture, merchant, wire, wallet
  <1>2. CASE PspReceive(h)
    <2>1. /\ calls[h].pc = "idle" /\ completes[h].pc = "authorizing" /\ MandateHolds(h)
          /\ calls'[h].pc \in {"releasing", "refused"} /\ calls'[h].req = ChargeRequest(h)
          /\ txns' = txns
      BY <1>0, <1>2 DEF PspReceive, P!RefuseUntrusted, P!Admit, PT!Call
    <2>2. /\ calls'[h].req.amount = completes[h].terms.total
          /\ calls'[h].req.attested = payload[h].attested
          /\ completes[h].terms \in offers
          /\ completes[h].terms.checkout = completes[h].checkout
      BY <2>1, ChargeIsRequest DEF ChargeRequest
    <2>. QED BY <1>0, <1>1, <2>1, <2>2
             DEF FlowOf, Asked, Settled, Released, Paid, Money, MandateHolds
  <1>3. CASE PspReleaseFailed(h)
    <2>1. /\ calls[h].pc = "releasing" /\ calls'[h].pc = "refused"
          /\ calls'[h].req = calls[h].req /\ txns' = txns
      BY <1>0, <1>3 DEF PspReleaseFailed, P!ReleaseFailed, PT!Call
    <2>. QED BY <1>0, <1>1, <2>1
             DEF FlowOf, Asked, Settled, Released, Paid, Money, MandateHolds
  <1>4. CASE PspSettle(h)
    <2>. DEFINE method == tokens[payload[h].token].method
    <2>1. /\ calls[h].pc = "releasing" /\ creds[h] = "released"
          /\ calls'[h].req = calls[h].req
          /\ \/ calls'[h].pc = "refused" /\ txns' = txns
             \/ /\ txns'[h].status = P!Outcome(calls[h].req, method)
                /\ calls'[h].pc = P!Answer(txns'[h].status)
      BY <1>0, <1>4 DEF PspSettle, P!Released, P!ConstraintFailed, P!OverCap, P!Settle, PT!Call
    <2>2. txns'[h].status \in Money =>
            method # "decline" /\ (method = "challenge" => payload[h].attested)
      BY <1>0, <2>1 DEF P!Outcome, Money, FlowOf, Asked
    <2>3. Asked(h)' /\ Released(h)'
      BY <1>0, <1>1, <2>1, <2>2 DEF FlowOf, Asked, Released, Paid, MandateHolds
    <2>4. completes[h].pc \notin {"capturing", "completed", "escalated"} /\ ~orders[h].placed
      BY <1>0, <2>1 DEF FlowOf, Settled, Paid, Money
    <2>5. Settled(h)'
      BY <1>0, <1>1, <2>1, <2>4 DEF FlowOf, Settled
    <2>. QED BY <2>3, <2>5 DEF FlowOf
  <1>5. CASE PspCapture(h)
    <2>1. /\ txns[h].status = "authorized" /\ txns'[h].status = "captured" /\ calls' = calls
      BY <1>0, <1>5 DEF PspCapture, P!CapturePayment, P!Capturable
    <2>. QED BY <1>0, <1>1, <2>1
             DEF FlowOf, Asked, Settled, Released, Paid, Money, MandateHolds
  <1>. QED BY <1>2, <1>3, <1>4, <1>5

\* The credentials provider releases a token to a call.
LEMMA ReleaseFlow ==
  ASSUME MerchantInv, LinkInv, FlowInv, NEW h \in Calls, CpRelease(h)
  PROVE  FlowOf(h)'
  <1>1. /\ UNCHANGED <<completes, orders, offers, calls, txns, payload, lost, mandates>>
        /\ calls[h].pc = "releasing"
    BY DEF CpRelease, merchant, psp, W!ReleaseCredentials
  <1>2. ~Paid(h)
    BY <1>1 DEF LinkInv, PT!MoneyInv, PT!RefusedCallHoldsNoMoney, Paid, Money
  <1>. QED BY <1>1, <1>2 DEF FlowInv, FlowOf, Asked, Settled, Released, Paid, MandateHolds

LEMMA FlowStep ==
  ASSUME MerchantInv, LinkInv, FlowInv, [Next]_vars
  PROVE  FlowInv'
  <1>1. ASSUME NEW h \in Calls
        PROVE  FlowOf(h)'
    BY StepIsOfOneCall, UntouchedFlow, MerchantFlow, SubmitFlow, ProviderFlow, ReleaseFlow
       DEF StepOf, Service
  <1>. QED BY <1>1 DEF FlowInv

LEMMA FlowAlways == Spec => []FlowInv
  BY FlowInit, FlowStep, MerchantAlways, LinkAlways, PTL DEF Spec

\* No order without its money: captured once, for the total the merchant signed, the
\* user mandated and a token released credentials for, whatever was updated, canceled,
\* retried or lost on the way.
THEOREM OrdersAreBacked == Spec => []OrderIsBacked
  <1>1. ASSUME LinkInv, FlowInv
        PROVE  OrderIsBacked
    <2>1. ASSUME NEW h \in Calls, orders[h].placed
          PROVE  /\ txns[h].status = "captured"
                 /\ calls[h].req.amount = completes[h].terms.total
                 /\ completes[h].terms \in offers
                 /\ [checkout |-> completes[h].checkout, amount |-> calls[h].req.amount] \in mandates
                 /\ tokens[payload[h].token].used
      <3>1. txns[h].status = "captured"
        BY <1>1, <2>1 DEF FlowInv, FlowOf, Settled
      <3>2. calls[h].pc = "answered" /\ tokens[payload[h].token].used
        BY <1>1, <3>1, PaidIsReleased DEF Paid, Money
      <3>. QED BY <1>1, <3>1, <3>2 DEF FlowInv, FlowOf, Asked, MandateHolds
    <2>. QED BY <2>1 DEF OrderIsBacked
  <1>. QED BY <1>1, LinkAlways, FlowAlways, PTL

\* No money without an account of it: a call that holds some still waits, ended in an
\* order, or is one whose answer the merchant missed.
THEOREM MoneyAccounted == Spec => []MoneyIsAccounted
  <1>1. ASSUME LinkInv, FlowInv
        PROVE  MoneyIsAccounted
    <2>1. ASSUME NEW h \in Calls, Paid(h)
          PROVE  Waiting(h) \/ orders[h].placed \/ h \in lost
      <3>1. calls[h].pc = "answered" /\ completes[h].pc \in Sent
        BY <1>1, <2>1, PaidIsReleased DEF LinkInv, CallInv
      <3>. QED BY <1>1, <2>1, <3>1 DEF FlowInv, FlowOf, Settled, Paid, Money, Sent, Waiting
    <2>. QED BY <2>1 DEF MoneyIsAccounted
  <1>. QED BY <1>1, LinkAlways, FlowAlways, PTL
-----------------------------------------------------------------------------
(***************************************************************************)
(* Tokens: a release serves one call.                                      *)
(***************************************************************************)
Served(t) == {h \in Calls : creds[h] = "released" /\ payload[h].token = t}

ServedInv == \A t \in Tokens : Cardinality(Served(t)) <= tokens[t].releases

\* No token forgets a release.
LEMMA ReleasesGrow ==
  ASSUME MerchantInv, LinkInv, LinkInv', [Next]_vars, NEW t \in Tokens
  PROVE  /\ tokens[t].releases \in Nat /\ tokens'[t].releases \in Nat
         /\ tokens'[t].releases >= tokens[t].releases
  <1>1. tokens[t] \in WT!Token /\ tokens'[t] \in WT!Token
    BY LinkTyped DEF LinkInv, WT!TokenInv, WT!TypeOK
  <1>2. tokens[t].releases \in Nat /\ tokens'[t].releases \in Nat
    BY <1>1 DEF WT!Token
  <1>3. ~tokens[t].minted => tokens[t].releases = 0
    BY <1>2 DEF LinkInv, WT!TokenInv, WT!ReleaseBound
  <1>. QED BY <1>2, <1>3, SharedStateGrows

LEMMA ServedStep ==
  ASSUME MerchantInv, LinkInv, LinkInv', ServedInv, [Next]_vars
  PROVE  ServedInv'
  <1>. SUFFICES ASSUME NEW t \in Tokens
                PROVE  Cardinality(Served(t)') <= tokens'[t].releases
    BY DEF ServedInv
  <1>1. /\ IsFiniteSet(Served(t)) /\ Cardinality(Served(t)) \in Nat
        /\ Cardinality(Served(t)) <= tokens[t].releases
    <2>1. Served(t) \subseteq Calls
      BY DEF Served
    <2>. QED BY <2>1, PurchaseAssumption, FS_Subset, FS_CardinalityType
             DEF PurchaseAssumption, ServedInv
  <1>2. ASSUME NEW h \in Calls, CpRelease(h), payload[h].token = t
        PROVE  Cardinality(Served(t)') <= tokens'[t].releases
    <2>1. /\ payload' = payload /\ creds' = [creds EXCEPT ![h] = "released"] /\ creds[h] = "none"
          /\ creds \in [Calls -> {"none", "released"}]
      BY <1>2 DEF CpRelease, LinkInv, WireOK
    <2>2. Served(t)' = Served(t) \cup {h} /\ h \notin Served(t)
      BY <1>2, <2>1 DEF Served
    <2>3. Cardinality(Served(t)') = Cardinality(Served(t)) + 1
      BY <1>1, <2>2, FS_AddElement
    <2>4. tokens'[t].releases = tokens[t].releases + 1
      <3>1. tokens[t] \in WT!Token /\ tokens \in [Tokens -> WT!Token]
        BY LinkTyped
      <3>. QED BY <1>2, <3>1 DEF CpRelease, W!ReleaseCredentials, WT!Token
    <2>. QED BY <1>1, <2>3, <2>4, ReleasesGrow
  <1>3. CASE ~\E h \in Calls : CpRelease(h) /\ payload[h].token = t
    <2>1. ASSUME NEW h \in Calls
          PROVE  h \in Served(t)' <=> h \in Served(t)
      <3>1. CASE Untouched(h)
        BY <3>1 DEF Served, Untouched
      <3>2. CASE Submits(h)
        <4>1. creds' = creds /\ completes[h].pc = "idle"
          BY <3>2 DEF Submits, Submit, M!StartComplete, M!At
        <4>2. creds[h] # "released"
          BY <4>1 DEF LinkInv, CallInv, Sent
        <4>. QED BY <4>1, <4>2 DEF Served
      <3>3. CASE CpRelease(h)
        <4>1. payload' = payload /\ payload[h].token # t
          BY <1>3, <3>3 DEF CpRelease
        <4>. QED BY <4>1 DEF Served
      <3>4. CASE (Service(h) /\ ~CpRelease(h)) \/ LoseAuthorization(h) \/ LoseCapture(h)
        <4>1. payload' = payload /\ creds' = creds
          BY <3>4 DEF Service, Kya, Verify, PspReject, PspReceive, PspReleaseFailed, PspSettle,
               ReadAuthorization, PspCapture, ReadCapture, LoseAuthorization, LoseCapture, wire
        <4>. QED BY <4>1 DEF Served
      <3>. QED BY <3>1, <3>2, <3>3, <3>4, StepIsOfOneCall DEF StepOf
    <2>2. Served(t)' = Served(t)
      BY <2>1 DEF Served
    <2>. QED BY <1>1, <2>2, ReleasesGrow
  <1>. QED BY <1>2, <1>3

LEMMA ServedAlways == Spec => []ServedInv
  <1>1. ASSUME Init
        PROVE  ServedInv
    <2>1. ASSUME NEW t \in Tokens
          PROVE  Cardinality(Served(t)) <= tokens[t].releases
      <3>1. Served(t) = {} /\ tokens[t].releases = 0
        BY <1>1 DEF Init, W!Init, W!NoToken, Served
      <3>. QED BY <3>1, FS_EmptySet
    <2>. QED BY <2>1 DEF ServedInv
  <1>. QED BY <1>1, ServedStep, MerchantAlways, LinkAlways, PTL DEF Spec

\* A token moves money at most as often as it was released for, and never past the
\* challenge or the refusal of its card, however submissions, retries and lost answers
\* are interleaved.
THEOREM TokensBoundMoney == Spec => []MoneyPerToken
  <1>1. ASSUME LinkInv, FlowInv, ServedInv
        PROVE  MoneyPerToken
    <2>1. ASSUME NEW t \in Tokens
          PROVE  LET paid == {h \in Calls : Paid(h) /\ payload[h].token = t} IN
                 /\ Cardinality(paid) <= tokens[t].releases
                 /\ tokens[t].method = "challenge" => \A h \in paid : payload[h].attested
                 /\ tokens[t].method = "decline" => paid = {}
      <3>. DEFINE paid == {h \in Calls : Paid(h) /\ payload[h].token = t}
      <3>1. paid \subseteq Served(t)
        BY <1>1, PaidIsReleased DEF Served
      <3>2. IsFiniteSet(Served(t))
        <4>1. Served(t) \subseteq Calls
          BY DEF Served
        <4>. QED BY <4>1, PurchaseAssumption, FS_Subset DEF PurchaseAssumption
      <3>3. /\ Cardinality(paid) <= Cardinality(Served(t))
            /\ Cardinality(paid) \in Nat /\ Cardinality(Served(t)) \in Nat
        BY <3>1, <3>2, FS_Subset, FS_CardinalityType
      <3>4. tokens[t].releases \in Nat
        <4>1. tokens[t] \in WT!Token
          BY <1>1, LinkTyped
        <4>. QED BY <4>1 DEF WT!Token
      <3>5. Cardinality(paid) <= tokens[t].releases
        BY <1>1, <3>3, <3>4 DEF ServedInv
      <3>6. \A h \in paid : /\ tokens[t].method # "decline"
                            /\ tokens[t].method = "challenge" => payload[h].attested
        BY <1>1 DEF FlowInv, FlowOf, Released
      <3>. QED BY <3>5, <3>6
    <2>. QED BY <2>1 DEF MoneyPerToken
  <1>. QED BY <1>1, LinkAlways, FlowAlways, ServedAlways, PTL

-----------------------------------------------------------------------------
(***************************************************************************)
(* The spent meter.  Nobody resets it here, so it counts every token that  *)
(* was used; and a token released once was charged by one call at most.    *)
(***************************************************************************)
MeterInv == WT!MeterInv /\ \A t \in Tokens : tokens[t].used => t \in metered

\* A sum means the same in every module.
LEMMA SameSums == \A f, S : WT!SumFunctionOnSet(f, S) = SumFunctionOnSet(f, S)
  BY DEF WT!SumFunctionOnSet, SumFunctionOnSet, WT!FoldFunctionOnSet, FoldFunctionOnSet,
         WT!MapThenFoldSet, MapThenFoldSet

\* Two elements of a set of at most one are the same.
LEMMA AtMostOne ==
  ASSUME NEW S, IsFiniteSet(S), Cardinality(S) <= 1, NEW x \in S, NEW y \in S
  PROVE  x = y
  <1>1. Cardinality(S) \in Nat
    BY FS_CardinalityType
  <1>2. Cardinality(S \ {x}) = Cardinality(S) - 1 /\ IsFiniteSet(S \ {x})
    BY FS_RemoveElement
  <1>3. Cardinality(S \ {x}) \in Nat
    BY <1>2, FS_CardinalityType
  <1>4. Cardinality(S \ {x}) = 0
    BY <1>1, <1>2, <1>3
  <1>5. S \ {x} = {}
    BY <1>2, <1>4, FS_EmptySet
  <1>. QED BY <1>5

LEMMA MeterStep ==
  ASSUME MerchantInv, LinkInv, MeterInv, [Next]_vars
  PROVE  MeterInv'
  <1>1. WT!MeterInv'
    BY WalletSteps, SameWallet, ServiceAssumptions, WT!MeterStep DEF MeterInv
  <1>. SUFFICES ASSUME NEW t \in Tokens, tokens'[t].used PROVE t \in metered'
    BY <1>1 DEF MeterInv
  <1>2. /\ tokens \in [Tokens -> WT!Token] /\ tokens[t] \in WT!Token
        /\ tokens[t].used => t \in metered
        /\ tokens[t].used <=> tokens[t].releases > 0
    BY LinkTyped DEF MeterInv, LinkInv, WT!TokenInv, WT!ReleaseBound
  <1>3. ASSUME NEW u \in Tokens, NEW m \in Methods, NEW c \in Checkouts, NEW amount,
               W!MintInstrument(u, m, c, amount, TRUE)
        PROVE  t \in metered'
    <2>1. metered' = metered /\ (t # u => tokens'[t] = tokens[t])
      BY <1>2, <1>3 DEF W!MintInstrument
    <2>2. tokens'[u].used = FALSE
      BY <1>2, <1>3 DEF W!MintInstrument, W!NoToken
    <2>. QED BY <1>2, <2>1, <2>2
  <1>4. ASSUME NEW u \in Tokens, W!ReleaseCredentials(u)
        PROVE  t \in metered'
    <2>1. /\ metered' = IF tokens[u].releases = 0 THEN metered \cup {u} ELSE metered
          /\ t # u => tokens'[t] = tokens[t]
      BY <1>2, <1>4 DEF W!ReleaseCredentials
    <2>2. tokens[t].releases \in Nat
      BY <1>2 DEF WT!Token
    <2>. QED BY <1>2, <2>1, <2>2
  <1>5. ASSUME NEW u \in Tokens, W!RevokeToken(u)
        PROVE  t \in metered'
    <2>1. metered' = metered /\ tokens'[t].used = tokens[t].used
      BY <1>2, <1>5 DEF W!RevokeToken, WT!Token
    <2>. QED BY <1>2, <2>1
  <1>6. CASE UNCHANGED <<tokens, metered>>
    BY <1>2, <1>6
  <1>7. ASSUME NEW h \in Calls, CpRelease(h)
        PROVE  t \in metered'
    BY <1>4, <1>7 DEF CpRelease, LinkInv, WireOK
  <1>8. ASSUME NEW offer \in offers, NEW u \in Tokens, NEW m \in Methods, Mint(u, m, offer)
        PROVE  t \in metered'
    BY <1>3, <1>8, MerchantTyped DEF Mint
  <1>9. CASE \/ \E offer \in offers : Sign(offer)
             \/ Shop \/ Suspend \/ UNCHANGED vars
             \/ \E h \in Calls :
                  \/ Submits(h) \/ LoseAuthorization(h) \/ LoseCapture(h)
                  \/ (Service(h) /\ ~CpRelease(h))
    BY <1>6, <1>9
       DEF Sign, W!SignPaymentMandate, Shop, Suspend, vars, wallet, Submits, Submit,
           LoseAuthorization, LoseCapture, Service, Kya, Verify, PspReject, PspReceive,
           PspReleaseFailed, PspSettle, ReadAuthorization, PspCapture, ReadCapture
  <1>. QED BY <1>5, <1>7, <1>8, <1>9 DEF Next, Submits, Revoke

LEMMA MeterAlways == Spec => []MeterInv
  <1>1. Init => MeterInv
    <2>1. Init => WT!MeterInv
      BY ServiceAssumptions, SameWallet, WT!MeterInit DEF Init
    <2>. QED BY <2>1 DEF Init, W!Init, W!NoToken, MeterInv
  <1>. QED BY <1>1, MeterStep, MerchantAlways, LinkAlways, PTL DEF Spec

\* What was charged on tokens used as they were minted is on the user's meter,
\* whatever was retried, escalated or lost: each of them was charged by one call.
THEOREM ChargesAreMetered == Spec => []MeterCoversCharges
  <1>1. ASSUME LinkInv, FlowInv, MoneyPerToken, MeterInv
        PROVE  MeterCoversCharges
    <2>. DEFINE exact == {t \in Tokens :
                  /\ tokens[t].releases = 1
                  /\ \A h \in Calls : (Paid(h) /\ payload[h].token = t)
                                        => calls[h].req.amount = tokens[t].amount}
                charged == {h \in Calls : Paid(h) /\ payload[h].token \in exact}
                asked == [h \in Calls |-> calls[h].req.amount]
                minted == [t \in Tokens |-> tokens[t].amount]
                tokenOf == [h \in Calls |-> payload[h].token]
    <2>1. IsFiniteSet(charged) /\ charged \subseteq Calls
      <3>1. charged \subseteq Calls
        OBVIOUS
      <3>. HIDE DEF charged
      <3>. QED BY <3>1, PurchaseAssumption, FS_Subset DEF PurchaseAssumption
    <2>2. /\ IsFiniteSet(metered) /\ metered \subseteq Tokens
          /\ agentPolicy.spent = SumFunctionOnSet(minted, metered)
      <3>1. /\ WT!IsFiniteSet(metered) /\ metered \subseteq Tokens
            /\ agentPolicy.spent = WT!SumFunctionOnSet(minted, metered)
        BY <1>1 DEF MeterInv, WT!MeterInv, WT!SpentMeter, WT!TokenInv, WT!TypeOK
      <3>2. IsFiniteSet(metered)
        BY <3>1 DEF WT!IsFiniteSet, IsFiniteSet
      <3>. QED BY <3>1, <3>2, SameSums
    <2>3. \A t \in metered : minted[t] \in Nat
      <3>1. \A t \in Tokens : tokens[t].amount \in Nat
        BY <1>1, LinkTyped DEF WT!Token
      <3>. QED BY <2>2, <3>1
    <2>4. \A h \in charged : tokenOf[h] \in metered /\ asked[h] = minted[tokenOf[h]]
      BY <1>1, <2>2, PaidIsReleased DEF MeterInv
    <2>5. ASSUME NEW g \in charged, NEW h \in charged, tokenOf[g] = tokenOf[h]
          PROVE  g = h
      <3>. DEFINE t == payload[h].token
                  paid == {k \in Calls : Paid(k) /\ payload[k].token = t}
      <3>1. t \in Tokens /\ g \in paid /\ h \in paid /\ tokens[t].releases = 1
        BY <2>5
      <3>2. Cardinality(paid) <= 1
        BY <1>1, <3>1 DEF MoneyPerToken
      <3>3. IsFiniteSet(paid)
        <4>1. paid \subseteq Calls
          OBVIOUS
        <4>. HIDE DEF paid
        <4>. QED BY <4>1, PurchaseAssumption, FS_Subset DEF PurchaseAssumption
      <3>. HIDE DEF paid
      <3>. QED BY <3>1, <3>2, <3>3, AtMostOne
    <2>. HIDE DEF exact
    <2>6. SumFunctionOnSet(asked, charged) <= SumFunctionOnSet(minted, metered)
      <3>. HIDE DEF charged, asked, minted, tokenOf
      <3>. QED BY <2>1, <2>2, <2>3, <2>4, <2>5, SumInjective
    <2>7. ChargedOn(exact) <= agentPolicy.spent
      BY <2>2, <2>6 DEF ChargedOn
    <2>. QED BY <2>7 DEF exact, MeterCoversCharges
  <1>. QED BY <1>1, LinkAlways, FlowAlways, TokensBoundMoney, MeterAlways, PTL
-----------------------------------------------------------------------------
(***************************************************************************)
(* The refinement of PurchaseContract.                                     *)
(***************************************************************************)
\* What the money of a call is seen to have bought.
BoughtOf(h) ==
  [checkout |-> IF Paid(h) THEN completes[h].checkout ELSE CHOOSE c \in Checkouts : TRUE,
   amount |-> IF Paid(h) THEN calls[h].req.amount ELSE 0]

Seen == <<mandates, [h \in Calls |-> StageOf(h)], [h \in Calls |-> BoughtOf(h)]>>

SameView(h) == StageOf(h)' = StageOf(h) /\ BoughtOf(h)' = BoughtOf(h)

LEMMA ViewIsContract == Contract!vars = Seen /\ Contract!vars' = Seen'
  BY DEF Contract!vars, Seen, BoughtOf

LEMMA UntouchedView ==
  ASSUME NEW h \in Calls, Untouched(h)
  PROVE  SameView(h)
  BY DEF Untouched, SameView, StageOf, BoughtOf, Paid

\* The steps a contract sees, for the call that takes them.
LEMMA CallView ==
  ASSUME MerchantInv, LinkInv, FlowInv, NEW h \in Calls, StepOf(h)
  PROVE  /\ mandates' = mandates
         /\ \/ SameView(h)
            \/ /\ StageOf(h) = "none" /\ StageOf(h)' = "held"
               /\ BoughtOf(h)' \in mandates
            \/ /\ StageOf(h) = "held" /\ StageOf(h)' = "captured"
               /\ BoughtOf(h)' = BoughtOf(h)
            \/ /\ StageOf(h) = "captured" /\ StageOf(h)' = "ordered"
               /\ BoughtOf(h)' = BoughtOf(h)
  <1>0. /\ completes \in [Calls -> MT!CallOf(Len(heap))]
        /\ orders \in [Calls -> [placed: BOOLEAN, qty: Nat, total: Int]]
        /\ calls \in [Calls -> PT!Call] /\ calls[h] \in PT!Call
        /\ txns \in [Calls -> [status: PT!TxnStatus, refunded: Nat]]
        /\ calls[h].pc \in {"idle", "releasing"} => txns[h].status = "none"
        /\ calls[h].pc # "idle" => completes[h].pc \in Sent
        /\ FlowOf(h)
    BY MerchantTyped, LinkTyped DEF FlowInv, LinkInv, CallInv, PT!MoneyInv, PT!RefusedCallHoldsNoMoney
  <1>1. CASE Submits(h)
    <2>1. /\ completes[h].pc = "idle" /\ UNCHANGED <<calls, txns, orders, mandates>>
      BY <1>0, <1>1 DEF Submits, Submit, M!StartComplete, M!At, psp, wallet
    <2>2. ~Paid(h) /\ ~Paid(h)'
      BY <1>0, <2>1 DEF Sent, Paid, Money
    <2>. QED BY <2>1, <2>2 DEF SameView, StageOf, BoughtOf
  <1>2. CASE \/ Kya(h) \/ Verify(h) \/ PspReject(h) \/ ReadAuthorization(h)
             \/ LoseAuthorization(h) \/ LoseCapture(h)
    <2>1. /\ UNCHANGED <<calls, txns, mandates, orders>>
          /\ completes'[h].checkout = completes[h].checkout
      BY <1>0, <1>2 DEF Kya, Verify, PspReject, ReadAuthorization, LoseAuthorization,
           LoseCapture, psp, wallet, M!KyaPassed, M!KyaRefused, M!RefuseMandate,
           M!RequestAuthorization, M!AuthorizeFailed, M!Escalate, M!Authorized,
           M!CaptureFailed, M!Goto, MT!CallOf
    <2>. QED BY <2>1 DEF SameView, StageOf, BoughtOf, Paid
  <1>3. CASE ReadCapture(h)
    <2>1. /\ UNCHANGED <<calls, txns, mandates>> /\ txns[h].status = "captured"
          /\ completes'[h].checkout = completes[h].checkout
          /\ completes[h].pc = "capturing" /\ orders'[h].placed
      BY <1>0, <1>3 DEF ReadCapture, psp, wallet, M!PlaceOrder, M!Goto, M!At, MT!CallOf
    <2>2. ~orders[h].placed
      BY <1>0, <2>1 DEF FlowOf, Settled
    <2>. QED BY <2>1, <2>2 DEF StageOf, BoughtOf, Paid
  <1>4. CASE PspReceive(h) \/ PspReleaseFailed(h)
    <2>1. /\ UNCHANGED <<completes, orders, txns, mandates>>
          /\ calls[h].pc \in {"idle", "releasing"}
      BY <1>4 DEF PspReceive, PspReleaseFailed, merchant, wallet, P!RefuseUntrusted, P!Admit,
           P!ReleaseFailed
    <2>2. ~Paid(h) /\ ~Paid(h)'
      BY <1>0, <2>1 DEF Paid, Money
    <2>. QED BY <2>1, <2>2 DEF SameView, StageOf, BoughtOf
  <1>5. CASE CpRelease(h)
    <2>1. UNCHANGED <<completes, orders, calls, txns, mandates>>
      BY <1>5 DEF CpRelease, merchant, psp, W!ReleaseCredentials
    <2>. QED BY <2>1 DEF SameView, StageOf, BoughtOf, Paid
  <1>6. CASE PspSettle(h)
    <2>1. /\ UNCHANGED <<completes, orders, mandates>>
          /\ calls[h].pc = "releasing" /\ calls'[h].req = calls[h].req
          /\ txns' = txns \/ txns'[h].status \in {"declined", "requires_challenge", "authorized"}
      BY <1>0, <1>6 DEF PspSettle, merchant, wallet, P!Released, P!ConstraintFailed, P!OverCap,
           P!Settle, P!Outcome, PT!Call
    <2>2. ~Paid(h) /\ ~orders[h].placed /\ StageOf(h) = "none"
      BY <1>0, <2>1 DEF Paid, Money, FlowOf, Settled, StageOf
    <2>3. CASE txns'[h].status = "authorized"
      <3>1. StageOf(h)' = "held"
        BY <2>1, <2>2, <2>3 DEF StageOf
      <3>2. BoughtOf(h)' = [checkout |-> completes[h].checkout, amount |-> completes[h].terms.total]
        BY <1>0, <2>1, <2>3 DEF BoughtOf, Paid, Money, FlowOf, Asked
      <3>3. MandateHolds(h)
        BY <1>0, <2>1 DEF FlowOf, Asked
      <3>. QED BY <2>1, <2>2, <3>1, <3>2, <3>3 DEF MandateHolds
    <2>4. CASE txns'[h].status # "authorized"
      <3>1. ~Paid(h)' /\ StageOf(h)' = "none"
        BY <1>0, <2>1, <2>2, <2>4 DEF Paid, Money, StageOf
      <3>. QED BY <2>1, <2>2, <3>1 DEF SameView, BoughtOf
    <2>. QED BY <2>3, <2>4
  <1>7. CASE PspCapture(h)
    <2>1. /\ UNCHANGED <<completes, orders, mandates, calls>>
          /\ txns[h].status = "authorized" /\ txns'[h].status = "captured"
      BY <1>0, <1>7 DEF PspCapture, merchant, wallet, P!CapturePayment, P!Capturable
    <2>2. ~orders[h].placed
      BY <1>0, <2>1 DEF FlowOf, Settled
    <2>. QED BY <2>1, <2>2 DEF StageOf, BoughtOf, Paid, Money
  <1>. QED BY <1>1, <1>2, <1>3, <1>4, <1>5, <1>6, <1>7 DEF StepOf, Service

\* Every step is a step of the contract, or one it does not see.
LEMMA ContractStep ==
  ASSUME MerchantInv, LinkInv, FlowInv, [Next]_vars
  PROVE  [Contract!Next]_(Contract!vars)
  <1>. DEFINE stage == [h \in Calls |-> StageOf(h)]
              bought == [h \in Calls |-> BoughtOf(h)]
  <1>1. CASE Aside
    <2>1. \A h \in Calls : SameView(h)
      BY <1>1, OthersUntouched, UntouchedView
    <2>2. stage' = stage /\ bought' = bought
      BY <2>1 DEF SameView
    <2>3. CASE \E offer \in offers : Sign(offer)
      <3>1. \E x \in mandates' : mandates' = mandates \cup {x}
        BY <2>3 DEF Sign, W!SignPaymentMandate
      <3>. QED BY <2>2, <3>1 DEF Contract!Next, Contract!Give, BoughtOf
    <2>4. CASE mandates' = mandates
      BY <2>2, <2>4, ViewIsContract DEF Seen
    <2>. QED BY <1>1, <2>3, <2>4 DEF Aside, Shop, Mint, Revoke, Suspend, wallet, vars,
             W!MintInstrument, W!RevokeToken
  <1>2. ASSUME NEW h \in Calls, StepOf(h)
        PROVE  [Contract!Next]_(Contract!vars)
    <2>1. \A k \in Calls \ {h} : SameView(k)
      BY <1>2, OthersUntouched, UntouchedView
    <2>2. mandates' = mandates
      BY <1>2, CallView
    <2>3. CASE SameView(h)
      <3>1. stage' = stage /\ bought' = bought
        BY <2>1, <2>3 DEF SameView
      <3>. QED BY <2>2, <3>1, ViewIsContract DEF Seen
    <2>4. CASE StageOf(h) = "none" /\ StageOf(h)' = "held" /\ BoughtOf(h)' \in mandates
      <3>1. stage' = [stage EXCEPT ![h] = "held"] /\ bought' = [bought EXCEPT ![h] = BoughtOf(h)']
        BY <2>1, <2>4 DEF SameView
      <3>2. stage[h] = "none"
        BY <2>4
      <3>. QED BY <2>2, <2>4, <3>1, <3>2 DEF Contract!Next, Contract!Hold, BoughtOf
    <2>5. CASE StageOf(h) = "held" /\ StageOf(h)' = "captured" /\ BoughtOf(h)' = BoughtOf(h)
      <3>1. stage' = [stage EXCEPT ![h] = "captured"] /\ bought' = bought /\ stage[h] = "held"
        BY <2>1, <2>5 DEF SameView
      <3>. QED BY <2>2, <3>1 DEF Contract!Next, Contract!Capture, BoughtOf
    <2>6. CASE StageOf(h) = "captured" /\ StageOf(h)' = "ordered" /\ BoughtOf(h)' = BoughtOf(h)
      <3>1. stage' = [stage EXCEPT ![h] = "ordered"] /\ bought' = bought /\ stage[h] = "captured"
        BY <2>1, <2>6 DEF SameView
      <3>. QED BY <2>2, <3>1 DEF Contract!Next, Contract!PlaceOrder, BoughtOf
    <2>. QED BY <1>2, <2>3, <2>4, <2>5, <2>6, CallView
  <1>. QED BY <1>1, <1>2, StepIsOfOneCall

\* The merchant, the PSP and the credentials provider together implement the contract
\* of a purchase: money is held only for what the user consented to, captured only
\* when held, and an order is placed only when it was captured.
THEOREM PurchaseKeepsContract == Spec => KeepsContract
  <1>1. Init => Contract!Init
    BY DEF Init, M!Init, P!Init, W!Init, M!NoOrder, Contract!Init, Contract!Nothing, StageOf,
           Paid, Money
  <1>. QED BY <1>1, ContractStep, MerchantAlways, LinkAlways, FlowAlways, PTL
           DEF Spec, KeepsContract, Contract!Spec
=============================================================================
