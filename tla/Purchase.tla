------------------------------ MODULE Purchase ------------------------------
(***************************************************************************)
(* A purchase with the human present, across the merchant, the payment     *)
(* service provider and the credentials provider: the composition of       *)
(* CheckoutSession (M), PaymentProvider (P) and Wallet (W) along the calls *)
(* complete_checkout makes.  Each service takes the steps of its own       *)
(* module; a message is the step of the service that receives it.  An      *)
(* answer may be lost, and then the caller sees an error while the callee  *)
(* goes on.                                                                *)
(*                                                                         *)
(* The shopping agent is whatever the mandates allow: it mints, lets the   *)
(* user sign and submits in any order, several times, and updates or       *)
(* cancels meanwhile.  No time passes here, no call exceeds the velocity   *)
(* limit and the policy stays as it is: those are Wallet's and             *)
(* PaymentProvider's own.  Totals may be 0; those below, which only the    *)
(* merchant's arithmetic is modelled for, are left out.                    *)
(***************************************************************************)
EXTENDS Integers, Sequences, FiniteSets, FiniteSetsExt

CONSTANTS Calls, Checkouts, Tokens, Methods, Quantities, Fees, MaxObjects, MaxCharge, Budget

ASSUME PurchaseAssumption ==
  /\ IsFiniteSet(Calls)
  /\ Checkouts # {}
  /\ Tokens # {}
  /\ Methods \subseteq {"ok", "challenge", "decline"}
  /\ Methods # {}
  /\ Quantities \subseteq Nat \ {0}
  /\ Fees \subseteq Int
  /\ \A q \in Quantities, fee \in Fees : q + fee \in Nat
  /\ MaxObjects \in Nat
  /\ MaxCharge \in Nat
  /\ Budget \in Nat

Agent == "shoppy"
Merchant == "merchant"
Policy == [autonomy |-> "always_ask", askAbove |-> 0, perTxCap |-> MaxCharge,
           budget |-> Budget, allowed |-> {Merchant}, validUntil |-> 0]

VARIABLES
  heap, current, qty, completes, orders, declines, offers, overlapped, disturbed,
  calls, txns, openMandateLedger, agentRegistry, velocityLog, velocityLimit, sinceLimit,
  agentPolicy, tokens, approvals, mandates, metered,
  now,
  payload,  \* token and attestation each complete_checkout call carries
  creds,    \* whether the credentials provider answered the PSP's call
  lost      \* history: calls of which the merchant missed an answer

M == INSTANCE CheckoutSession
P == INSTANCE PaymentProvider WITH
       Agents <- {Agent}, Registered <- {Agent}, OpenMandates <- {}, NoOpen <- "present",
       Amounts <- 0..MaxCharge, MaxOccurrences <- 0, OpenBudget <- 0,
       Caps <- {MaxCharge}, Scores <- {}, Limits <- {},
       InitialLimit <- Cardinality(Calls), Window <- 1, MaxTime <- 0
W == INSTANCE Wallet WITH
       Merchants <- {Merchant}, MerchantOf <- [c \in Checkouts |-> Merchant],
       Amounts <- 0..MaxCharge, Policies <- {Policy}, InitialPolicy <- Policy,
       ApprovalTTL <- 1, MaxTime <- 0

\* The parts of the state that a step of one service leaves alone.
merchant == <<heap, current, qty, completes, orders, declines, offers, overlapped, disturbed>>
psp == <<calls, txns, openMandateLedger, agentRegistry, velocityLog, velocityLimit, sinceLimit>>
wallet == <<agentPolicy, tokens, approvals, mandates, metered>>
wire == <<payload, creds, lost>>
vars == <<merchant, psp, wallet, now, wire>>

Init ==
  /\ M!Init /\ P!Init /\ W!Init
  /\ payload = [h \in Calls |-> [token |-> CHOOSE t \in Tokens : TRUE, attested |-> FALSE]]
  /\ creds = [h \in Calls |-> "none"]
  /\ lost = {}

-----------------------------------------------------------------------------
(***************************************************************************)
(* The shopping agent and the user.                                        *)
(***************************************************************************)
Shop == M!Sessions /\ UNCHANGED <<psp, wallet, now, wire>>

\* preparePayment: the instrument is minted for the total the agent last saw.
Mint(t, method, offer) ==
  /\ W!MintInstrument(t, method, offer.checkout, offer.total, TRUE)
  /\ UNCHANGED <<merchant, psp, wire>>

\* confirmAndPay: the user signs the payment mandate for an offer.
Sign(offer) ==
  /\ W!SignPaymentMandate(offer.checkout, offer.total, TRUE)
  /\ UNCHANGED <<merchant, psp, wire>>

Revoke(t) == W!RevokeToken(t) /\ UNCHANGED <<merchant, psp, wire>>

\* The admin of the PSP suspends the agent.
Suspend ==
  /\ P!EditRegistry(Agent, "suspended", agentRegistry[Agent].reputation)
  /\ UNCHANGED <<merchant, wallet, wire>>

\* submitComplete: an offer, a token, which may have been minted for another checkout or
\* an earlier total of this one, and after an escalation the attestation that the user
\* passed it.
Submit(h, terms, t, attested) ==
  /\ tokens[t].minted
  /\ attested => \E h2 \in Calls : /\ completes[h2].pc = "escalated"
                                   /\ completes[h2].checkout = terms.checkout
  /\ M!StartComplete(h, terms)
  /\ payload' = [payload EXCEPT ![h] = [token |-> t, attested |-> attested]]
  /\ UNCHANGED <<psp, wallet, now, creds, lost>>

(***************************************************************************)
(* complete_checkout and the calls it makes.                               *)
(***************************************************************************)
\* lookup_agent is answered from the registry as it is now.
Kya(h) ==
  /\ IF P!Trusted(Agent) THEN M!KyaPassed(h) ELSE M!KyaRefused(h)
  /\ UNCHANGED <<psp, wallet, now, wire>>

Verify(h) ==
  /\ M!RefuseMandate(h) \/ M!RequestAuthorization(h)
  /\ UNCHANGED <<psp, wallet, now, wire>>

ChargeRequest(h) ==
  [agent |-> Agent, open |-> "present", amount |-> completes[h].charge,
   attested |-> payload[h].attested]

\* Mutant of MandateHolds: the signature of the payment mandate is not verified.
MandateUnverified(h) == TRUE

\* The payment mandate of the call was signed by the credentials provider.
MandateHolds(h) ==
  [checkout |-> completes[h].checkout, amount |-> completes[h].terms.total] \in mandates

\* authorize_payment arrives: the mandate's amount is the charge, or scope fails.
PspReceive(h) ==
  /\ completes[h].pc = "authorizing"
  /\ MandateHolds(h)
  /\ \/ P!RefuseUntrusted(h, ChargeRequest(h))
     \/ P!Admit(h, ChargeRequest(h), completes[h].terms.total = completes[h].charge)
  /\ UNCHANGED <<merchant, wallet, wire>>

\* A mandate that does not verify is refused before anything else is looked at.
PspReject(h) ==
  /\ ~MandateHolds(h)
  /\ M!AuthorizeFailed(h)
  /\ UNCHANGED <<psp, wallet, now, wire>>

\* release_credentials arrives.
CpRelease(h) ==
  /\ calls[h].pc = "releasing"
  /\ creds[h] = "none"
  /\ W!ReleaseCredentials(payload[h].token)
  /\ creds' = [creds EXCEPT ![h] = "released"]
  /\ UNCHANGED <<merchant, psp, payload, lost>>

\* The credentials provider refuses, or its answer is lost on the way.
PspReleaseFailed(h) ==
  /\ creds[h] = "none" => ~W!Releasable(payload[h].token)
  /\ P!ReleaseFailed(h)
  /\ UNCHANGED <<merchant, wallet, wire>>

PspSettle(h) ==
  /\ creds[h] = "released"
  /\ P!Released(h, tokens[payload[h].token].method, tokens[payload[h].token].cap)
  /\ UNCHANGED <<merchant, wallet, wire>>

\* Mutant of ReadAuthorization: an escalation is not handled.
ReadAuthorizationNo3ds(h) ==
  /\ \/ calls[h].pc = "refused" /\ M!AuthorizeFailed(h)
     \/ calls[h].pc = "answered" /\ txns[h].status = "authorized" /\ M!Authorized(h)
  /\ UNCHANGED <<psp, wallet, now, wire>>

\* The merchant reads the PSP's answer to authorize_payment.
ReadAuthorization(h) ==
  /\ \/ calls[h].pc = "refused" /\ M!AuthorizeFailed(h)
     \/ calls[h].pc = "answered" /\ txns[h].status = "requires_challenge" /\ M!Escalate(h)
     \/ calls[h].pc = "answered" /\ txns[h].status = "authorized" /\ M!Authorized(h)
  /\ UNCHANGED <<psp, wallet, now, wire>>

\* The connection breaks: the merchant sees an error, the PSP works on.
LoseAuthorization(h) ==
  /\ calls[h].pc # "refused"
  /\ M!AuthorizeFailed(h)
  /\ lost' = lost \cup {h}
  /\ UNCHANGED <<psp, wallet, now, payload, creds>>

PspCapture(h) ==
  /\ completes[h].pc \in {"capturing", "capture_failed"}
  /\ P!CapturePayment(h)
  /\ UNCHANGED <<merchant, wallet, wire>>

\* Mutants of ReadCapture: the order does not wait for the capture; a session that
\* was touched meanwhile makes the call give up after the capture.
ReadCaptureEarly(h) ==
  /\ M!PlaceOrder(h)
  /\ UNCHANGED <<psp, wallet, now, wire>>
ReadCaptureIfUntouched(h) ==
  /\ txns[h].status = "captured"
  /\ IF heap[completes[h].obj].status = "complete_in_progress"
     THEN M!PlaceOrder(h) ELSE M!CaptureFailed(h)
  /\ UNCHANGED <<psp, wallet, now, wire>>

ReadCapture(h) ==
  /\ txns[h].status = "captured"
  /\ M!PlaceOrder(h)
  /\ UNCHANGED <<psp, wallet, now, wire>>

LoseCapture(h) ==
  /\ M!CaptureFailed(h)
  /\ lost' = lost \cup {h}
  /\ UNCHANGED <<psp, wallet, now, payload, creds>>

\* What goes on by itself once a call was submitted.
Service(h) ==
  \/ Kya(h) \/ Verify(h) \/ PspReject(h) \/ PspReceive(h)
  \/ CpRelease(h) \/ PspReleaseFailed(h) \/ PspSettle(h)
  \/ ReadAuthorization(h) \/ PspCapture(h) \/ ReadCapture(h)

Next ==
  \/ Shop
  \/ \E offer \in offers : Sign(offer) \/ \E t \in Tokens, m \in Methods : Mint(t, m, offer)
  \/ \E t \in Tokens : Revoke(t)
  \/ Suspend
  \/ \E h \in Calls :
       \/ \E terms \in offers, t \in Tokens, attested \in BOOLEAN : Submit(h, terms, t, attested)
       \/ Service(h)
       \/ LoseAuthorization(h) \/ LoseCapture(h)

Spec == Init /\ [][Next]_vars

\* Every service goes on with a call it has received.
FairSpec == Spec /\ \A h \in Calls : WF_vars(Service(h))

-----------------------------------------------------------------------------
Money == {"authorized", "captured"}
Paid(h) == txns[h].status \in Money
Waiting(h) == completes[h].pc \in {"kya", "verify", "authorizing", "capturing"}

\* An order is backed, end to end, by one captured transaction of the total the
\* merchant signed, which the user mandated and for which a token released
\* credentials.
OrderIsBacked ==
  \A h \in Calls : orders[h].placed =>
    /\ txns[h].status = "captured"
    /\ calls[h].req.amount = completes[h].terms.total
    /\ completes[h].terms \in offers
    /\ [checkout |-> completes[h].checkout, amount |-> calls[h].req.amount] \in mandates
    /\ tokens[payload[h].token].used

\* No more money moves on a token than it was released for, which is two charges
\* at the most, and a card that asks for a challenge moves it once without one.
MoneyPerToken ==
  \A t \in Tokens :
    LET paid == {h \in Calls : Paid(h) /\ payload[h].token = t} IN
    /\ Cardinality(paid) <= tokens[t].releases
    /\ tokens[t].method = "challenge" => \A h \in paid : payload[h].attested
    /\ tokens[t].method = "decline" => paid = {}

\* Money is held or taken without an order only while the call still waits, or
\* when the merchant missed an answer: no refusal, escalation or cancellation
\* leaves money behind.
MoneyIsAccounted ==
  \A h \in Calls : Paid(h) => (Waiting(h) \/ orders[h].placed \/ h \in lost)

ChargedOn(ts) ==
  SumFunctionOnSet([h \in Calls |-> calls[h].req.amount],
                   {h \in Calls : Paid(h) /\ payload[h].token \in ts})

\* The spent meter covers the charges of every token that was minted for the
\* amount it was charged and was released once.
MeterCoversCharges ==
  LET exact == {t \in Tokens :
        /\ tokens[t].releases = 1
        /\ \A h \in Calls : (Paid(h) /\ payload[h].token = t) => calls[h].req.amount = tokens[t].amount}
  IN ChargedOn(exact) <= agentPolicy.spent

\* The three services together keep the contract of a purchase.
StageOf(h) ==
  IF orders[h].placed THEN "ordered"
  ELSE IF txns[h].status = "captured" THEN "captured"
  ELSE IF txns[h].status = "authorized" THEN "held"
  ELSE "none"

Contract == INSTANCE PurchaseContract WITH
  consents <- mandates,
  stage <- [h \in Calls |-> StageOf(h)],
  bought <- [h \in Calls |->
    [checkout |-> IF Paid(h) THEN completes[h].checkout ELSE CHOOSE c \in Checkouts : TRUE,
     amount |-> IF Paid(h) THEN calls[h].req.amount ELSE 0]]

KeepsContract == Contract!Spec

\* Every complete_checkout call is answered.
CallsEnd == \A h \in Calls : Waiting(h) ~> ~Waiting(h)

(***************************************************************************)
(* What comments and documentation say and the code does not do.           *)
(***************************************************************************)
\* credentials-provider/src/server.ts:705, "Single-use, but a 3DS authorize->retry pair
\* counts as one settlement (<=2 releases).", and DOCUMENTATION.html:2549, "Re-using a
\* spent network token: CP refuses to release credentials": a token settles once.
TokenSettlesOnce ==
  \A t \in Tokens : Cardinality({h \in Calls : Paid(h) /\ payload[h].token = t}) <= 1
=============================================================================
