------------------------------ MODULE Services ------------------------------
(***************************************************************************)
(* Six services beside the purchase that share no state: one is chosen in  *)
(* the initial state and runs, the variables of the others hold Null.      *)
(***************************************************************************)
EXTENDS Naturals

CONSTANT Null  \* no value

\* The REST merchant.
CONSTANTS RestKeys, NoRestKey, Carts, Empty, MaxCheckouts, MaxShipments
VARIABLES checkouts, orders, idemp, first, answer
R == INSTANCE RestConformance WITH Keys <- RestKeys, NoKey <- NoRestKey, None <- Null

\* Carts.
CONSTANTS Products, Unknown, Quantities, Prices, MaxId, MaxRows, MaxLines
VARIABLES catalog, cart, broken
C == INSTANCE Carts WITH None <- Null

\* Negotiation.
CONSTANTS Names, Platforms, Businesses
VARIABLES platform, business, active, visit, changed, pass
N == INSTANCE Negotiation WITH pc <- pass, None <- Null

\* Mandates.
CONSTANTS
  Merchants, Items, Checkouts, MerchantOf, MaxQty, Requirements, Claims, Revealed, Lifetime,
  MaxSigned, MaxHours
VARIABLES live, open, closed, presented, accepted, hour
M == INSTANCE Mandates WITH now <- hour, None <- Null, MaxTime <- MaxHours

\* Account linking.
CONSTANTS Calls, TTL, MaxIds, MaxLosses
VARIABLES ids, oauthCodes, accessTokens, accessToken, pc, mine, issued, lost, clock
L == INSTANCE AccountLinking WITH now <- clock, MaxTime <- MaxHours, MaxRestarts <- MaxLosses

\* Passkeys.
CONSTANTS
  Hosts, Allowed, Contents, Credentials, Counting, Challenges, Ceremonies, ChallengeTTL, MaxCounter
VARIABLES passkeys, pendingReg, created, asserted, count, calls, raced, minute
P == INSTANCE Passkeys WITH now <- minute, None <- Null, MaxTime <- MaxHours

ASSUME ServicesAssumption ==
  /\ R!RestAssumption /\ C!CartsAssumption /\ N!NegotiationAssumption /\ M!MandatesAssumption
  /\ L!LinkingAssumption /\ P!PasskeysAssumption

VARIABLE part  \* the service that runs

restVars == <<checkouts, orders, idemp, first, answer>>
cartVars == <<catalog, cart, broken>>
negotiationVars == <<platform, business, active, visit, changed, pass>>
mandateVars == <<live, open, closed, presented, accepted, hour>>
linkingVars == <<ids, oauthCodes, accessTokens, accessToken, pc, mine, issued, lost, clock>>
passkeyVars == <<passkeys, pendingReg, created, asserted, count, calls, raced, minute>>

NoRest ==
  /\ checkouts = Null /\ orders = Null /\ idemp = Null /\ first = Null /\ answer = Null
NoCarts == catalog = Null /\ cart = Null /\ broken = Null
NoNegotiation ==
  /\ platform = Null /\ business = Null /\ active = Null /\ visit = Null
  /\ changed = Null /\ pass = Null
NoMandates ==
  /\ live = Null /\ open = Null /\ closed = Null /\ presented = Null
  /\ accepted = Null /\ hour = Null
NoLinking ==
  /\ ids = Null /\ oauthCodes = Null /\ accessTokens = Null /\ accessToken = Null
  /\ pc = Null /\ mine = Null /\ issued = Null /\ lost = Null /\ clock = Null
NoPasskeys ==
  /\ passkeys = Null /\ pendingReg = Null /\ created = Null /\ asserted = Null
  /\ count = Null /\ calls = Null /\ raced = Null /\ minute = Null

ServicesInit ==
  /\ part \in {"rest", "carts", "negotiation", "mandates", "linking", "passkeys"}
  /\ IF part = "rest" THEN R!Init ELSE NoRest
  /\ IF part = "carts" THEN C!Init ELSE NoCarts
  /\ IF part = "negotiation" THEN N!Init ELSE NoNegotiation
  /\ IF part = "mandates" THEN M!Init ELSE NoMandates
  /\ IF part = "linking" THEN L!Init ELSE NoLinking
  /\ IF part = "passkeys" THEN P!Init ELSE NoPasskeys

ServicesNext ==
  /\ UNCHANGED part
  /\ \/ part = "rest" /\ R!Next
        /\ UNCHANGED <<cartVars, negotiationVars, mandateVars, linkingVars, passkeyVars>>
     \/ part = "carts" /\ C!Next
        /\ UNCHANGED <<restVars, negotiationVars, mandateVars, linkingVars, passkeyVars>>
     \/ part = "negotiation" /\ N!Next
        /\ UNCHANGED <<restVars, cartVars, mandateVars, linkingVars, passkeyVars>>
     \/ part = "mandates" /\ M!Next
        /\ UNCHANGED <<restVars, cartVars, negotiationVars, linkingVars, passkeyVars>>
     \/ part = "linking" /\ L!Next
        /\ UNCHANGED <<restVars, cartVars, negotiationVars, mandateVars, passkeyVars>>
     \/ part = "passkeys" /\ P!Next
        /\ UNCHANGED <<restVars, cartVars, negotiationVars, mandateVars, linkingVars>>

servicesVars ==
  <<part, restVars, cartVars, negotiationVars, mandateVars, linkingVars, passkeyVars>>

ServicesSpec == ServicesInit /\ [][ServicesNext]_servicesVars

-----------------------------------------------------------------------------
\* A key of the REST merchant runs a request once (RestConformance).
KeyRunsOnce == [][part = "rest" => R!KeyStep]_restVars
\* The reply to a final checkout is what every replay of it says (RestConformance).
FinalRepliesStay == part = "rest" => R!FinalRepliesStay
\* What a cart shows is the sum of its lines (Carts).
CartAddsUp == part = "carts" => C!CartAddsUp
\* Negotiation ends in the greatest set both sides support (Negotiation).
IntersectionIsGreatest == part = "negotiation" => N!IntersectionIsGreatest
\* An accepted mandate is one the user authorized (Mandates).
AcceptedIsAuthorized == part = "mandates" => M!AcceptedIsAuthorized
\* One acceptable item meets each requirement of an open mandate, as a comment says
\* (Mandates).
OneItemServes == part = "mandates" => M!OneItemServes
\* The orders of a linked account are refused only for an expired token (AccountLinking).
RefusalMeansExpired == part = "linking" => L!RefusalMeansExpired
\* A counting passkey's assertion signs one mandate (Passkeys).
AssertionsSignOnce == part = "passkeys" => P!AssertionsSignOnce
=============================================================================
