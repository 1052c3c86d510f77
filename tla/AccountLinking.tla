--------------------------- MODULE AccountLinking ---------------------------
(***************************************************************************)
(* Identity linking: a session of the shopping agent links the user's      *)
(* account at a merchant (OAuth 2.0: authorize, then token) the first time *)
(* it lists the orders there, and shows its access token with list_orders. *)
(* The merchant portal keeps codes and tokens in memory, for all merchants *)
(* together; the agent keeps one token per session.  Calls of one session  *)
(* overlap: the agent's handlers are asynchronous and take no lock.        *)
(*                                                                         *)
(* Not modelled: the scope, which is the same in every call of the agent,  *)
(* and the orders themselves.                                              *)
(***************************************************************************)
EXTENDS Naturals, FiniteSets

CONSTANTS
  Calls,     \* the calls of list_orders the user makes in one session
  TTL,       \* an hour
  MaxIds, MaxTime, MaxRestarts \* bounds

LinkingAssumption ==
  /\ TTL \in Nat /\ MaxIds \in Nat /\ MaxTime \in Nat /\ MaxRestarts \in Nat

NoToken == 0

VARIABLES
  ids,          \* how many codes and tokens randomId has made; they never repeat
  oauthCodes,   \* the merchant's codes that were not exchanged
  accessTokens, \* the time each token of the merchant expires
  accessToken,  \* the token of the agent's session
  pc,           \* what each call waits for
  mine,         \* the code, then the token of each call
  issued,       \* when each token was issued, kept for the property
  lost,         \* restarts of the merchant
  now

vars == <<ids, oauthCodes, accessTokens, accessToken, pc, mine, issued, lost, now>>

Init ==
  /\ ids = 0
  /\ oauthCodes = {} /\ accessTokens = [id \in {} |-> 0]
  /\ accessToken = NoToken
  /\ pc = [c \in Calls |-> "idle"] /\ mine = [c \in Calls |-> NoToken]
  /\ issued = [id \in {} |-> 0]
  /\ lost = 0 /\ now = 0

-----------------------------------------------------------------------------
(***************************************************************************)
(* The merchant's handlers.                                                *)
(***************************************************************************)
\* Mutant of Coded: a client has one code at a time.
CodedOnce(code) == {code}

\* oauthCodes.set
Coded(code) == oauthCodes \cup {code}

\* GET /oauth/authorize, after the discovery document; the demo approves by itself.
Authorize(c) ==
  /\ pc[c] = "authorize"
  /\ ids < MaxIds /\ ids' = ids + 1
  /\ oauthCodes' = Coded(ids')
  /\ mine' = [mine EXCEPT ![c] = ids']
  /\ pc' = [pc EXCEPT ![c] = "exchange"]
  /\ UNCHANGED <<accessTokens, accessToken, issued, lost, now>>

\* POST /oauth/token: a code is exchanged once.
ExchangeCode(c) ==
  /\ pc[c] = "exchange" /\ mine[c] \in oauthCodes
  /\ ids < MaxIds /\ ids' = ids + 1
  /\ oauthCodes' = oauthCodes \ {mine[c]}
  /\ accessTokens' = [id \in DOMAIN accessTokens \cup {ids'} |->
                        IF id = ids' THEN now + TTL ELSE accessTokens[id]]
  /\ issued' = [id \in DOMAIN issued \cup {ids'} |-> IF id = ids' THEN now ELSE issued[id]]
  /\ mine' = [mine EXCEPT ![c] = ids']
  /\ pc' = [pc EXCEPT ![c] = "answered"]
  /\ UNCHANGED <<accessToken, lost, now>>

\* invalid_grant: the answer has no token.
RefuseCode(c) ==
  /\ pc[c] = "exchange" /\ mine[c] \notin oauthCodes
  /\ mine' = [mine EXCEPT ![c] = NoToken]
  /\ pc' = [pc EXCEPT ![c] = "answered"]
  /\ UNCHANGED <<ids, oauthCodes, accessTokens, accessToken, issued, lost, now>>

Valid(token) == token \in DOMAIN accessTokens /\ accessTokens[token] >= now

\* list_orders; the token was read when the request was made.
ListOrders(c) ==
  /\ pc[c] = "list"
  /\ pc' = [pc EXCEPT ![c] = IF Valid(mine[c]) THEN "listed" ELSE "refused"]
  /\ UNCHANGED <<ids, oauthCodes, accessTokens, accessToken, mine, issued, lost, now>>

\* The merchant portal keeps nothing when it restarts.
Restart ==
  /\ lost < MaxRestarts
  /\ oauthCodes' = {} /\ accessTokens' = [id \in {} |-> 0]
  /\ lost' = lost + 1
  /\ UNCHANGED <<ids, accessToken, pc, mine, issued, now>>

-----------------------------------------------------------------------------
(***************************************************************************)
(* The agent's handler.                                                    *)
(***************************************************************************)
\* listOrders: an account is linked only when the session has no token at all.
StartListing(c) ==
  /\ pc[c] \in {"idle", "listed", "refused", "failed"}
  /\ pc' = [pc EXCEPT ![c] = IF accessToken = NoToken THEN "authorize" ELSE "linked"]
  /\ UNCHANGED <<ids, oauthCodes, accessTokens, accessToken, mine, issued, lost, now>>

\* The end of linkAccount: the answer becomes the session's token, whatever it was meanwhile.
TakeToken(c) ==
  /\ pc[c] = "answered"
  /\ accessToken' = mine[c]
  /\ pc' = [pc EXCEPT ![c] = "linked"]
  /\ UNCHANGED <<ids, oauthCodes, accessTokens, mine, issued, lost, now>>

\* listOrders goes on with the session's token, which may be that of another call.
SendListing(c) ==
  /\ pc[c] = "linked"
  /\ mine' = [mine EXCEPT ![c] = accessToken]
  /\ pc' = [pc EXCEPT ![c] = "list"]
  /\ UNCHANGED <<ids, oauthCodes, accessTokens, accessToken, issued, lost, now>>

\* A request fails, before or after the merchant handled it.
FailCall(c) ==
  /\ pc[c] \in {"authorize", "exchange", "answered", "list"}
  /\ pc' = [pc EXCEPT ![c] = "failed"]
  /\ UNCHANGED <<ids, oauthCodes, accessTokens, accessToken, mine, issued, lost, now>>

Tick ==
  /\ now < MaxTime
  /\ now' = now + 1
  /\ UNCHANGED <<ids, oauthCodes, accessTokens, accessToken, pc, mine, issued, lost>>

Next ==
  \/ Restart \/ Tick
  \/ \E c \in Calls :
       \/ StartListing(c) \/ Authorize(c) \/ ExchangeCode(c) \/ RefuseCode(c)
       \/ TakeToken(c) \/ SendListing(c) \/ ListOrders(c) \/ FailCall(c)

Spec == Init /\ [][Next]_vars

-----------------------------------------------------------------------------
(***************************************************************************)
(* Properties.                                                             *)
(***************************************************************************)
\* Calls that link at the same time, lose answers or overwrite each other's token still
\* reach the orders: as long as the merchant keeps its state, a listing is refused only
\* with a token that was issued a full lifetime ago.  (The session then never links again:
\* it has a token.)
RefusalMeansExpired ==
  \A c \in Calls : pc[c] = "refused" /\ lost = 0 =>
    mine[c] \in DOMAIN issued /\ now > issued[mine[c]] + TTL
=============================================================================
