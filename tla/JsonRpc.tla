------------------------------ MODULE JsonRpc -------------------------------
(***************************************************************************)
(* The server side of a tools/call (mcpHandler): a signed request is       *)
(* verified against the caller's published profile, negotiated against it, *)
(* looked up in the idempotency store and handed to the tool.  Profiles    *)
(* come through a cache (fetchUcpProfile), so a request may wait for the   *)
(* profile and then for the tool, and requests overlap at both.  The       *)
(* profile is looked up for verification and again for negotiation; the    *)
(* second time it is the copy just used, so the handler does not wait.     *)
(*                                                                         *)
(* One caller, which restarts with a new key and profile; its requests     *)
(* carry the key they were signed with and may arrive late.  Requests that *)
(* fail the checks before the signature are answered at once, change       *)
(* nothing and are left out.                                               *)
(***************************************************************************)
EXTENDS Integers, FiniteSets

CONSTANTS
  Requests,
  Keys,        \* idempotency keys
  NoKey,       \* a request without one
  Bodies,
  Keyed,       \* bodies that call a tool with requiresIdempotencyKey
  MaxRestarts, \* bound on restarts of the caller
  ProfileTTL, IdemTTL,
  MaxDelay,    \* bound on the time a profile fetch takes
  MaxTime      \* bound on the clock

None == "none" \* no answer yet, no run, no entry

ASSUME RpcAssumption ==
  /\ None \notin Requests
  /\ Keyed \subseteq Bodies
  /\ Bodies # {} /\ Keys # {}
  /\ NoKey \notin Keys
  /\ MaxRestarts \in Nat /\ MaxDelay \in Nat /\ MaxTime \in Nat
  /\ ProfileTTL \in Nat \ {0} /\ IdemTTL \in Nat \ {0}

VARIABLES
  peer,             \* the caller's present profile, and since when it has it
  retired,          \* history: when each earlier key was replaced
  profileCache,     \* the server's copy of the caller's profile
  requests,         \* where each request stands, and its answer
  idempotencyStore, \* the cached response of each key
  now

vars == <<peer, retired, profileCache, requests, idempotencyStore, now>>

KeyIds == 0..MaxRestarts

\* A profile: its signing key, and whether negotiation accepts the rest of it.
Profile == [key: KeyIds, fits: BOOLEAN]
NoProfile == [key |-> 0, fits |-> FALSE]

\* What a tool ends with: its result, a business outcome or a protocol error with
\* status 200 (answered and cached alike), or an error with another status.
Outcomes == {"result", "businessOutcome", "failure"}

Idle ==
  [pc |-> "idle", key |-> 0, idem |-> NoKey, body |-> CHOOSE b \in Bodies : TRUE,
   fetch |-> "no", since |-> 0, profile |-> NoProfile,
   answer |-> None, of |-> None, at |-> 0]
NoEntry == [of |-> None, body |-> CHOOSE b \in Bodies : TRUE, outcome |-> "failure", at |-> 0]

Init ==
  /\ peer = [key |-> 0, fits |-> TRUE, since |-> 0]
  /\ retired = [g \in KeyIds |-> 0]
  /\ profileCache = [filled |-> FALSE, profile |-> NoProfile, at |-> 0]
  /\ requests = [q \in Requests |-> Idle]
  /\ idempotencyStore = [k \in Keys |-> NoEntry]
  /\ now = 0

-----------------------------------------------------------------------------
(***************************************************************************)
(* The caller.                                                             *)
(***************************************************************************)
\* callTool: a request is signed with the key the caller has now.
CallTool(q, idem, body) ==
  /\ requests[q].pc = "idle"
  /\ requests' = [requests EXCEPT ![q] =
       [Idle EXCEPT !.pc = "verifying", !.key = peer.key, !.idem = idem, !.body = body]]
  /\ UNCHANGED <<peer, retired, profileCache, idempotencyStore, now>>

\* The caller's process starts again with a key of its own.
RestartPeer(fits) ==
  /\ peer.key < MaxRestarts
  /\ peer' = [key |-> peer.key + 1, fits |-> fits, since |-> now]
  /\ retired' = [retired EXCEPT ![peer.key] = now]
  /\ UNCHANGED <<profileCache, requests, idempotencyStore, now>>

-----------------------------------------------------------------------------
(***************************************************************************)
(* What the handler does with a profile it was waiting for.                *)
(***************************************************************************)
\* Records of request q: refused, answered with the outcome of a run, handed to the tool.
Refused(reason) == [Idle EXCEPT !.pc = "done", !.answer = reason]
Answered(q, outcome, run) ==
  [Idle EXCEPT !.pc = "done", !.idem = requests[q].idem, !.body = requests[q].body,
               !.answer = outcome, !.of = run, !.at = now]
Running(q) ==
  [Idle EXCEPT !.pc = "running", !.idem = requests[q].idem, !.body = requests[q].body]

Remembered(k) ==
  /\ idempotencyStore[k].of # None
  /\ now - idempotencyStore[k].at < IdemTTL

\* Mutant of SameRequest: the payload is not compared.
SameRequestByKey(q) == TRUE

SameRequest(q) == idempotencyStore[requests[q].idem].body = requests[q].body

\* The idempotency check, and the answer or the call of the tool that follows it.
Dispatch(q) ==
  LET k == requests[q].idem IN
  IF k = NoKey
  THEN IF requests[q].body \in Keyed THEN Refused("invalid") ELSE Running(q)
  ELSE IF Remembered(k)
       THEN IF SameRequest(q)
            THEN Answered(q, idempotencyStore[k].outcome, idempotencyStore[k].of)
            ELSE Refused("conflict")
       ELSE Running(q)

\* verifyRequest: the key that signed must be the one in the profile.
Verified(q, profile) == profile.key = requests[q].key

\* With a profile at hand the request is verified, negotiated and dispatched.
Proceed(q, profile) ==
  requests' = [requests EXCEPT ![q] =
    IF ~Verified(q, profile) THEN Refused("unauthorized")
    ELSE IF ~profile.fits THEN Refused("incompatible")
    ELSE Dispatch(q)]

-----------------------------------------------------------------------------
(***************************************************************************)
(* fetchUcpProfile.                                                        *)
(***************************************************************************)
\* Mutant of CacheIsFresh: entries never expire.
CacheIsFilled == profileCache.filled

CacheIsFresh == profileCache.filled /\ now - profileCache.at < ProfileTTL

UseCached(q) ==
  /\ requests[q].pc = "verifying"
  /\ requests[q].fetch = "no"
  /\ CacheIsFresh
  /\ Proceed(q, profileCache.profile)
  /\ UNCHANGED <<peer, retired, profileCache, idempotencyStore, now>>

\* No fresh copy: the profile is fetched.
AskProfile(q) ==
  /\ requests[q].pc = "verifying"
  /\ requests[q].fetch = "no"
  /\ ~CacheIsFresh
  /\ requests' = [requests EXCEPT ![q] = [@ EXCEPT !.fetch = "asked", !.since = now]]
  /\ UNCHANGED <<peer, retired, profileCache, idempotencyStore, now>>

\* The caller serves the profile it has now.
ServeProfile(q) ==
  /\ requests[q].fetch = "asked"
  /\ requests' = [requests EXCEPT ![q] =
       [@ EXCEPT !.fetch = "served", !.profile = [key |-> peer.key, fits |-> peer.fits]]]
  /\ UNCHANGED <<peer, retired, profileCache, idempotencyStore, now>>

\* It arrives, is cached as of now, and the request goes on with it.
ReceiveProfile(q) ==
  /\ requests[q].fetch = "served"
  /\ profileCache' = [filled |-> TRUE, profile |-> requests[q].profile, at |-> now]
  /\ Proceed(q, requests[q].profile)
  /\ UNCHANGED <<peer, retired, idempotencyStore, now>>

\* The fetch fails: the profile is unreachable.
FetchFails(q) ==
  /\ requests[q].fetch # "no"
  /\ requests' = [requests EXCEPT ![q] = Refused("unreachable")]
  /\ UNCHANGED <<peer, retired, profileCache, idempotencyStore, now>>

-----------------------------------------------------------------------------
(***************************************************************************)
(* The tool.                                                               *)
(***************************************************************************)
\* Mutant of Cacheable: only results are kept.
CacheableResult(outcome) == outcome = "result"

Cacheable(outcome) == outcome # "failure"

Entry(q, outcome) ==
  [of |-> q, body |-> requests[q].body, outcome |-> outcome, at |-> now]

\* The tool ends; a response with status 200 is stored under the key.
EndTool(q, outcome) ==
  /\ requests[q].pc = "running"
  /\ requests' = [requests EXCEPT ![q] = Answered(q, outcome, q)]
  /\ idempotencyStore' =
       IF requests[q].idem # NoKey /\ Cacheable(outcome)
       THEN [idempotencyStore EXCEPT ![requests[q].idem] = Entry(q, outcome)]
       ELSE idempotencyStore
  /\ UNCHANGED <<peer, retired, profileCache, now>>

\* Time passes, but no fetch takes longer than MaxDelay.
Tick ==
  /\ now < MaxTime
  /\ \A q \in Requests : requests[q].fetch # "no" => now - requests[q].since < MaxDelay
  /\ now' = now + 1
  /\ UNCHANGED <<peer, retired, profileCache, requests, idempotencyStore>>

Handle(q) ==
  \/ UseCached(q)
  \/ AskProfile(q)
  \/ ServeProfile(q)
  \/ ReceiveProfile(q)
  \/ FetchFails(q)
  \/ \E outcome \in Outcomes : EndTool(q, outcome)

Next ==
  \/ \E q \in Requests, idem \in Keys \cup {NoKey}, body \in Bodies : CallTool(q, idem, body)
  \/ \E fits \in BOOLEAN : RestartPeer(fits)
  \/ \E q \in Requests : Handle(q)
  \/ Tick

Spec == Init /\ [][Next]_vars

-----------------------------------------------------------------------------
(***************************************************************************)
(* Properties.                                                             *)
(***************************************************************************)
Answers == Outcomes \cup
  {None, "unauthorized", "unreachable", "incompatible", "invalid", "conflict"}

\* Types of profiles, requests and stored responses.
TypeOK ==
  /\ peer \in [key: KeyIds, fits: BOOLEAN, since: Nat]
  /\ retired \in [KeyIds -> Nat]
  /\ profileCache \in [filled: BOOLEAN, profile: Profile, at: Nat]
  /\ requests \in [Requests ->
       [pc: {"idle", "verifying", "running", "done"},
        key: KeyIds, idem: Keys \cup {NoKey}, body: Bodies,
        fetch: {"no", "asked", "served"}, since: Nat, profile: Profile,
        answer: Answers, of: Requests \cup {None}, at: Nat]]
  /\ idempotencyStore \in [Keys ->
       [of: Requests \cup {None}, body: Bodies, outcome: Outcomes, at: Nat]]
  /\ now \in Nat

\* The answer to a request is what the tool did with that very payload, for this
\* request or an earlier one with its key; and no failure is handed to another
\* request, so a retry after one runs the tool again.
AnswerFitsRequest ==
  \A q \in Requests : requests[q].of # None =>
    LET r == requests[q].of IN
    /\ requests[r].pc = "done" /\ requests[r].of = r
    /\ requests[r].body = requests[q].body
    /\ requests[r].answer = requests[q].answer
    /\ r # q => requests[r].idem = requests[q].idem /\ Cacheable(requests[q].answer)

\* The tool is not run for a key it has answered with status 200 within the
\* lifetime of the store, unless the requests overlapped: whoever gets to run
\* it sees no finished run of its key that is younger.
RunStep ==
  \A q \in Requests :
    /\ requests[q].pc # "running" /\ requests'[q].pc = "running"
    /\ requests[q].idem # NoKey
    => \A r \in Requests :
         /\ requests[r].of = r /\ requests[r].idem = requests[q].idem
         /\ requests[r].answer \in Outcomes \ {"failure"}
         => now - requests[r].at >= IdemTTL
RunsOnlyWhenForgotten == [][RunStep]_vars

\* A key the caller has replaced is accepted only until the cached profile and
\* a fetch under way have run out.
RetiredKeyStep ==
  \A q \in Requests :
    /\ requests[q].pc = "verifying" /\ requests'[q].pc \in {"running", "done"}
    /\ requests'[q].answer \notin {"unauthorized", "unreachable"}
    /\ requests[q].key # peer.key
    => now - retired[requests[q].key] < ProfileTTL + MaxDelay
RetiredKeyExpires == [][RetiredKeyStep]_vars

\* A restarted caller's new key is refused only as long, even when an answer
\* with its old profile arrives after a newer one was cached.
NewKeyStep ==
  \A q \in Requests :
    /\ requests[q].pc = "verifying" /\ requests'[q].pc = "done"
    /\ requests'[q].answer = "unauthorized"
    /\ requests[q].key = peer.key
    => now - peer.since < ProfileTTL + MaxDelay
NewKeyIsAccepted == [][NewKeyStep]_vars
=============================================================================
