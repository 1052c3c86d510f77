------------------------------ MODULE Passkeys ------------------------------
(***************************************************************************)
(* Passkeys at the credentials provider: enrolling one per host (RP id)    *)
(* and the user verification that sign_mandate asks for before it issues a *)
(* checkout mandate.  Both ceremonies verify a response of the user's      *)
(* authenticator, which is asynchronous: what was read before it may have  *)
(* changed after it.  A response may be sent again, at any time.           *)
(*                                                                         *)
(* Not modelled: the pending authentication challenges, which are stored   *)
(* and swept but read by no decision (the challenge is derived from the    *)
(* checkout).  The authenticator and the WebAuthn library are external.    *)
(***************************************************************************)
EXTENDS Naturals, FiniteSets

CONSTANTS
  Hosts, Allowed, \* the hosts a page may have, those that hostAllowed accepts
  Contents,       \* contents a checkout may have
  Credentials,    \* the credentials the user's authenticator may create
  Counting,       \* those whose authenticator counts its signatures (Touch ID does not)
  Challenges,     \* what registration options may contain
  Ceremonies,     \* calls of passkey_register and of sign_mandate
  None,
  ChallengeTTL,
  MaxCounter, MaxTime \* bounds

PasskeysAssumption ==
  /\ Allowed \subseteq Hosts /\ Counting \subseteq Credentials
  /\ ChallengeTTL \in Nat /\ MaxCounter \in Nat /\ MaxTime \in Nat

VARIABLES
  passkeys,   \* the passkey of each host
  pendingReg, \* the time of each registration challenge
  created,    \* registration responses
  asserted,   \* assertions over the terms of a checkout
  count,      \* signatures of each credential, as the authenticator counts them
  calls,      \* what each call has done
  raced,      \* whether two ceremonies ever ran at once over one passkey or one challenge
  now

vars == <<passkeys, pendingReg, created, asserted, count, calls, raced, now>>

Nothing == [c \in {} |-> 0]

Init ==
  /\ passkeys = [h \in Hosts |-> None]
  /\ pendingReg = Nothing
  /\ created = {} /\ asserted = {}
  /\ count = [k \in Credentials |-> 0]
  /\ calls = [c \in Ceremonies |-> [step |-> "new"]]
  /\ raced = FALSE /\ now = 0

\* sweepChallenges
Swept == {ch \in DOMAIN pendingReg : now - pendingReg[ch] <= ChallengeTTL}

Running(step) == {d \in Ceremonies : calls[d].step = step}

Keep(chs) == [ch \in chs |-> pendingReg[ch]]

-----------------------------------------------------------------------------
(***************************************************************************)
(* Enrolling.                                                              *)
(***************************************************************************)
RegisterOptions ==
  /\ \E ch \in Challenges \ ({r.challenge : r \in created} \cup DOMAIN pendingReg) :
       pendingReg' = [x \in Swept \cup {ch} |-> IF x = ch THEN now ELSE pendingReg[x]]
  /\ UNCHANGED <<passkeys, created, asserted, count, calls, raced, now>>

\* The authenticator creates a credential for the page's host.
CreateCredential(h) ==
  /\ \E ch \in DOMAIN pendingReg, k \in Credentials \ {r.id : r \in created} :
       created' = created \cup {[challenge |-> ch, host |-> h, id |-> k]}
  /\ UNCHANGED <<passkeys, pendingReg, asserted, count, calls, raced, now>>

\* passkey_register up to the verification: the challenge must be pending.
Register(c) ==
  /\ calls[c].step = "new"
  /\ \E r \in created :
       /\ r.challenge \in Swept /\ r.host \in Allowed
       /\ calls' = [calls EXCEPT ![c] = [step |-> "registering", response |-> r]]
       /\ raced' = (raced \/ \E d \in Running("registering") :
                              calls[d].response.challenge = r.challenge)
  /\ pendingReg' = Keep(Swept)
  /\ UNCHANGED <<passkeys, created, asserted, count, now>>

\* The response verified: the challenge is used up and the host's passkey replaced.
Enrol(c) ==
  /\ calls[c].step = "registering"
  /\ LET r == calls[c].response IN
       /\ pendingReg' = Keep(DOMAIN pendingReg \ {r.challenge})
       /\ passkeys' = [passkeys EXCEPT ![r.host] = [id |-> r.id, counter |-> 0, by |-> c]]
  /\ calls' = [calls EXCEPT ![c] = [step |-> "enrolled"]]
  /\ UNCHANGED <<created, asserted, count, raced, now>>

\* The user removes a host's passkey, or all of them.
Remove ==
  /\ \E hosts \in {Hosts} \cup {{h} : h \in Hosts} :
       passkeys' = [h \in Hosts |-> IF h \in hosts THEN None ELSE passkeys[h]]
  /\ UNCHANGED <<pendingReg, created, asserted, count, calls, raced, now>>

-----------------------------------------------------------------------------
(***************************************************************************)
(* Signing.                                                                *)
(***************************************************************************)
\* passkey_auth_options names the passkey of the page's host, and the user verifies on
\* the authenticator: an assertion over the terms that the sheet shows.
UserAsserts(h, terms) ==
  /\ passkeys[h] # None
  /\ LET k == passkeys[h].id
         n == IF k \in Counting THEN count[k] + 1 ELSE 0 IN
       /\ n <= MaxCounter
       /\ asserted' = asserted \cup {[id |-> k, host |-> h, terms |-> terms, counter |-> n]}
       /\ count' = [count EXCEPT ![k] = n]
  /\ UNCHANGED <<passkeys, pendingReg, created, calls, raced, now>>

\* The gate of sign_mandate: user verification, as soon as any host has a passkey.
Gated == \E h \in Hosts : passkeys[h] # None

SignUngated(c, terms) ==
  /\ calls[c].step = "new" /\ ~Gated
  /\ calls' = [calls EXCEPT ![c] = [step |-> "signed", terms |-> terms, by |-> None]]
  /\ UNCHANGED <<passkeys, pendingReg, created, asserted, count, raced, now>>

\* verifyAuthenticationResponse, with the passkey as it was read: over this checkout's
\* challenge, by this credential, and with a counter that grew unless both are zero.
Verifies(a, pk, terms) ==
  /\ a.terms = terms
  /\ a.id = pk.id
  /\ a.counter > pk.counter \/ (a.counter = 0 /\ pk.counter = 0)

\* verifyCheckoutAssertion up to the verification; it looks up the signed host exactly.
SignGated(c, terms) ==
  /\ calls[c].step = "new" /\ Gated
  /\ \E a \in asserted :
       /\ a.host \in Allowed /\ passkeys[a.host] # None
       /\ Verifies(a, passkeys[a.host], terms)
       /\ calls' = [calls EXCEPT ![c] =
            [step |-> "verifying", terms |-> terms, by |-> a, read |-> passkeys[a.host]]]
       /\ raced' = (raced \/ \E d \in Running("verifying") :
                              calls[d].read.by = passkeys[a.host].by)
  /\ pendingReg' = Keep(Swept)
  /\ UNCHANGED <<passkeys, created, asserted, count, now>>

\* Mutant of Counted: the counter of the passkey stays.
CountedNever(pk, a) == pk

Counted(pk, a) == [pk EXCEPT !.counter = a.counter]

\* The assertion verified: the counter goes into the passkey that was read, which may not
\* be the host's any more, and the mandate is issued.
Issue(c) ==
  /\ calls[c].step = "verifying"
  /\ LET a    == calls[c].by
         pk   == passkeys[a.host]
         same == pk # None /\ pk.by = calls[c].read.by IN
       /\ passkeys' = IF same THEN [passkeys EXCEPT ![a.host] = Counted(pk, a)] ELSE passkeys
       /\ calls' = [calls EXCEPT ![c] = [step |-> "signed", terms |-> calls[c].terms, by |-> a]]
  /\ UNCHANGED <<pendingReg, created, asserted, count, raced, now>>

Tick ==
  /\ now < MaxTime
  /\ now' = now + 1
  /\ UNCHANGED <<passkeys, pendingReg, created, asserted, count, calls, raced>>

Next ==
  \/ RegisterOptions \/ Remove \/ Tick
  \/ \E h \in Hosts : CreateCredential(h) \/ \E terms \in Contents : UserAsserts(h, terms)
  \/ \E c \in Ceremonies :
       \/ Register(c) \/ Enrol(c) \/ Issue(c)
       \/ \E terms \in Contents : SignUngated(c, terms) \/ SignGated(c, terms)

Spec == Init /\ [][Next]_vars

-----------------------------------------------------------------------------
(***************************************************************************)
(* Properties.                                                             *)
(***************************************************************************)
SignedBy(a) == {c \in Ceremonies : calls[c].step = "signed" /\ calls[c].by = a}

\* A gated mandate rests on the user's assertion over its very terms, on an allowed host.
\* An assertion of an authenticator that counts signs one mandate, however often it is
\* sent and whatever is enrolled or removed meanwhile, unless two ceremonies raced: the
\* counter, or the challenge, is read before the verification and written after it.
AssertionsSignOnce ==
  \A c \in Ceremonies : calls[c].step = "signed" /\ calls[c].by # None =>
    LET a == calls[c].by IN
      /\ a \in asserted /\ a.terms = calls[c].terms /\ a.host \in Allowed
      /\ a.id \in Counting /\ ~raced => SignedBy(a) = {c}
=============================================================================
