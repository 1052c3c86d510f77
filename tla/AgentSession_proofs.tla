------------------------- MODULE AgentSession_proofs -------------------------
(***************************************************************************)
(* The autonomy gate of the shopping agent, the pair of open mandates its  *)
(* orders ride, its copy of the checkout and what an autonomous run pays   *)
(* for, for every set of handlers, merchants, prices and bounds.           *)
(***************************************************************************)
EXTENDS AgentSession, SequenceTheorems, TLAPS

-----------------------------------------------------------------------------
(***************************************************************************)
(* What a handler still has to run.                                        *)
(***************************************************************************)
Routine == {"intent", "authorize", "issue", "pick", "select", "create", "update", "hold", "prepare",
            "confirm", "gate", "ask", "sign", "sign_as_agent", "resolve"}

\* The agent signs right after the gate: before it there is the gate, or nothing
\* any more because the gate has let the handler pass.
Gated(todo) ==
  /\ todo \in Seq(Routine)
  /\ \A i \in 2..Len(todo) : todo[i] = "sign_as_agent" => todo[i - 1] = "gate"

\* The agent still has to pass the gate, or to sign.
Signer(todo) == \E i \in 1..Len(todo) : todo[i] \in {"gate", "sign_as_agent"}

SignsFirst(todo) == todo # <<>> /\ todo[1] = "sign_as_agent"

\* When a routine that is not the gate returns, what follows does not sign.
LEMMA GatedTail ==
  ASSUME NEW todo, Gated(todo), todo # <<>>
  PROVE  /\ Gated(Tail(todo))
         /\ todo[1] # "gate" => ~SignsFirst(Tail(todo))
  <1>1. /\ todo \in Seq(Routine) /\ Len(todo) \in Nat /\ Len(todo) # 0
        /\ Tail(todo) \in Seq(Routine) /\ Len(Tail(todo)) = Len(todo) - 1
        /\ \A i \in 1..Len(Tail(todo)) : Tail(todo)[i] = todo[i + 1]
    BY DEF Gated
  <1>2. ASSUME NEW i \in 2..Len(Tail(todo)), Tail(todo)[i] = "sign_as_agent"
        PROVE  Tail(todo)[i - 1] = "gate"
    <2>1. i + 1 \in 2..Len(todo) /\ todo[i + 1] = "sign_as_agent"
      BY <1>1, <1>2
    <2>2. todo[(i + 1) - 1] = "gate"
      BY <2>1 DEF Gated
    <2>3. i - 1 \in 1..Len(Tail(todo)) /\ (i + 1) - 1 = (i - 1) + 1
      BY <1>1
    <2>. QED BY <1>1, <2>2, <2>3
  <1>3. ASSUME SignsFirst(Tail(todo))
        PROVE  todo[1] = "gate"
    <2>1. Len(Tail(todo)) # 0 /\ Tail(todo)[1] = "sign_as_agent"
      BY <1>1, <1>3 DEF SignsFirst
    <2>2. 2 \in 2..Len(todo) /\ todo[2] = "sign_as_agent"
      BY <1>1, <2>1
    <2>. QED BY <2>2 DEF Gated
  <1>. QED BY <1>1, <1>2, <1>3 DEF Gated

\* A routine that does not sign may come before anything that does not sign first.
LEMMA GatedPrefix ==
  ASSUME NEW r \in Routine, NEW todo, Gated(todo), ~SignsFirst(todo)
  PROVE  /\ Gated(<<r>> \o todo) /\ (<<r>> \o todo)[1] = r /\ <<r>> \o todo # <<>>
         /\ Signer(<<r>> \o todo) => r \in {"gate", "sign_as_agent"} \/ Signer(todo)
  <1>. DEFINE more == <<r>> \o todo
  <1>1. /\ todo \in Seq(Routine) /\ Len(todo) \in Nat
        /\ more \in Seq(Routine) /\ Len(more) = Len(todo) + 1 /\ more[1] = r
        /\ \A i \in 2..Len(more) : more[i] = todo[i - 1]
    BY DEF Gated
  <1>. HIDE DEF more
  <1>2. ASSUME NEW i \in 2..Len(more), more[i] = "sign_as_agent"
        PROVE  more[i - 1] = "gate"
    <2>1. i - 1 # 1
      BY <1>1, <1>2 DEF SignsFirst
    <2>2. i - 1 \in 2..Len(todo) /\ i - 1 \in 2..Len(more)
      BY <1>1, <2>1
    <2>3. todo[(i - 1) - 1] = "gate"
      BY <1>1, <1>2, <2>2 DEF Gated
    <2>. QED BY <1>1, <2>2, <2>3
  <1>3. more # <<>>
    BY <1>1
  <1>4. ASSUME Signer(more), r \notin {"gate", "sign_as_agent"}
        PROVE  Signer(todo)
    <2>1. PICK i \in 1..Len(more) : more[i] \in {"gate", "sign_as_agent"}
      BY <1>4 DEF Signer
    <2>2. i - 1 \in 1..Len(todo) /\ more[i] = todo[i - 1]
      BY <1>1, <1>4, <2>1
    <2>. QED BY <2>1, <2>2 DEF Signer
  <1>. QED BY <1>1, <1>2, <1>3, <1>4 DEF Gated, more

\* What confirmAndPay goes on with when the agent signs.
LEMMA GatedSign ==
  ASSUME NEW todo, Gated(todo), ~SignsFirst(todo)
  PROVE  /\ Gated(<<"gate", "sign_as_agent">> \o todo)
         /\ (<<"gate", "sign_as_agent">> \o todo)[1] = "gate"
         /\ <<"gate", "sign_as_agent">> \o todo # <<>>
  <1>. DEFINE more == <<"gate", "sign_as_agent">> \o todo
  <1>1. /\ todo \in Seq(Routine) /\ Len(todo) \in Nat
        /\ more \in Seq(Routine) /\ Len(more) = Len(todo) + 2
        /\ more[1] = "gate" /\ more[2] = "sign_as_agent"
        /\ \A i \in 3..Len(more) : more[i] = todo[i - 2]
    <2>1. ASSUME NEW a \in Routine, NEW b \in Routine, NEW t \in Seq(Routine)
          PROVE  /\ <<a, b>> \o t \in Seq(Routine) /\ Len(<<a, b>> \o t) = Len(t) + 2
                 /\ (<<a, b>> \o t)[1] = a /\ (<<a, b>> \o t)[2] = b
                 /\ \A i \in 3..Len(<<a, b>> \o t) : (<<a, b>> \o t)[i] = t[i - 2]
      OBVIOUS
    <2>2. todo \in Seq(Routine) /\ Len(todo) \in Nat
      BY DEF Gated
    <2>3. "gate" \in Routine /\ "sign_as_agent" \in Routine
      BY DEF Routine
    <2>4. /\ more \in Seq(Routine) /\ Len(more) = Len(todo) + 2
          /\ more[1] = "gate" /\ more[2] = "sign_as_agent"
          /\ \A i \in 3..Len(more) : more[i] = todo[i - 2]
      BY <2>1, <2>2, <2>3
    <2>. QED BY <2>2, <2>4
  <1>. HIDE DEF more
  <1>2. ASSUME NEW i \in 2..Len(more), more[i] = "sign_as_agent"
        PROVE  more[i - 1] = "gate"
    <2>1. CASE i = 2
      BY <1>1, <2>1
    <2>2. CASE i # 2
      <3>1. i - 2 # 1 /\ i - 2 \in Nat
        BY <1>1, <1>2, <2>2 DEF SignsFirst
      <3>2. i - 2 \in 2..Len(todo) /\ i - 1 \in 3..Len(more)
        BY <1>1, <2>2, <3>1
      <3>3. todo[(i - 2) - 1] = "gate" /\ (i - 2) - 1 = (i - 1) - 2
        BY <1>1, <1>2, <2>2, <3>2 DEF Gated
      <3>. QED BY <1>1, <3>2, <3>3
    <2>. QED BY <2>1, <2>2
  <1>3. more # <<>>
    BY <1>1
  <1>. QED BY <1>1, <1>2, <1>3 DEF Gated, more

-----------------------------------------------------------------------------
(***************************************************************************)
(* The invariant.                                                          *)
(***************************************************************************)
CallFields == {"todo", "at", "cap", "hp", "merchants", "method", "instrument", "defer",
               "patch", "attested", "auto", "co", "since", "got"}
SessionFields == {"wish", "found", "sel", "co", "tok", "cm", "pm", "openC", "openP", "hp",
                  "order"}
CheckoutFields == {"m", "qty", "price", "extra", "st"}

CallOK(cl) ==
  /\ DOMAIN cl = CallFields
  /\ Gated(cl.todo)
  /\ (cl.todo # <<>> /\ cl.at \notin {"run", "policy", "approval"}) => cl.todo[1] # "gate"
  /\ Signer(cl.todo) => cl.co.id \in Ids /\ cl.since \in Nat \ {0}
  /\ cl.at \in {"checkout", "answer"} => cl.got.id \in Ids

\* What lets the agent sign: the user's approval, or a policy that was in force.
Cleared(co, window) ==
  \/ approvals[co.id] = "approved"
  \/ \E k \in window : ~Violates(policies[k], Total(co))

\* What the gate knows so far: the policy it was told was in force since the payment
\* began, an approval it was told stands, and who is about to sign has passed.
Backed(cl) ==
  Signer(cl.todo) =>
    /\ cl.since <= Len(policies)
    /\ cl.at = "policy" => \E k \in cl.since..Len(policies) : policies[k] = cl.got
    /\ (cl.at = "approval" /\ cl.got) => approvals[cl.co.id] = "approved"
    /\ SignsFirst(cl.todo) => Cleared(cl.co, cl.since..Len(policies))

CallsInv ==
  /\ DOMAIN call = Calls
  /\ \A c \in Calls : CallOK(call[c]) /\ Backed(call[c])

\* A payment mandate the agent signed is of a cleared checkout.
SignedOK(pm) ==
  \/ pm = None \/ pm.open = None
  \/ pm.signed.id \in Ids /\ pm.window \subseteq 1..Len(policies) /\ Cleared(pm.signed, pm.window)

SessionInv ==
  /\ DOMAIN s = SessionFields
  /\ s.co = None \/ s.co.id \in Ids
  /\ SignedOK(s.pm)

ServersInv ==
  /\ DOMAIN store = Ids /\ DOMAIN approvals = Ids
  /\ policies \in Seq(Policies) /\ policies # <<>>
  /\ \A id \in Ids : DOMAIN store[id] = CheckoutFields
  /\ \A o \in orders :
       o.id \in Ids /\ (o.pm.open # None => o.pm.window \subseteq 1..Len(policies))
  /\ AutonomyNeedsApproval

GateInv == CallsInv /\ SessionInv /\ ServersInv

\* An approval is never taken back, and the policies there were stay the ones there were.
Stays ==
  /\ \A id \in Ids : approvals[id] = "approved" => approvals'[id] = "approved"
  /\ policies' \in Seq(Policies) /\ policies' # <<>>
  /\ Len(policies) \in Nat \ {0} /\ Len(policies') \in Nat /\ Len(policies) <= Len(policies')
  /\ \A k \in 1..Len(policies) : policies'[k] = policies[k]

\* The same after the step.
ClearedThen(co, window) ==
  \/ approvals'[co.id] = "approved"
  \/ \E k \in window : ~Violates(policies'[k], Total(co))

BackedThen(cl) ==
  Signer(cl.todo) =>
    /\ cl.since <= Len(policies')
    /\ cl.at = "policy" => \E k \in cl.since..Len(policies') : policies'[k] = cl.got
    /\ (cl.at = "approval" /\ cl.got) => approvals'[cl.co.id] = "approved"
    /\ SignsFirst(cl.todo) => ClearedThen(cl.co, cl.since..Len(policies'))

SignedThen(pm) ==
  \/ pm = None \/ pm.open = None
  \/ pm.signed.id \in Ids /\ pm.window \subseteq 1..Len(policies')
     /\ ClearedThen(pm.signed, pm.window)

LEMMA ClearedStays ==
  ASSUME Stays, NEW co, co.id \in Ids, NEW window, window \subseteq 1..Len(policies),
         Cleared(co, window), NEW later, window \subseteq later
  PROVE  ClearedThen(co, later)
  BY DEF Stays, Cleared, ClearedThen

\* The routine that is first in line is one of the handler's.
LEMMA FirstSigns ==
  ASSUME NEW todo, Gated(todo), SignsFirst(todo) \/ (todo # <<>> /\ todo[1] = "gate")
  PROVE  Signer(todo)
  <1>1. todo \in Seq(Routine) /\ todo # <<>> /\ todo[1] \in {"gate", "sign_as_agent"}
    BY DEF Gated, SignsFirst
  <1>2. 1 \in 1..Len(todo)
    BY <1>1
  <1>. QED BY <1>1, <1>2 DEF Signer

\* What a handler knows survives a step, as long as it does not turn to the gate.
LEMMA BackedOn ==
  ASSUME Stays, NEW cl, CallOK(cl), Backed(cl), NEW cl2, cl2.since = cl.since,
         Signer(cl2.todo) => Signer(cl.todo),
         SignsFirst(cl2.todo) => SignsFirst(cl.todo) /\ cl2.co = cl.co,
         cl2.at \notin {"policy", "approval"}
  PROVE  BackedThen(cl2)
  <1>. SUFFICES ASSUME Signer(cl2.todo)
                PROVE  /\ cl2.since <= Len(policies')
                       /\ SignsFirst(cl2.todo) => ClearedThen(cl2.co, cl2.since..Len(policies'))
    BY DEF BackedThen
  <1>1. cl.since \in Nat \ {0} /\ cl.since <= Len(policies) /\ cl.co.id \in Ids
    BY DEF CallOK, Backed
  <1>2. /\ cl.since <= Len(policies') /\ cl.since..Len(policies) \subseteq 1..Len(policies)
        /\ cl.since..Len(policies) \subseteq cl.since..Len(policies')
    BY <1>1 DEF Stays
  <1>3. ASSUME SignsFirst(cl2.todo)
        PROVE  ClearedThen(cl2.co, cl2.since..Len(policies'))
    <2>1. Cleared(cl.co, cl.since..Len(policies)) /\ cl2.co = cl.co
      BY <1>3 DEF Backed
    <2>. QED BY <1>1, <1>2, <2>1, ClearedStays
  <1>. QED BY <1>2, <1>3

LEMMA BackedStays ==
  ASSUME Stays, NEW cl, CallOK(cl), Backed(cl)
  PROVE  BackedThen(cl)
  <1>. SUFFICES ASSUME Signer(cl.todo)
                PROVE  /\ cl.since <= Len(policies')
                       /\ cl.at = "policy" =>
                            \E k \in cl.since..Len(policies') : policies'[k] = cl.got
                       /\ (cl.at = "approval" /\ cl.got) => approvals'[cl.co.id] = "approved"
                       /\ SignsFirst(cl.todo) => ClearedThen(cl.co, cl.since..Len(policies'))
    BY DEF BackedThen
  <1>1. cl.since \in Nat \ {0} /\ cl.since <= Len(policies) /\ cl.co.id \in Ids
    BY DEF CallOK, Backed
  <1>2. /\ cl.since <= Len(policies') /\ cl.since..Len(policies) \subseteq 1..Len(policies)
        /\ cl.since..Len(policies) \subseteq cl.since..Len(policies')
    BY <1>1 DEF Stays
  <1>3. ASSUME cl.at = "policy"
        PROVE  \E k \in cl.since..Len(policies') : policies'[k] = cl.got
    <2>1. PICK k \in cl.since..Len(policies) : policies[k] = cl.got
      BY <1>3 DEF Backed
    <2>2. k \in cl.since..Len(policies') /\ policies'[k] = policies[k]
      BY <1>2, <2>1 DEF Stays
    <2>. QED BY <2>1, <2>2
  <1>4. SignsFirst(cl.todo) => ClearedThen(cl.co, cl.since..Len(policies'))
    BY <1>1, <1>2, ClearedStays DEF Backed
  <1>5. (cl.at = "approval" /\ cl.got) => approvals'[cl.co.id] = "approved"
    BY <1>1 DEF Backed, Stays
  <1>. QED BY <1>2, <1>3, <1>4, <1>5

LEMMA IdleOK == CallOK(Idle) /\ ~SignsFirst(Idle.todo) /\ ~Signer(Idle.todo)
  <1>1. Idle.todo = <<>> /\ Idle.at = "run" /\ DOMAIN Idle = CallFields
    BY DEF Idle, CallFields
  <1>2. <<>> \in Seq(Routine) /\ Len(<<>>) = 0
    OBVIOUS
  <1>3. Gated(<<>>) /\ ~Signer(<<>>)
    BY <1>2 DEF Gated, Signer
  <1>. QED BY <1>1, <1>3 DEF CallOK, SignsFirst

\* A handler that awaits something: its routines and its checkout stay.
LEMMA WaitOK ==
  ASSUME NEW cl, CallOK(cl), cl.todo # <<>>, cl.todo[1] # "gate",
         NEW cl2, DOMAIN cl2 = CallFields, cl2.todo = cl.todo, cl2.co = cl.co, cl2.since = cl.since,
         cl2.at \in {"checkout", "answer"} => cl2.got.id \in Ids
  PROVE  CallOK(cl2)
  BY DEF CallOK

\* A routine that returns.
LEMMA AfterOK ==
  ASSUME NEW cl, CallOK(cl), NEW todo, Gated(todo),
         Signer(todo) => cl.co.id \in Ids /\ cl.since \in Nat \ {0}
  PROVE  /\ CallOK(After(cl, todo)) /\ After(cl, todo).at = "run"
         /\ SignsFirst(After(cl, todo).todo) => SignsFirst(todo) /\ After(cl, todo).co = cl.co
         /\ Signer(After(cl, todo).todo) => Signer(todo) /\ After(cl, todo).since = cl.since
  <1>1. CASE todo = <<>>
    <2>1. After(cl, todo) = Idle /\ Idle.at = "run"
      BY <1>1 DEF After, Idle
    <2>. QED BY <2>1, IdleOK
  <1>2. CASE todo # <<>>
    <2>. DEFINE cl2 == [cl EXCEPT !.todo = todo, !.at = "run", !.got = None]
    <2>1. After(cl, todo) = cl2
      BY <1>2 DEF After
    <2>2. /\ DOMAIN cl2 = CallFields /\ cl2.todo = todo /\ cl2.at = "run" /\ cl2.co = cl.co
          /\ cl2.since = cl.since
      BY DEF CallOK, CallFields
    <2>. HIDE DEF cl2
    <2>3. CallOK(cl2)
      BY <2>2 DEF CallOK
    <2>. QED BY <2>1, <2>2, <2>3
  <1>. QED BY <1>1, <1>2

\* A handler that goes on without signing knows what it knew.
LEMMA AfterBacked ==
  ASSUME Stays, NEW cl, CallOK(cl), Backed(cl), NEW todo, Gated(todo),
         Signer(todo) => Signer(cl.todo), ~SignsFirst(todo)
  PROVE  CallOK(After(cl, todo)) /\ BackedThen(After(cl, todo))
  <1>. DEFINE cl2 == After(cl, todo)
  <1>1. Signer(todo) => cl.co.id \in Ids /\ cl.since \in Nat \ {0}
    BY DEF CallOK
  <1>2. /\ CallOK(cl2) /\ cl2.at = "run" /\ ~SignsFirst(cl2.todo)
        /\ Signer(cl2.todo) => Signer(todo) /\ cl2.since = cl.since
    BY <1>1, AfterOK
  <1>. HIDE DEF cl2
  <1>3. CASE Signer(cl2.todo)
    <2>1. cl2.at \notin {"policy", "approval"} /\ cl2.since = cl.since
      BY <1>2, <1>3
    <2>. QED BY <1>2, <2>1, BackedOn DEF cl2
  <1>4. CASE ~Signer(cl2.todo)
    BY <1>2, <1>4 DEF BackedThen, cl2
  <1>. QED BY <1>3, <1>4

\* The routines a handler has left after its first.
LEMMA RestOK ==
  ASSUME NEW cl, CallOK(cl), cl.todo # <<>>
  PROVE  /\ Gated(Tail(cl.todo)) /\ (Signer(Tail(cl.todo)) => Signer(cl.todo))
         /\ cl.todo[1] # "gate" => ~SignsFirst(Tail(cl.todo))
  <1>1. Gated(cl.todo)
    BY DEF CallOK
  <1>2. Gated(Tail(cl.todo)) /\ (cl.todo[1] # "gate" => ~SignsFirst(Tail(cl.todo)))
    BY <1>1, GatedTail
  <1>3. ASSUME Signer(Tail(cl.todo))
        PROVE  Signer(cl.todo)
    <2>1. /\ cl.todo \in Seq(Routine) /\ Len(cl.todo) \in Nat
          /\ Len(Tail(cl.todo)) = Len(cl.todo) - 1
          /\ \A i \in 1..Len(Tail(cl.todo)) : Tail(cl.todo)[i] = cl.todo[i + 1]
      BY <1>1 DEF Gated
    <2>2. PICK i \in 1..Len(Tail(cl.todo)) : Tail(cl.todo)[i] \in {"gate", "sign_as_agent"}
      BY <1>3 DEF Signer
    <2>3. i + 1 \in 1..Len(cl.todo) /\ cl.todo[i + 1] \in {"gate", "sign_as_agent"}
      BY <2>1, <2>2
    <2>. QED BY <2>3 DEF Signer
  <1>. QED BY <1>2, <1>3

LEMMA ReturnOK ==
  ASSUME Stays, NEW cl, CallOK(cl), Backed(cl), cl.todo # <<>>, cl.todo[1] # "gate"
  PROVE  CallOK(After(cl, Tail(cl.todo))) /\ BackedThen(After(cl, Tail(cl.todo)))
  BY RestOK, AfterBacked

-----------------------------------------------------------------------------
(***************************************************************************)
(* How steps keep the handlers, the session and the servers.               *)
(***************************************************************************)
\* What runs, or waits, is not at the gate.
LEMMA NotAtGate ==
  ASSUME CallsInv, NEW c \in Calls, NEW x,
         \/ Runs(c, x) /\ x # "gate"
         \/ Awaits(c, x) /\ x \notin {"run", "policy", "approval"}
  PROVE  /\ CallOK(call[c]) /\ call[c].todo # <<>> /\ call[c].todo[1] # "gate"
         /\ Backed(call[c])
  <1>1. CallOK(call[c]) /\ call[c].todo # <<>> /\ Backed(call[c])
    BY DEF CallsInv, Runs, Awaits, Busy
  <1>2. Head(call[c].todo) = call[c].todo[1]
    BY <1>1 DEF CallOK, Gated
  <1>. QED BY <1>1, <1>2 DEF Runs, Awaits, CallOK

LEMMA CallsStep ==
  ASSUME CallsInv, Stays, NEW c \in Calls, NEW cl, Becomes(c, cl), CallOK(cl), BackedThen(cl)
  PROVE  CallsInv'
  <1>1. DOMAIN call' = Calls /\ call'[c] = cl /\ \A d \in Calls : d # c => call'[d] = call[d]
    BY DEF Becomes, CallsInv
  <1>2. ASSUME NEW d \in Calls
        PROVE  CallOK(call'[d]) /\ BackedThen(call'[d])
    <2>1. CASE d = c
      BY <1>1, <2>1
    <2>2. CASE d # c
      BY <1>1, <2>2, BackedStays DEF CallsInv
    <2>. QED BY <2>1, <2>2
  <1>. QED BY <1>1, <1>2 DEF CallsInv, Backed, BackedThen, Cleared, ClearedThen

\* The handler goes on waiting, or starts to.
LEMMA Waits ==
  ASSUME CallsInv, Stays, NEW c \in Calls,
         CallOK(call[c]), call[c].todo # <<>>, call[c].todo[1] # "gate",
         NEW cl, Becomes(c, cl), DOMAIN cl = CallFields, cl.todo = call[c].todo,
         cl.co = call[c].co, cl.since = call[c].since, cl.at \notin {"policy", "approval"},
         cl.at \in {"checkout", "answer"} => cl.got.id \in Ids
  PROVE  CallsInv'
  <1>1. CallOK(cl)
    BY WaitOK
  <1>2. BackedThen(cl)
    BY BackedOn DEF CallsInv
  <1>. QED BY <1>1, <1>2, CallsStep

LEMMA Returns ==
  ASSUME CallsInv, Stays, NEW c \in Calls, Return(c),
         CallOK(call[c]), call[c].todo # <<>>, call[c].todo[1] # "gate"
  PROVE  CallsInv'
  BY ReturnOK, CallsStep DEF Return, CallsInv

LEMMA Throws ==
  ASSUME CallsInv, Stays, NEW c \in Calls, Throw(c)
  PROVE  CallsInv'
  BY IdleOK, CallsStep DEF Throw, BackedThen

\* An await that leaves the handler's other arguments alone.
LEMMA AwaitsNow ==
  ASSUME CallsInv, Stays, NEW c \in Calls,
         CallOK(call[c]), call[c].todo # <<>>, call[c].todo[1] # "gate",
         NEW at, NEW got, AwaitNow(c, at, got),
         at \notin {"policy", "approval"}, at \in {"checkout", "answer"} => got.id \in Ids
  PROVE  CallsInv'
  <1>. DEFINE cl == [call[c] EXCEPT !.at = at, !.got = got]
  <1>1. /\ DOMAIN cl = CallFields /\ cl.todo = call[c].todo /\ cl.co = call[c].co
        /\ cl.at = at /\ cl.got = got /\ cl.since = call[c].since
    BY DEF CallOK, CallFields
  <1>2. Becomes(c, cl)
    BY DEF AwaitNow
  <1>. HIDE DEF cl
  <1>. QED BY <1>1, <1>2, Waits

\* The session's checkout may be replaced by another; its payment mandate stays.
LEMMA SessionStep ==
  ASSUME SessionInv, Stays, DOMAIN s' = SessionFields, s'.pm = s.pm,
         s'.co = s.co \/ s'.co = None \/ s'.co.id \in Ids
  PROVE  SessionInv'
  <1>1. SignedThen(s'.pm)
    <2>1. CASE /\ s.pm.signed.id \in Ids /\ s.pm.window \subseteq 1..Len(policies)
               /\ Cleared(s.pm.signed, s.pm.window)
      <3>1. s.pm.window \subseteq 1..Len(policies')
        BY <2>1 DEF Stays
      <3>2. ClearedThen(s.pm.signed, s.pm.window)
        BY <2>1, ClearedStays
      <3>. QED BY <2>1, <3>1, <3>2 DEF SignedThen
    <2>. QED BY <2>1 DEF SessionInv, SignedOK, SignedThen
  <1>. QED BY <1>1 DEF SessionInv, SignedOK, SignedThen, Cleared, ClearedThen

LEMMA ServersStep ==
  ASSUME ServersInv, Stays, DOMAIN approvals' = Ids, orders' = orders,
         DOMAIN store' = Ids, \A id \in Ids : DOMAIN store'[id] = CheckoutFields
  PROVE  ServersInv'
  <1>1. ASSUME NEW o \in orders, o.pm.open # None
        PROVE  /\ o.pm.window \subseteq 1..Len(policies')
               /\ \/ approvals'[o.id] = "approved"
                  \/ \E k \in o.pm.window : ~Violates(policies'[k], o.total)
    <2>1. o.id \in Ids /\ o.pm.window \subseteq 1..Len(policies)
      BY <1>1 DEF ServersInv
    <2>2. \/ approvals[o.id] = "approved"
          \/ \E k \in o.pm.window : ~Violates(policies[k], o.total)
      BY <1>1 DEF ServersInv, AutonomyNeedsApproval
    <2>3. \A k \in o.pm.window : policies'[k] = policies[k]
      BY <2>1 DEF Stays
    <2>. QED BY <2>1, <2>2, <2>3 DEF Stays
  <1>2. policies' \in Seq(Policies) /\ policies' # <<>>
    BY DEF Stays
  <1>3. orders' = orders /\ \A o \in orders : o.id \in Ids
    BY DEF ServersInv
  <1>. QED BY <1>1, <1>2, <1>3 DEF ServersInv, AutonomyNeedsApproval

\* A step that leaves the servers alone.
LEMMA SameServers ==
  ASSUME ServersInv, UNCHANGED servers
  PROVE  ServersInv' /\ Stays
  <1>1. Stays
    BY DEF ServersInv, Stays, servers
  <1>. QED BY <1>1, ServersStep DEF ServersInv, servers

-----------------------------------------------------------------------------
(***************************************************************************)
(* The steps, one lemma for each part of the handler.                      *)
(***************************************************************************)
\* A step that leaves checkout, payment mandate and servers alone keeps the
\* invariant if it keeps the handlers'.
LEMMA PlainStep ==
  ASSUME GateInv, UNCHANGED servers, CallsInv', DOMAIN s' = SessionFields,
         s'.pm = s.pm, s'.co = s.co \/ s'.co = None \/ s'.co.id \in Ids
  PROVE  GateInv'
  BY SameServers, SessionStep DEF GateInv

LEMMA IntentSteps ==
  ASSUME GateInv, NEW c \in Calls, RunIntent(c) \/ Parsed(c)
  PROVE  GateInv'
  <1>0. Stays /\ CallsInv /\ DOMAIN s = SessionFields
    BY SameServers DEF GateInv, SessionInv, RunIntent, Parsed
  <1>1. CASE RunIntent(c)
    <2>1. CallOK(call[c]) /\ call[c].todo # <<>> /\ call[c].todo[1] # "gate"
      BY <1>0, <1>1, NotAtGate DEF RunIntent
    <2>2. CallsInv'
      BY <1>0, <1>1, <2>1, AwaitsNow DEF RunIntent
    <2>3. DOMAIN s' = SessionFields /\ s'.pm = s.pm /\ s'.co = s.co
      BY <1>0, <1>1 DEF RunIntent, SessionFields
    <2>. QED BY <1>1, <2>2, <2>3, PlainStep DEF RunIntent
  <1>2. CASE Parsed(c)
    <2>1. CallOK(call[c]) /\ call[c].todo # <<>> /\ call[c].todo[1] # "gate"
      BY <1>0, <1>2, NotAtGate DEF Parsed
    <2>2. CallsInv'
      BY <1>0, <1>2, <2>1, AwaitsNow DEF Parsed
    <2>3. DOMAIN s' = SessionFields /\ s'.pm = s.pm /\ s'.co = s.co
      BY <1>0, <1>2 DEF Parsed, SessionFields
    <2>. QED BY <1>2, <2>2, <2>3, PlainStep DEF Parsed
  <1>. QED BY <1>1, <1>2

\* The search ends, and an autonomous session signs its open mandates next.
LEMMA FoundStep ==
  ASSUME GateInv, NEW c \in Calls, Found(c)
  PROVE  GateInv'
  <1>0. Stays /\ CallsInv /\ DOMAIN s = SessionFields
    BY SameServers DEF GateInv, SessionInv, Found
  <1>. DEFINE rest == Tail(call[c].todo)
              issue == IF ~s.hp /\ ~call[c].defer THEN <<"issue">> ELSE <<>>
  <1>1. CallOK(call[c]) /\ call[c].todo # <<>> /\ call[c].todo[1] # "gate" /\ Backed(call[c])
    BY <1>0, NotAtGate DEF Found
  <1>2. Gated(rest) /\ (Signer(rest) => Signer(call[c].todo)) /\ ~SignsFirst(rest)
    BY <1>1, RestOK
  <1>3. /\ Gated(issue \o rest) /\ ~SignsFirst(issue \o rest)
        /\ Signer(issue \o rest) => Signer(call[c].todo)
    <2>1. CASE issue = <<>>
      <3>. HIDE DEF issue, rest
      <3>1. issue \o rest = rest
        BY <1>2, <2>1, ConcatEmptySeq DEF Gated
      <3>. QED BY <1>2, <3>1
    <2>2. CASE issue = <<"issue">>
      <3>. HIDE DEF issue, rest
      <3>1. /\ Gated(<<"issue">> \o rest) /\ (<<"issue">> \o rest)[1] = "issue"
            /\ Signer(<<"issue">> \o rest) => Signer(rest)
        BY <1>2, GatedPrefix DEF Routine
      <3>. QED BY <1>2, <2>2, <3>1 DEF SignsFirst
    <2>. QED BY <2>1, <2>2
  <1>4. Becomes(c, After(call[c], issue \o rest))
    BY DEF Found
  <1>. HIDE DEF issue, rest
  <1>5. CallOK(After(call[c], issue \o rest)) /\ BackedThen(After(call[c], issue \o rest))
    BY <1>0, <1>1, <1>3, AfterBacked
  <1>6. CallsInv'
    BY <1>0, <1>4, <1>5, CallsStep
  <1>7. DOMAIN s' = SessionFields /\ s'.pm = s.pm /\ s'.co = s.co
    BY <1>0 DEF Found, SessionFields
  <1>. QED BY <1>6, <1>7, PlainStep DEF Found

\* The user's choice of merchants and method reaches the handler that is authorized.
LEMMA AuthorizeSteps ==
  ASSUME GateInv, NEW c \in Calls, Authorize(c) \/ Listed(c)
  PROVE  GateInv'
  <1>0. Stays /\ CallsInv /\ DOMAIN s = SessionFields /\ UNCHANGED servers
    BY SameServers DEF GateInv, SessionInv, Authorize, Listed
  <1>1. CallOK(call[c]) /\ call[c].todo # <<>> /\ call[c].todo[1] # "gate"
    BY <1>0, NotAtGate DEF Authorize, Listed
  <1>2. CASE Authorize(c)
    <2>1. ASSUME NEW ms, Becomes(c, [call[c] EXCEPT !.at = "listed", !.merchants = ms])
          PROVE  CallsInv'
      <3>. DEFINE cl == [call[c] EXCEPT !.at = "listed", !.merchants = ms]
      <3>1. /\ DOMAIN cl = CallFields /\ cl.todo = call[c].todo /\ cl.co = call[c].co
            /\ cl.at = "listed" /\ cl.since = call[c].since /\ Becomes(c, cl)
        BY <1>1, <2>1 DEF CallOK, CallFields
      <3>. HIDE DEF cl
      <3>. QED BY <1>0, <1>1, <3>1, Waits
    <2>2. CallsInv'
      BY <1>2, <2>1 DEF Authorize
    <2>3. DOMAIN s' = SessionFields /\ s'.pm = s.pm /\ s'.co = s.co
      BY <1>0, <1>2 DEF Authorize, SessionFields
    <2>. QED BY <1>0, <2>2, <2>3, PlainStep
  <1>3. CASE Listed(c)
    <2>1. CallsInv'
      BY <1>0, <1>1, <1>3, Returns DEF Listed
    <2>. QED BY <1>0, <1>3, <2>1, PlainStep DEF Listed
  <1>. QED BY <1>2, <1>3

LEMMA IssueSteps ==
  ASSUME GateInv, NEW c \in Calls, IssueOpenMandates(c) \/ OpenCheckout(c) \/ OpenPayment(c)
  PROVE  GateInv'
  <1>0. Stays /\ CallsInv /\ DOMAIN s = SessionFields
    BY DEF GateInv, SessionInv, ServersInv, Stays, servers, IssueOpenMandates, OpenCheckout,
           OpenPayment
  <1>1. CASE IssueOpenMandates(c)
    <2>1. CallOK(call[c]) /\ call[c].todo # <<>> /\ call[c].todo[1] # "gate"
      BY <1>0, <1>1, NotAtGate DEF IssueOpenMandates
    <2>2. CallsInv'
      <3>1. ASSUME NEW cap, NEW got,
                   Becomes(c, [call[c] EXCEPT !.at = "open_checkout", !.cap = cap, !.got = got])
            PROVE  CallsInv'
        <4>. DEFINE cl == [call[c] EXCEPT !.at = "open_checkout", !.cap = cap, !.got = got]
        <4>1. /\ DOMAIN cl = CallFields /\ cl.todo = call[c].todo /\ cl.co = call[c].co
              /\ cl.at = "open_checkout" /\ cl.since = call[c].since
          BY <2>1 DEF CallOK, CallFields
        <4>2. Becomes(c, cl)
          BY <3>1
        <4>. HIDE DEF cl
        <4>. QED BY <1>0, <2>1, <4>1, <4>2, Waits
      <3>. QED BY <1>0, <1>1, <3>1, Throws DEF IssueOpenMandates
    <2>3. /\ s' = s /\ store' = store /\ approvals' = approvals /\ orders' = orders
          /\ policies' = policies
      BY <1>1 DEF IssueOpenMandates
    <2>4. SessionInv'
      BY <1>0, <2>3, SessionStep DEF GateInv, SessionInv
    <2>5. ServersInv'
      BY <1>0, <2>3, ServersStep DEF GateInv, ServersInv
    <2>. QED BY <2>2, <2>4, <2>5 DEF GateInv
  <1>2. CASE OpenCheckout(c)
    <2>1. CallOK(call[c]) /\ call[c].todo # <<>> /\ call[c].todo[1] # "gate"
      BY <1>0, <1>2, NotAtGate DEF OpenCheckout
    <2>. DEFINE cl == [call[c] EXCEPT !.at = "open_payment"]
    <2>2. /\ DOMAIN cl = CallFields /\ cl.todo = call[c].todo /\ cl.co = call[c].co
          /\ cl.at = "open_payment" /\ cl.since = call[c].since
      BY <2>1 DEF CallOK, CallFields
    <2>3. Throw(c) \/ Becomes(c, cl)
      BY <1>2 DEF OpenCheckout
    <2>. HIDE DEF cl
    <2>5. CallsInv'
      BY <1>0, <2>1, <2>2, <2>3, Waits, Throws
    <2>4. DOMAIN s' = SessionFields /\ s'.pm = s.pm /\ s'.co = s.co
      BY <1>0, <1>2 DEF OpenCheckout, SessionFields
    <2>. QED BY <1>2, <2>4, <2>5, PlainStep DEF OpenCheckout
  <1>3. CASE OpenPayment(c)
    <2>1. CallOK(call[c]) /\ call[c].todo # <<>> /\ call[c].todo[1] # "gate"
      BY <1>0, <1>3, NotAtGate DEF OpenPayment
    <2>2. CallsInv'
      BY <1>0, <1>3, <2>1, Returns DEF OpenPayment
    <2>3. DOMAIN s' = SessionFields /\ s'.pm = s.pm /\ s'.co = s.co
      BY <1>0, <1>3 DEF OpenPayment, SessionFields
    <2>. QED BY <1>3, <2>2, <2>3, PlainStep DEF OpenPayment
  <1>. QED BY <1>1, <1>2, <1>3

LEMMA SelectionSteps ==
  ASSUME GateInv, NEW c \in Calls,
         Pick(c) \/ Select(c) \/ Accessory(c) \/ Hold(c) \/ TakeCopy(c)
  PROVE  GateInv'
  <1>0. Stays /\ CallsInv /\ DOMAIN s = SessionFields /\ UNCHANGED servers
    BY SameServers DEF GateInv, SessionInv, Pick, Select, Accessory, Hold, TakeCopy
  <1>1. CallOK(call[c]) /\ call[c].todo # <<>> /\ call[c].todo[1] # "gate"
    BY <1>0, NotAtGate DEF Pick, Select, Accessory, Hold, TakeCopy
  <1>2. CASE Pick(c)
    <2>1. ASSUME NEW cap, Becomes(c, [call[c] EXCEPT !.at = "accessory", !.cap = cap])
          PROVE  CallsInv'
      <3>. DEFINE cl == [call[c] EXCEPT !.at = "accessory", !.cap = cap]
      <3>1. /\ DOMAIN cl = CallFields /\ cl.todo = call[c].todo /\ cl.co = call[c].co
            /\ cl.at = "accessory" /\ cl.since = call[c].since /\ Becomes(c, cl)
        BY <1>1, <2>1 DEF CallOK, CallFields
      <3>. HIDE DEF cl
      <3>. QED BY <1>0, <1>1, <3>1, Waits
    <2>2. CallsInv'
      BY <1>0, <1>2, <2>1, Throws DEF Pick
    <2>3. DOMAIN s' = SessionFields /\ s'.pm = s.pm /\ s'.co = s.co
      BY <1>0, <1>2 DEF Pick, SessionFields
    <2>. QED BY <1>0, <2>2, <2>3, PlainStep
  <1>3. CASE Select(c)
    <2>1. CallsInv'
      BY <1>0, <1>1, <1>3, AwaitsNow DEF Select
    <2>2. DOMAIN s' = SessionFields /\ s'.pm = s.pm /\ s'.co = s.co
      BY <1>0, <1>3 DEF Select, SessionFields
    <2>. QED BY <1>0, <2>1, <2>2, PlainStep
  <1>4. CASE Accessory(c) \/ Hold(c)
    <2>1. CallsInv'
      BY <1>0, <1>1, <1>4, Returns, Throws DEF Accessory, Hold
    <2>. QED BY <1>0, <1>4, <2>1, PlainStep DEF Accessory, Hold
  <1>5. CASE TakeCopy(c)
    <2>1. CallsInv' /\ call[c].got.id \in Ids
      BY <1>0, <1>1, <1>5, Returns DEF TakeCopy, Awaits, CallOK
    <2>2. DOMAIN s' = SessionFields /\ s'.pm = s.pm /\ s'.co = call[c].got
      BY <1>0, <1>5 DEF TakeCopy, SessionFields
    <2>. QED BY <1>0, <2>1, <2>2, PlainStep
  <1>. QED BY <1>2, <1>3, <1>4, <1>5

\* The merchant opens or updates a checkout, and its answer names it.
LEMMA CheckoutSteps ==
  ASSUME GateInv, NEW c \in Calls, Create(c) \/ Update(c)
  PROVE  GateInv'
  <1>0. /\ Stays /\ CallsInv /\ SessionInv /\ ServersInv /\ s' = s
        /\ approvals' = approvals /\ orders' = orders
    BY DEF GateInv, ServersInv, Stays, Create, Update
  <1>1. CallOK(call[c]) /\ call[c].todo # <<>> /\ call[c].todo[1] # "gate"
    BY <1>0, NotAtGate DEF Create, Update
  <1>2. SessionInv'
    BY <1>0, SessionStep DEF SessionInv
  <1>3. ASSUME NEW id \in Ids, NEW co, DOMAIN co = CheckoutFields,
               store' = [store EXCEPT ![id] = co], AwaitNow(c, "checkout", Copy(id, co))
        PROVE  GateInv'
    <2>1. CallsInv'
      <3>. DEFINE copy == Copy(id, co)
      <3>1. copy.id \in Ids
        BY DEF Copy
      <3>. HIDE DEF copy
      <3>. QED BY <1>0, <1>1, <1>3, <3>1, AwaitsNow DEF copy
    <2>2. DOMAIN store' = Ids /\ \A k \in Ids : DOMAIN store'[k] = CheckoutFields
      BY <1>0, <1>3 DEF ServersInv
    <2>3. ServersInv'
      BY <1>0, <2>2, ServersStep DEF ServersInv
    <2>. QED BY <1>2, <2>1, <2>3 DEF GateInv
  <1>4. ASSUME store' = store, Throw(c)
        PROVE  GateInv'
    BY <1>0, <1>2, <1>4, Throws, ServersStep DEF GateInv, ServersInv
  <1>5. CASE Create(c)
    <2>1. ASSUME NEW m, NEW q, NEW p
          PROVE  DOMAIN [m |-> m, qty |-> q, price |-> p, extra |-> 0, st |-> "open"]
                   = CheckoutFields
      BY DEF CheckoutFields
    <2>2. \/ store' = store /\ Throw(c)
          \/ \E id \in Ids : \E co :
             /\ DOMAIN co = CheckoutFields
             /\ store' = [store EXCEPT ![id] = co]
             /\ AwaitNow(c, "checkout", Copy(id, co))
      BY <1>5, <2>1 DEF Create
    <2>. QED BY <1>3, <1>4, <2>2
  <1>6. CASE Update(c)
    <2>1. ASSUME s.co # None
          PROVE  s.co.id \in Ids /\ DOMAIN Patched(s.co, call[c].patch) = CheckoutFields
      <3>1. s.co.id \in Ids /\ DOMAIN store[s.co.id] = CheckoutFields
        BY <1>0, <2>1 DEF SessionInv, ServersInv
      <3>. QED BY <3>1 DEF Patched
    <2>. QED BY <1>3, <1>4, <1>6, <2>1 DEF Update
  <1>. QED BY <1>5, <1>6

LEMMA TokenSteps ==
  ASSUME GateInv, NEW c \in Calls,
         PreparePayment(c) \/ MintInstrument(c) \/ Minted(c) \/ Sign(c) \/ ResolveThreeDs(c)
  PROVE  GateInv'
  <1>0. Stays /\ CallsInv /\ DOMAIN s = SessionFields /\ UNCHANGED servers
    BY SameServers DEF GateInv, SessionInv, PreparePayment, MintInstrument, Minted, Sign,
                       ResolveThreeDs
  <1>1. CallOK(call[c]) /\ call[c].todo # <<>> /\ call[c].todo[1] # "gate"
    BY <1>0, NotAtGate DEF PreparePayment, MintInstrument, Minted, Sign, ResolveThreeDs
  <1>2. CallsInv'
    <2>1. CASE Minted(c)
      BY <1>0, <1>1, <2>1, Returns DEF Minted
    <2>2. ASSUME NEW at, NEW got, AwaitNow(c, at, got),
                 at \notin {"checkout", "answer", "policy", "approval"}
          PROVE  CallsInv'
      BY <1>0, <1>1, <2>2, AwaitsNow
    <2>3. CASE MintInstrument(c)
      <3>1. ASSUME NEW got, AwaitNow(c, "minted", got)
            PROVE  CallsInv'
        BY <2>2, <3>1
      <3>. QED BY <1>0, <2>3, <3>1, Throws DEF MintInstrument
    <2>. QED BY <1>0, <2>1, <2>2, <2>3, Throws DEF PreparePayment, Sign, ResolveThreeDs
  <1>3. DOMAIN s' = SessionFields /\ s'.pm = s.pm /\ s'.co = s.co
    BY <1>0 DEF PreparePayment, MintInstrument, Minted, Sign, ResolveThreeDs, SessionFields
  <1>. QED BY <1>0, <1>2, <1>3, PlainStep

\* confirmAndPay: with the agent as signer the gate comes before the signature, and
\* the checkout it is about is the session's.
LEMMA ConfirmStep ==
  ASSUME GateInv, NEW c \in Calls, ConfirmAndPay(c)
  PROVE  GateInv'
  <1>0. Stays /\ CallsInv /\ SessionInv /\ UNCHANGED servers
    BY SameServers DEF GateInv, ConfirmAndPay
  <1>1. CallOK(call[c]) /\ call[c].todo # <<>> /\ call[c].todo[1] # "gate"
    BY <1>0, NotAtGate DEF ConfirmAndPay
  <1>2. CASE s.co = None
    BY <1>0, <1>2, Throws, PlainStep DEF ConfirmAndPay, SessionInv
  <1>3. CASE s.co # None
    <2>. DEFINE rest == Tail(call[c].todo)
                late == ~call[c].hp /\ s.openC = None
                signs == IF call[c].hp THEN <<"sign">> ELSE <<"gate", "sign_as_agent">>
                issue == IF late THEN <<"issue">> ELSE <<>>
                todo == issue \o signs \o rest
                cl == [call[c] EXCEPT !.co = s.co, !.cap = s.wish, !.since = Len(policies),
                                       !.todo = todo]
    <2>1. Gated(rest) /\ ~SignsFirst(rest)
      BY <1>1, RestOK
    <2>2. s' = (IF late THEN [s EXCEPT !.hp = FALSE] ELSE s) /\ Becomes(c, cl)
      BY <1>3 DEF ConfirmAndPay
    <2>3. Gated(signs \o rest) /\ ~SignsFirst(signs \o rest)
      <3>1. CASE call[c].hp
        <4>. HIDE DEF rest
        <4>1. Gated(<<"sign">> \o rest) /\ (<<"sign">> \o rest)[1] = "sign"
          BY <2>1, GatedPrefix DEF Routine
        <4>. QED BY <3>1, <4>1 DEF SignsFirst
      <3>2. CASE ~call[c].hp
        <4>. HIDE DEF rest
        <4>1. /\ Gated(<<"gate", "sign_as_agent">> \o rest)
              /\ (<<"gate", "sign_as_agent">> \o rest)[1] = "gate"
          BY <2>1, GatedSign
        <4>. QED BY <3>2, <4>1 DEF SignsFirst
      <3>. QED BY <3>1, <3>2
    <2>4. signs \in Seq(Routine) /\ issue \in Seq(Routine) /\ rest \in Seq(Routine)
      <3>1. "sign" \in Routine /\ "gate" \in Routine /\ "sign_as_agent" \in Routine
            /\ "issue" \in Routine
        BY DEF Routine
      <3>2. \A x, y \in Routine : <<x>> \in Seq(Routine) /\ <<x, y>> \in Seq(Routine)
        OBVIOUS
      <3>3. <<>> \in Seq(Routine)
        OBVIOUS
      <3>. QED BY <2>1, <3>1, <3>2, <3>3 DEF Gated
    <2>. HIDE DEF signs, rest
    <2>5. todo = issue \o (signs \o rest)
      <3>. HIDE DEF issue
      <3>. QED BY <2>4, ConcatAssociative
    <2>6. Gated(todo) /\ ~SignsFirst(todo)
      <3>1. CASE late
        <4>. DEFINE more == signs \o rest
        <4>1. todo = <<"issue">> \o more
          BY <2>5, <3>1
        <4>. HIDE DEF more, todo
        <4>2. Gated(<<"issue">> \o more) /\ (<<"issue">> \o more)[1] = "issue"
          BY <2>3, GatedPrefix DEF Routine, more
        <4>. QED BY <4>1, <4>2 DEF SignsFirst
      <3>2. CASE ~late
        <4>1. issue = <<>>
          BY <3>2
        <4>2. signs \o rest \in Seq(Routine)
          BY <2>3 DEF Gated
        <4>. HIDE DEF issue
        <4>3. todo = signs \o rest
          BY <2>5, <4>1, <4>2, ConcatEmptySeq
        <4>. QED BY <2>3, <4>3
      <3>. QED BY <3>1, <3>2
    <2>. HIDE DEF todo
    <2>7. /\ DOMAIN cl = CallFields /\ cl.todo = todo /\ cl.co = s.co /\ cl.at = "run"
          /\ cl.since = Len(policies)
      BY <1>1 DEF CallOK, CallFields, ConfirmAndPay, Runs
    <2>8. s.co.id \in Ids /\ Len(policies) \in Nat \ {0} /\ Len(policies) <= Len(policies')
      BY <1>0, <1>3 DEF SessionInv, Stays
    <2>. HIDE DEF cl
    <2>9. CallOK(cl) /\ BackedThen(cl)
      BY <2>6, <2>7, <2>8 DEF CallOK, BackedThen
    <2>10. CallsInv'
      BY <1>0, <2>2, <2>9, CallsStep
    <2>11. DOMAIN s' = SessionFields /\ s'.pm = s.pm /\ s'.co = s.co
      BY <1>0, <2>2 DEF SessionInv, SessionFields
    <2>. QED BY <1>0, <2>10, <2>11, PlainStep
  <1>. QED BY <1>2, <1>3

\* The gate asks for the policy in force.
LEMMA GateStep ==
  ASSUME GateInv, NEW c \in Calls, Gate(c)
  PROVE  GateInv'
  <1>0. Stays /\ CallsInv /\ SessionInv /\ UNCHANGED servers /\ s' = s
    BY SameServers DEF GateInv, Gate
  <1>1. /\ CallOK(call[c]) /\ call[c].todo # <<>> /\ call[c].todo[1] = "gate"
        /\ Backed(call[c])
    BY <1>0 DEF CallsInv, CallOK, Gated, Gate, Runs, Busy
  <1>2. call[c].since \in Nat \ {0} /\ call[c].since <= Len(policies)
    BY <1>1, FirstSigns DEF CallOK, Backed
  <1>. DEFINE policy == policies[Len(policies)]
              cl == [call[c] EXCEPT !.at = "policy", !.got = policy]
  <1>3. /\ DOMAIN cl = CallFields /\ cl.todo = call[c].todo /\ cl.co = call[c].co
        /\ cl.at = "policy" /\ cl.got = policy /\ cl.since = call[c].since /\ Becomes(c, cl)
    BY <1>1 DEF CallOK, CallFields, Gate, AwaitNow
  <1>. HIDE DEF cl
  <1>4. CallOK(cl) /\ ~SignsFirst(cl.todo)
    BY <1>1, <1>3 DEF CallOK, SignsFirst
  <1>5. BackedThen(cl)
    <2>1. /\ Len(policies) \in cl.since..Len(policies')
          /\ policies'[Len(policies)] = policy /\ cl.since <= Len(policies')
      BY <1>0, <1>2, <1>3 DEF Stays
    <2>. QED BY <1>3, <1>4, <2>1 DEF BackedThen
  <1>6. CallsInv'
    BY <1>0, <1>3, <1>4, <1>5, CallsStep
  <1>. QED BY <1>0, <1>6, PlainStep DEF SessionInv

\* The handler goes on behind the gate, or wherever it was, once it knows that the
\* checkout is cleared.
LEMMA PassesOK ==
  ASSUME GateInv, Stays, NEW c \in Calls, Return(c), call[c].todo # <<>>,
         Signer(call[c].todo) =>
           Cleared(call[c].co, call[c].since..Len(policies))
  PROVE  CallsInv'
  <1>1. CallsInv /\ CallOK(call[c]) /\ Backed(call[c])
    BY DEF GateInv, CallsInv
  <1>. DEFINE rest == Tail(call[c].todo)
              cl == After(call[c], rest)
  <1>2. Gated(rest) /\ (Signer(rest) => Signer(call[c].todo))
    BY <1>1, RestOK
  <1>3. Signer(rest) => call[c].co.id \in Ids /\ call[c].since \in Nat \ {0}
    BY <1>1, <1>2 DEF CallOK
  <1>. HIDE DEF rest
  <1>4. /\ CallOK(cl) /\ cl.at = "run"
        /\ SignsFirst(cl.todo) => cl.co = call[c].co
        /\ Signer(cl.todo) => Signer(rest) /\ cl.since = call[c].since
    BY <1>1, <1>2, <1>3, AfterOK
  <1>5. Becomes(c, cl)
    BY DEF Return, rest
  <1>. HIDE DEF cl
  <1>6. ASSUME Signer(cl.todo)
        PROVE  /\ cl.since <= Len(policies')
               /\ SignsFirst(cl.todo) => ClearedThen(cl.co, cl.since..Len(policies'))
    <2>1. /\ call[c].since \in Nat \ {0} /\ call[c].since <= Len(policies)
          /\ call[c].co.id \in Ids /\ cl.since = call[c].since
          /\ Cleared(call[c].co, call[c].since..Len(policies))
      BY <1>1, <1>2, <1>3, <1>4, <1>6 DEF Backed
    <2>2. /\ cl.since <= Len(policies')
          /\ call[c].since..Len(policies) \subseteq 1..Len(policies)
          /\ call[c].since..Len(policies) \subseteq call[c].since..Len(policies')
      BY <2>1 DEF Stays
    <2>3. ClearedThen(call[c].co, call[c].since..Len(policies'))
      BY <2>1, <2>2, ClearedStays
    <2>. QED BY <1>4, <2>1, <2>2, <2>3
  <1>7. BackedThen(cl)
    BY <1>4, <1>6 DEF BackedThen
  <1>. QED BY <1>1, <1>4, <1>5, <1>7, CallsStep

\* The answers: the policy that was in force when it was asked for, and the approval.
LEMMA GateAnswers ==
  ASSUME GateInv, NEW c \in Calls, ReadPolicy(c) \/ ReadApproval(c)
  PROVE  GateInv'
  <1>0. Stays /\ CallsInv /\ SessionInv /\ UNCHANGED servers /\ s' = s
    BY SameServers DEF GateInv, ReadPolicy, ReadApproval
  <1>1. CallOK(call[c]) /\ Backed(call[c]) /\ call[c].todo # <<>>
    BY <1>0 DEF CallsInv, ReadPolicy, ReadApproval, Awaits, Busy
  <1>2. Signer(call[c].todo) => /\ call[c].since \in Nat \ {0} /\ call[c].co.id \in Ids
                                /\ call[c].since <= Len(policies)
    BY <1>1 DEF CallOK, Backed
  <1>3. CASE ReadApproval(c)
    <2>1. Signer(call[c].todo) => Cleared(call[c].co, call[c].since..Len(policies))
      BY <1>1, <1>3 DEF Backed, ReadApproval, Awaits, Cleared
    <2>2. CallsInv'
      BY <1>0, <1>1, <1>3, <2>1, PassesOK DEF ReadApproval
    <2>. QED BY <1>0, <2>2, PlainStep DEF SessionInv
  <1>4. CASE ReadPolicy(c) /\ ~Violates(call[c].got, Total(call[c].co))
    <2>1. Signer(call[c].todo) => Cleared(call[c].co, call[c].since..Len(policies))
      BY <1>1, <1>4 DEF Backed, ReadPolicy, Awaits, Cleared
    <2>2. CallsInv'
      BY <1>0, <1>1, <1>4, <2>1, PassesOK DEF ReadPolicy
    <2>. QED BY <1>0, <2>2, PlainStep DEF SessionInv
  <1>5. CASE ReadPolicy(c) /\ Violates(call[c].got, Total(call[c].co))
    <2>. DEFINE answer == Approved(call[c].co.id)
                cl == [call[c] EXCEPT !.at = "approval", !.got = answer]
    <2>1. /\ DOMAIN cl = CallFields /\ cl.todo = call[c].todo /\ cl.co = call[c].co
          /\ cl.at = "approval" /\ cl.got = answer /\ cl.since = call[c].since /\ Becomes(c, cl)
      BY <1>1, <1>5 DEF CallOK, CallFields, ReadPolicy, AwaitNow
    <2>2. answer => approvals[call[c].co.id] = "approved"
      BY DEF Approved
    <2>. HIDE DEF cl, answer
    <2>3. CallOK(cl)
      BY <1>1, <2>1 DEF CallOK
    <2>4. BackedThen(cl)
      <3>1. BackedThen(call[c])
        BY <1>0, <1>1, BackedStays
      <3>2. approvals' = approvals
        BY <1>0 DEF servers
      <3>. QED BY <2>1, <2>2, <3>1, <3>2 DEF BackedThen
    <2>5. CallsInv'
      BY <1>0, <2>1, <2>3, <2>4, CallsStep
    <2>. QED BY <1>0, <2>5, PlainStep DEF SessionInv
  <1>. QED BY <1>3, <1>4, <1>5

\* Approvals are asked for and answered, and none is taken back.
LEMMA ApprovalStep ==
  ASSUME GateInv, NEW c \in Calls, RequestApproval(c)
  PROVE  GateInv'
  <1>0. /\ CallsInv /\ SessionInv /\ ServersInv /\ s' = s /\ store' = store
        /\ orders' = orders /\ policies' = policies /\ Throw(c)
    BY DEF GateInv, RequestApproval
  <1>1. Stays /\ DOMAIN approvals' = Ids
    <2>1. DOMAIN approvals = Ids
      BY <1>0 DEF ServersInv
    <2>2. CASE s.co # None /\ approvals[s.co.id] = "none"
      <3>1. approvals' = [approvals EXCEPT ![s.co.id] = "asked"]
        BY <2>2 DEF RequestApproval
      <3>. QED BY <1>0, <2>1, <2>2, <3>1 DEF Stays, ServersInv
    <2>3. CASE ~(s.co # None /\ approvals[s.co.id] = "none")
      BY <1>0, <2>1, <2>3 DEF RequestApproval, Stays, ServersInv
    <2>. QED BY <2>2, <2>3
  <1>. QED BY <1>0, <1>1, Throws, SessionStep, ServersStep DEF GateInv, ServersInv, SessionInv

LEMMA DecideStep ==
  ASSUME GateInv, Decide \/ EditPolicy
  PROVE  GateInv'
  <1>0. /\ CallsInv /\ SessionInv /\ ServersInv /\ s' = s /\ store' = store
        /\ orders' = orders /\ call' = call
    BY DEF GateInv, Decide, EditPolicy
  <1>1. Stays /\ DOMAIN approvals' = Ids
    <2>1. CASE Decide
      BY <1>0, <2>1 DEF Decide, Stays, ServersInv
    <2>2. CASE EditPolicy
      <3>1. PICK policy \in Policies : policies' = Append(policies, policy)
        BY <2>2 DEF EditPolicy
      <3>2. policies \in Seq(Policies)
        BY <1>0 DEF ServersInv
      <3>3. /\ policies' \in Seq(Policies) /\ Len(policies') = Len(policies) + 1
            /\ \A k \in 1..Len(policies) : policies'[k] = policies[k]
        BY <3>1, <3>2
      <3>. QED BY <1>0, <2>2, <3>3 DEF EditPolicy, Stays, ServersInv
    <2>. QED BY <2>1, <2>2
  <1>2. CallsInv'
    <2>1. \A c \in Calls : CallOK(call[c]) /\ BackedThen(call[c])
      BY <1>0, <1>1, BackedStays DEF CallsInv
    <2>. QED BY <1>0, <2>1 DEF CallsInv, Backed, BackedThen, Cleared, ClearedThen
  <1>. QED BY <1>0, <1>1, <1>2, SessionStep, ServersStep DEF GateInv, ServersInv, SessionInv

\* complete_checkout accepts an agent-signed payment mandate only for the checkout it
\* names, at the total it was signed for: a cleared one.
LEMMA SubmitStep ==
  ASSUME GateInv, NEW c \in Calls, CallOK(call[c]), call[c].todo # <<>>,
         call[c].todo[1] # "gate", NEW now, NEW attested, Submit(c, now, attested),
         DOMAIN now = SessionFields, now.co = None \/ now.co.id \in Ids, SignedOK(now.pm)
  PROVE  GateInv'
  <1>0. /\ CallsInv /\ SessionInv /\ ServersInv /\ s' = now /\ approvals' = approvals
        /\ policies' = policies /\ Stays
    BY DEF GateInv, ServersInv, Submit, Stays
  <1>1. SessionInv'
    BY <1>0 DEF SessionInv, SignedOK, Cleared
  <1>2. CASE UNCHANGED <<store, orders>> /\ Throw(c)
    BY <1>0, <1>1, <1>2, Throws, ServersStep DEF GateInv, ServersInv
  <1>. DEFINE id == now.co.id
              live == store[id]
  <1>3. CASE now.co # None /\ Declined(c, id)
    <2>1. PICK st : store' = [store EXCEPT ![id].st = st]
      BY <1>3 DEF Declined
    <2>2. id \in Ids /\ DOMAIN live = CheckoutFields
      BY <1>0, <1>3 DEF ServersInv
    <2>3. DOMAIN store' = Ids /\ \A k \in Ids : DOMAIN store'[k] = CheckoutFields
      BY <1>0, <2>1, <2>2 DEF ServersInv
    <2>. QED BY <1>0, <1>1, <1>3, <2>3, Throws, ServersStep DEF GateInv, ServersInv, Declined
  <1>4. ASSUME now.co # None, now.pm # None, MerchantAccepts(id, now.cm),
               PspAccepts(id, now.cm, now.pm), NEW st,
               store' = [store EXCEPT ![id] = [live EXCEPT !.st = st]],
               orders' = orders \cup
                 (IF st = "escalated" THEN {}
                  ELSE {[id |-> id, total |-> Total([live EXCEPT !.st = st]),
                         cm |-> now.cm, pm |-> now.pm, method |-> now.tok.method]}),
               Becomes(c, [call[c] EXCEPT !.at = "answer", !.attested = attested,
                             !.got = Copy(id, [live EXCEPT !.st = st])])
        PROVE  GateInv'
    <2>. DEFINE answered == [live EXCEPT !.st = st]
                order == [id |-> id, total |-> Total(answered), cm |-> now.cm,
                          pm |-> now.pm, method |-> now.tok.method]
    <2>1. id \in Ids /\ DOMAIN live = CheckoutFields
      BY <1>0, <1>4 DEF ServersInv
    <2>2. /\ DOMAIN answered = CheckoutFields /\ answered.qty = live.qty
          /\ answered.price = live.price /\ answered.extra = live.extra
      BY <2>1 DEF CheckoutFields
    <2>3. Total(answered) = Total(live)
      BY <2>2 DEF Total
    <2>4. order.pm.open # None =>
            /\ order.pm.window \subseteq 1..Len(policies)
            /\ \/ approvals[order.id] = "approved"
               \/ \E k \in order.pm.window : ~Violates(policies[k], order.total)
      <3>1. /\ now.cm.signed.id = id /\ Total(now.cm.signed) = Total(live)
            /\ now.pm.signed = now.cm.signed
        BY <1>4 DEF MerchantAccepts, PspAccepts
      <3>2. order.total = Total(now.pm.signed) /\ order.id = now.pm.signed.id
        BY <2>3, <3>1
      <3>. QED BY <1>4, <3>2 DEF SignedOK, Cleared
    <2>5. orders' \subseteq orders \cup {order}
      BY <1>4
    <2>6. order.id \in Ids
      BY <2>1
    <2>7. DOMAIN store' = Ids /\ \A k \in Ids : DOMAIN store'[k] = CheckoutFields
      BY <1>0, <1>4, <2>1, <2>2 DEF ServersInv
    <2>. HIDE DEF order
    <2>8. ServersInv'
      BY <1>0, <2>4, <2>5, <2>6, <2>7 DEF ServersInv, AutonomyNeedsApproval
    <2>9. CallsInv'
      <3>. DEFINE copy == Copy(id, answered)
                  cl == [call[c] EXCEPT !.at = "answer", !.attested = attested, !.got = copy]
      <3>1. copy.id = id
        BY DEF Copy
      <3>. HIDE DEF copy
      <3>2. /\ DOMAIN cl = CallFields /\ cl.todo = call[c].todo /\ cl.co = call[c].co
            /\ cl.at = "answer" /\ cl.got = copy /\ cl.since = call[c].since
        BY DEF CallOK, CallFields
      <3>3. Becomes(c, cl)
        BY <1>4 DEF copy
      <3>. HIDE DEF cl
      <3>. QED BY <1>0, <2>1, <3>1, <3>2, <3>3, Waits
    <2>. QED BY <1>1, <2>8, <2>9 DEF GateInv
  <1>5. CASE now.co # None /\ now.pm # None /\ MerchantAccepts(id, now.cm)
             /\ Completed(c, id, attested)
    BY <1>0, <1>4, <1>5, Zenon DEF Completed
  <1>. QED BY <1>2, <1>3, <1>5 DEF Submit

\* The user signs: such a payment mandate is of no open one.
LEMMA UserSigns ==
  ASSUME GateInv, NEW c \in Calls, CheckoutMandate(c) \/ PaymentMandate(c)
  PROVE  GateInv'
  <1>0. CallsInv /\ SessionInv
    BY DEF GateInv
  <1>1. CallOK(call[c]) /\ call[c].todo # <<>> /\ call[c].todo[1] # "gate"
    BY <1>0, NotAtGate DEF CheckoutMandate, PaymentMandate
  <1>2. CASE CheckoutMandate(c)
    <2>1. Stays /\ UNCHANGED servers
      BY <1>2, SameServers DEF GateInv, CheckoutMandate
    <2>2. CallsInv'
      BY <1>0, <1>1, <1>2, <2>1, AwaitsNow, Throws DEF CheckoutMandate
    <2>3. DOMAIN s' = SessionFields /\ s'.pm = s.pm /\ s'.co = s.co
      BY <1>0, <1>2 DEF CheckoutMandate, SessionInv, SessionFields
    <2>. QED BY <2>1, <2>2, <2>3, PlainStep
  <1>3. CASE PaymentMandate(c)
    <2>. DEFINE now == [s EXCEPT !.pm = [signed |-> call[c].co, open |-> None, window |-> {}]]
    <2>1. /\ DOMAIN now = SessionFields /\ now.co = s.co /\ now.pm.open = None
          /\ Submit(c, now, FALSE)
      BY <1>0, <1>3 DEF PaymentMandate, SessionInv, SessionFields
    <2>. HIDE DEF now
    <2>. QED BY <1>0, <1>1, <2>1, SubmitStep DEF SessionInv, SignedOK
  <1>. QED BY <1>2, <1>3

\* The agent signs what the gate cleared.
LEMMA AgentSigns ==
  ASSUME GateInv, NEW c \in Calls, SignAsAgent(c)
  PROVE  GateInv'
  <1>0. CallsInv /\ SessionInv /\ ServersInv
    BY DEF GateInv
  <1>1. /\ CallOK(call[c]) /\ Backed(call[c]) /\ call[c].todo # <<>>
        /\ call[c].todo[1] = "sign_as_agent"
    BY <1>0 DEF CallsInv, CallOK, Gated, SignAsAgent, Runs, Busy
  <1>. DEFINE window == call[c].since..Len(policies)
  <1>2. Cleared(call[c].co, window) /\ call[c].co.id \in Ids /\ window \subseteq 1..Len(policies)
    <2>1. SignsFirst(call[c].todo) /\ Signer(call[c].todo)
      BY <1>1, FirstSigns DEF SignsFirst, CallOK
    <2>. QED BY <1>0, <1>1, <2>1 DEF Backed, CallOK, ServersInv
  <1>. HIDE DEF window
  <1>. DEFINE cm == [signed |-> call[c].co, open |-> s.openC]
              pm == [signed |-> call[c].co, open |-> s.openP, window |-> window]
  <1>3. CASE Throw(c) /\ UNCHANGED servers /\ s' \in {s, [s EXCEPT !.cm = cm]}
    <2>1. DOMAIN s' = SessionFields /\ s'.pm = s.pm /\ s'.co = s.co
      BY <1>0, <1>3 DEF SessionInv, SessionFields
    <2>2. Stays
      BY <1>3, SameServers DEF GateInv
    <2>3. CallsInv'
      BY <1>0, <1>3, <2>2, Throws
    <2>. QED BY <1>3, <2>1, <2>3, PlainStep
  <1>4. ASSUME Submit(c, [s EXCEPT !.cm = cm, !.pm = pm], FALSE)
        PROVE  GateInv'
    <2>. DEFINE now == [s EXCEPT !.cm = cm, !.pm = pm]
    <2>1. DOMAIN now = SessionFields /\ now.co = s.co /\ now.pm = pm
      BY <1>0 DEF SessionInv, SessionFields
    <2>2. Submit(c, now, FALSE)
      BY <1>4
    <2>3. SignedOK(pm)
      BY <1>2 DEF SignedOK
    <2>. HIDE DEF now, pm
    <2>. QED BY <1>0, <1>1, <2>1, <2>2, <2>3, SubmitStep DEF SessionInv
  <1>. QED BY <1>3, <1>4 DEF SignAsAgent, window

LEMMA AnswerSteps ==
  ASSUME GateInv, NEW c \in Calls, Answer(c) \/ Retry(c)
  PROVE  GateInv'
  <1>0. CallsInv /\ SessionInv
    BY DEF GateInv
  <1>1. CallOK(call[c]) /\ call[c].todo # <<>> /\ call[c].todo[1] # "gate"
    BY <1>0, NotAtGate DEF Answer, Retry
  <1>2. CASE Answer(c)
    <2>1. Stays /\ UNCHANGED servers
      BY <1>2, SameServers DEF GateInv, Answer
    <2>2. call[c].got.id \in Ids
      BY <1>1, <1>2 DEF Answer, Awaits, CallOK
    <2>3. CallsInv'
      <3>1. Return(c) \/ Throw(c) \/ AwaitNow(c, "challenge", None)
        BY <1>2 DEF Answer
      <3>. QED BY <1>0, <1>1, <2>1, <3>1, Returns, Throws, AwaitsNow
    <2>4. DOMAIN s' = SessionFields /\ s'.pm = s.pm /\ s'.co = call[c].got
      BY <1>0, <1>2 DEF Answer, SessionInv, SessionFields
    <2>. QED BY <2>1, <2>2, <2>3, <2>4, PlainStep
  <1>3. CASE Retry(c)
    BY <1>0, <1>1, <1>3, SubmitStep DEF Retry, SessionInv
  <1>. QED BY <1>2, <1>3

LEMMA FailStep ==
  ASSUME GateInv, NEW c \in Calls, Fail(c)
  PROVE  GateInv'
  BY SameServers, Throws, PlainStep DEF GateInv, Fail, SessionInv

\* No route starts at the gate or after it.
LEMMA RequestsOK ==
  ASSUME NEW cl \in Requests
  PROVE  CallOK(cl) /\ ~SignsFirst(cl.todo) /\ ~Signer(cl.todo) /\ cl.at = "run"
  <1>. DEFINE Calm(todo) == /\ todo \in Seq(Routine)
                            /\ \A i \in 1..Len(todo) : todo[i] \notin {"gate", "sign_as_agent"}
  <1>. DEFINE Single == {<<r>> : r \in Routine \ {"gate", "sign_as_agent"}}
              Begins(x) == /\ DOMAIN x = CallFields /\ x.at = "run"
                           /\ \/ x.todo \in Single
                              \/ x.todo \in {<<"intent">> \o Shopping,
                                              <<"authorize", "issue">> \o Shopping}
  <1>1. Begins(cl)
    <2>1. DOMAIN Idle = CallFields /\ Idle.at = "run"
      BY DEF Idle, CallFields
    <2>2. \A r \in {"intent", "select", "create", "ask", "resolve", "update", "prepare",
                    "confirm"} : <<r>> \in Single
      BY DEF Routine
    <2>. HIDE DEF Single
    <2>3. ASSUME NEW w, NEW hp
          PROVE  /\ Begins([Idle EXCEPT !.todo = <<"intent">>, !.cap = w])
                 /\ Begins([Idle EXCEPT !.todo = <<"intent">>, !.cap = w, !.hp = FALSE])
                 /\ Begins([Idle EXCEPT !.todo = <<"confirm">>, !.hp = hp])
                 /\ Begins([Idle EXCEPT !.todo = <<"intent">>, !.cap = w, !.hp = FALSE,
                                        !.defer = TRUE])
      BY <2>1, <2>2 DEF CallFields
    <2>4. ASSUME NEW w
          PROVE  Begins([Idle EXCEPT !.todo = <<"intent">> \o Shopping, !.cap = w, !.hp = FALSE,
                                     !.auto = TRUE])
      BY <2>1 DEF CallFields
    <2>5. ASSUME NEW ms, NEW m, NEW i
          PROVE  Begins([Idle EXCEPT !.todo = <<"authorize", "issue">> \o Shopping, !.hp = FALSE,
                                     !.auto = TRUE, !.merchants = ms, !.method = m,
                                     !.instrument = i])
      BY <2>1 DEF CallFields
    <2>6. ASSUME NEW x
          PROVE  /\ Begins([Idle EXCEPT !.todo = <<"select">>, !.merchants = x])
                 /\ Begins([Idle EXCEPT !.todo = <<"update">>, !.patch = x])
                 /\ Begins([Idle EXCEPT !.todo = <<"prepare">>, !.method = x])
      BY <2>1, <2>2 DEF CallFields
    <2>7. ASSUME NEW r \in {"create", "ask", "resolve"}
          PROVE  Begins([Idle EXCEPT !.todo = <<r>>])
      BY <2>1, <2>2 DEF CallFields
    <2>. HIDE DEF Begins
    <2>8. CASE cl \in IntentRequests
      <3>1. \E w \in Wishes :
              \/ cl = [Idle EXCEPT !.todo = <<"intent">>, !.cap = w]
              \/ cl = [Idle EXCEPT !.todo = <<"intent">>, !.cap = w, !.hp = FALSE]
              \/ cl = [Idle EXCEPT !.todo = <<"intent">>, !.cap = w, !.hp = FALSE, !.defer = TRUE]
              \/ cl = [Idle EXCEPT !.todo = <<"intent">> \o Shopping, !.cap = w, !.hp = FALSE,
                                   !.auto = TRUE]
        BY <2>8, Zenon DEF IntentRequests
      <3>. QED BY <2>3, <2>4, <3>1, Zenon
    <2>9. CASE cl \in AuthorizeRequests
      <3>. DEFINE plan == <<"authorize", "issue">> \o Shopping
                  Asked(ms, m) == [Idle EXCEPT !.todo = plan, !.hp = FALSE, !.auto = TRUE,
                                     !.merchants = ms, !.method = m,
                                     !.instrument = IF m = None THEN Card ELSE m]
      <3>1. cl \in UNION {{Asked(ms, m) : m \in Choices} : ms \in SUBSET Merchants}
        BY <2>9 DEF AuthorizeRequests
      <3>2. \A ms, m : Begins(Asked(ms, m))
        BY <2>5
      <3>. HIDE DEF Asked
      <3>. QED BY <3>1, <3>2
    <2>10. CASE cl \in CheckoutRequests
      BY <2>6, <2>7, <2>10, Zenon DEF CheckoutRequests
    <2>11. CASE cl \in PaymentRequests
      BY <2>3, <2>6, <2>11, Zenon DEF PaymentRequests
    <2>. QED BY <2>8, <2>9, <2>10, <2>11 DEF Requests
  <1>2. \A r \in Routine \ {"gate", "sign_as_agent"} : Calm(<<r>>)
    OBVIOUS
  <1>3. Calm(<<"intent">> \o Shopping) /\ Calm(<<"authorize", "issue">> \o Shopping)
    <2>1. ASSUME NEW todo \in Seq(Routine \ {"gate", "sign_as_agent"})
          PROVE  Calm(todo)
      <3>1. /\ todo \in Seq(Routine)
            /\ \A i \in 1..Len(todo) : todo[i] \in Routine \ {"gate", "sign_as_agent"}
        OBVIOUS
      <3>. QED BY <3>1
    <2>2. /\ <<"intent">> \in Seq(Routine \ {"gate", "sign_as_agent"})
          /\ <<"authorize", "issue">> \in Seq(Routine \ {"gate", "sign_as_agent"})
          /\ Shopping \in Seq(Routine \ {"gate", "sign_as_agent"})
      BY DEF Routine, Shopping
    <2>3. /\ <<"intent">> \o Shopping \in Seq(Routine \ {"gate", "sign_as_agent"})
          /\ <<"authorize", "issue">> \o Shopping \in Seq(Routine \ {"gate", "sign_as_agent"})
      BY <2>2
    <2>. HIDE DEF Calm
    <2>. QED BY <2>1, <2>3
  <1>4. Calm(cl.todo)
    <2>. HIDE DEF Calm
    <2>. QED BY <1>1, <1>2, <1>3
  <1>5. Gated(cl.todo) /\ ~Signer(cl.todo)
    BY <1>4 DEF Gated, Signer
  <1>6. cl.todo # <<>> => cl.todo[1] \notin {"gate", "sign_as_agent"}
    BY <1>4
  <1>. QED BY <1>1, <1>5, <1>6 DEF CallOK, SignsFirst

LEMMA StartStep ==
  ASSUME GateInv, NEW c \in Calls, Start(c)
  PROVE  GateInv'
  <1>1. Stays /\ CallsInv /\ UNCHANGED servers /\ s' = s /\ SessionInv
    BY SameServers DEF GateInv, Start
  <1>2. PICK cl \in Requests : Becomes(c, cl)
    BY DEF Start
  <1>3. CallsInv'
    BY <1>1, <1>2, RequestsOK, CallsStep DEF BackedThen
  <1>. QED BY <1>1, <1>3, PlainStep DEF SessionInv

LEMMA AtOnceStep ==
  ASSUME GateInv, AtOnce
  PROVE  GateInv'
  <1>1. Stays /\ CallsInv /\ UNCHANGED servers /\ call' = call /\ SessionInv
    BY SameServers DEF GateInv, AtOnce
  <1>2. DOMAIN s' = SessionFields /\ s'.pm = s.pm /\ s'.co = s.co
    BY <1>1 DEF AtOnce, SessionInv, SessionFields
  <1>3. CallsInv'
    BY <1>1 DEF CallsInv, Backed, Cleared, servers
  <1>. QED BY <1>1, <1>2, <1>3, PlainStep

-----------------------------------------------------------------------------
LEMMA InitGate == Init => GateInv
  <1>. SUFFICES ASSUME Init PROVE GateInv
    OBVIOUS
  <1>1. CallsInv
    BY IdleOK DEF Init, CallsInv, Backed
  <1>2. SessionInv
    BY DEF Init, SessionInv, SessionFields, SignedOK
  <1>3. ServersInv
    BY DEF Init, ServersInv, AutonomyNeedsApproval, NoCheckout, CheckoutFields
  <1>. QED BY <1>1, <1>2, <1>3 DEF GateInv

LEMMA NextGate ==
  ASSUME GateInv, [Next]_vars
  PROVE  GateInv'
  <1>1. CASE UNCHANGED vars
    BY <1>1 DEF vars, servers, GateInv, CallsInv, SessionInv, ServersInv, Backed, SignedOK,
                Cleared, AutonomyNeedsApproval
  <1>2. ASSUME NEW c \in Calls, Step(c)
        PROVE  GateInv'
    BY <1>2, IntentSteps, FoundStep, AuthorizeSteps, IssueSteps, SelectionSteps, CheckoutSteps,
       TokenSteps, ConfirmStep, GateStep, GateAnswers, ApprovalStep, UserSigns, AgentSigns,
       AnswerSteps DEF Step
  <1>. QED BY <1>1, <1>2, StartStep, FailStep, AtOnceStep, DecideStep DEF Next

\* However many handlers interleave, whatever they overwrite in the session, whatever
\* answers are lost and however often the user edits the policy while the agent waits, an
\* order under the agent's signature is of a checkout the user approved, or within a policy
\* that was in force between the start of its payment and the signature.
THEOREM AutonomyIsApproved == Spec => []AutonomyNeedsApproval
  <1>1. GateInv => AutonomyNeedsApproval
    BY DEF GateInv, ServersInv
  <1>. QED BY <1>1, InitGate, NextGate, PTL DEF Spec

-----------------------------------------------------------------------------
(***************************************************************************)
(* The pair of open mandates an order rides.  Whatever pair the session    *)
(* holds, its open payment mandate names some open checkout mandate, and   *)
(* complete_checkout compares the name when there are both.                *)
(***************************************************************************)
Opening == {"open_checkout", "open_payment"}

Names(open) == open = None \/ open.ref # None

GrantInv ==
  /\ grants \in Nat
  /\ \A c \in Calls : call[c].at \in Opening => call[c].got.grant # None
  /\ Names(s.openP)
  /\ s.pm = None \/ Names(s.pm.open)
  /\ PaidUnderOneGrant

\* The handler is not signing open mandates after the step.
Elsewhere(c) == \E cl : Becomes(c, cl) /\ cl.at \notin Opening

LEMMA MovesElsewhere ==
  ASSUME CallsInv, NEW c \in Calls
  PROVE  /\ Throw(c) \/ Return(c) => Elsewhere(c)
         /\ \A todo : Becomes(c, After(call[c], todo)) => Elsewhere(c)
         /\ \A at, got : AwaitNow(c, at, got) /\ at \notin Opening => Elsewhere(c)
  <1>1. DOMAIN call[c] = CallFields
    BY DEF CallsInv, CallOK
  <1>2. Idle.at = "run" /\ "run" \notin Opening
    BY DEF Idle, Opening
  <1>3. ASSUME NEW todo
        PROVE  After(call[c], todo).at = "run"
    BY <1>1, <1>2 DEF After, CallFields
  <1>4. ASSUME NEW at, NEW got
        PROVE  [call[c] EXCEPT !.at = at, !.got = got].at = at
    BY <1>1 DEF CallFields
  <1>5. ASSUME NEW at, NEW got, AwaitNow(c, at, got), at \notin Opening
        PROVE  Elsewhere(c)
    <2>. DEFINE cl == [call[c] EXCEPT !.at = at, !.got = got]
    <2>1. Becomes(c, cl) /\ cl.at \notin Opening
      BY <1>4, <1>5 DEF AwaitNow
    <2>. HIDE DEF cl
    <2>. QED BY <2>1 DEF Elsewhere
  <1>6. ASSUME NEW todo, Becomes(c, After(call[c], todo))
        PROVE  Elsewhere(c)
    BY <1>2, <1>3, <1>6 DEF Elsewhere
  <1>7. Throw(c) => Elsewhere(c)
    BY <1>2 DEF Throw, Elsewhere
  <1>8. Return(c) => Elsewhere(c)
    BY <1>6 DEF Return
  <1>. QED BY <1>5, <1>6, <1>7, <1>8

\* A handler that neither signs open mandates nor pays.
LEMMA ElsewhereStep ==
  ASSUME GrantInv, CallsInv, NEW c \in Calls, Elsewhere(c), grants' = grants, orders' = orders,
         s'.openP = s.openP, s'.pm = s.pm
  PROVE  GrantInv'
  <1>1. PICK cl : Becomes(c, cl) /\ cl.at \notin Opening
    BY DEF Elsewhere
  <1>2. \A d \in Calls : call'[d].at \in Opening => call'[d].got.grant # None
    BY <1>1 DEF Becomes, CallsInv, GrantInv
  <1>. QED BY <1>2 DEF GrantInv, Names, PaidUnderOneGrant

LEMMA OtherSteps ==
  ASSUME GrantInv, CallsInv, SessionInv, NEW c \in Calls,
         \/ RunIntent(c) \/ Parsed(c) \/ Found(c) \/ Pick(c) \/ Select(c) \/ Accessory(c)
         \/ Create(c) \/ Update(c) \/ TakeCopy(c) \/ Hold(c) \/ PreparePayment(c)
         \/ MintInstrument(c) \/ Minted(c) \/ ConfirmAndPay(c) \/ Gate(c) \/ ReadPolicy(c)
         \/ ReadApproval(c) \/ RequestApproval(c) \/ Authorize(c) \/ Listed(c)
         \/ Sign(c) \/ CheckoutMandate(c) \/ Answer(c) \/ ResolveThreeDs(c) \/ Fail(c)
  PROVE  GrantInv'
  <1>1. DOMAIN s = SessionFields /\ DOMAIN call[c] = CallFields
    BY DEF SessionInv, CallsInv, CallOK
  <1>2. ASSUME NEW at, NEW got, AwaitNow(c, at, got), at \notin Opening
        PROVE  Elsewhere(c)
    BY <1>2, MovesElsewhere
  <1>3. Throw(c) \/ Return(c) => Elsewhere(c)
    BY MovesElsewhere
  <1>4. CASE RunIntent(c) \/ Parsed(c) \/ Select(c) \/ Accessory(c) \/ Minted(c) \/ TakeCopy(c)
    <2>1. Elsewhere(c)
      BY <1>2, <1>3, <1>4 DEF RunIntent, Parsed, Select, Accessory, Minted, TakeCopy, Opening
    <2>2. s'.openP = s.openP /\ s'.pm = s.pm /\ grants' = grants /\ orders' = orders
      BY <1>1, <1>4 DEF RunIntent, Parsed, Select, Accessory, Minted, TakeCopy, servers,
                        SessionFields
    <2>. QED BY <2>1, <2>2, ElsewhereStep
  <1>5. CASE Found(c)
    <2>1. Elsewhere(c)
      BY <1>5, MovesElsewhere DEF Found
    <2>2. s'.openP = s.openP /\ s'.pm = s.pm /\ grants' = grants /\ orders' = orders
      BY <1>1, <1>5 DEF Found, servers, SessionFields
    <2>. QED BY <2>1, <2>2, ElsewhereStep
  <1>6. CASE Pick(c)
    <2>1. ASSUME NEW cap, Becomes(c, [call[c] EXCEPT !.at = "accessory", !.cap = cap])
          PROVE  Elsewhere(c)
      <3>. DEFINE cl == [call[c] EXCEPT !.at = "accessory", !.cap = cap]
      <3>1. Becomes(c, cl) /\ cl.at = "accessory"
        BY <1>1, <2>1 DEF CallFields
      <3>. HIDE DEF cl
      <3>. QED BY <3>1 DEF Elsewhere, Opening
    <2>2. Elsewhere(c)
      BY <1>3, <1>6, <2>1 DEF Pick
    <2>3. s'.openP = s.openP /\ s'.pm = s.pm /\ grants' = grants /\ orders' = orders
      BY <1>1, <1>6 DEF Pick, servers, SessionFields
    <2>. QED BY <2>2, <2>3, ElsewhereStep
  <1>7. CASE Create(c) \/ Update(c)
    <2>1. ASSUME NEW got, AwaitNow(c, "checkout", got)
          PROVE  Elsewhere(c)
      BY <1>2, <2>1 DEF Opening
    <2>2. Elsewhere(c)
      <3>1. CASE Create(c)
        <4>1. Throw(c) \/ \E got : AwaitNow(c, "checkout", got)
          BY <3>1, Zenon DEF Create
        <4>. QED BY <1>3, <2>1, <4>1
      <3>2. CASE Update(c)
        BY <1>3, <2>1, <3>2 DEF Update
      <3>. QED BY <1>7, <3>1, <3>2
    <2>3. s' = s /\ grants' = grants /\ orders' = orders
      BY <1>7 DEF Create, Update
    <2>. QED BY <2>2, <2>3, ElsewhereStep
  <1>8. CASE Hold(c) \/ PreparePayment(c) \/ RequestApproval(c) \/ Sign(c) \/ Listed(c)
             \/ ReadApproval(c) \/ ResolveThreeDs(c) \/ Fail(c) \/ MintInstrument(c)
    <2>1. Elsewhere(c)
      <3>1. ASSUME NEW got, AwaitNow(c, "minted", got)
            PROVE  Elsewhere(c)
        BY <1>2, <3>1 DEF Opening
      <3>2. CASE MintInstrument(c)
        BY <1>3, <3>1, <3>2 DEF MintInstrument
      <3>. QED BY <1>2, <1>3, <1>8, <3>2 DEF Hold, PreparePayment, RequestApproval, Sign, Listed,
                                            ReadApproval, ResolveThreeDs, Fail, Opening
    <2>2. s' = s /\ grants' = grants /\ orders' = orders
      BY <1>8 DEF Hold, PreparePayment, RequestApproval, Sign, Listed, ReadApproval,
                  ResolveThreeDs, Fail, MintInstrument, servers
    <2>. QED BY <2>1, <2>2, ElsewhereStep
  <1>9. CASE ConfirmAndPay(c)
    <2>1. ASSUME NEW todo, NEW cap, NEW co, NEW since,
                 Becomes(c, [call[c] EXCEPT !.co = co, !.cap = cap, !.since = since,
                                            !.todo = todo])
          PROVE  Elsewhere(c)
      <3>. DEFINE cl == [call[c] EXCEPT !.co = co, !.cap = cap, !.since = since,
                                        !.todo = todo]
      <3>1. Becomes(c, cl) /\ cl.at = "run"
        BY <1>1, <1>9, <2>1 DEF ConfirmAndPay, Runs, CallFields
      <3>. HIDE DEF cl
      <3>. QED BY <3>1 DEF Elsewhere, Opening
    <2>2. Elsewhere(c)
      BY <1>3, <1>9, <2>1 DEF ConfirmAndPay
    <2>3. s'.openP = s.openP /\ s'.pm = s.pm /\ grants' = grants /\ orders' = orders
      BY <1>1, <1>9 DEF ConfirmAndPay, servers, SessionFields
    <2>. QED BY <2>2, <2>3, ElsewhereStep
  <1>10. CASE CheckoutMandate(c) \/ Answer(c)
    <2>1. Elsewhere(c)
      BY <1>2, <1>3, <1>10 DEF CheckoutMandate, Answer, Opening
    <2>2. s'.openP = s.openP /\ s'.pm = s.pm /\ grants' = grants /\ orders' = orders
      BY <1>1, <1>10 DEF CheckoutMandate, Answer, servers, SessionFields
    <2>. QED BY <2>1, <2>2, ElsewhereStep
  <1>11. CASE Gate(c) \/ ReadPolicy(c)
    <2>1. ASSUME NEW at \in {"policy", "approval"}, NEW got, AwaitNow(c, at, got)
          PROVE  Elsewhere(c)
      BY <1>2, <2>1 DEF Opening
    <2>2. Elsewhere(c)
      BY <1>3, <1>11, <2>1 DEF Gate, ReadPolicy
    <2>3. s' = s /\ grants' = grants /\ orders' = orders
      BY <1>11 DEF Gate, ReadPolicy, servers
    <2>. QED BY <2>2, <2>3, ElsewhereStep
  <1>12. CASE Authorize(c)
    <2>1. ASSUME NEW ms, Becomes(c, [call[c] EXCEPT !.at = "listed", !.merchants = ms])
          PROVE  Elsewhere(c)
      <3>. DEFINE cl == [call[c] EXCEPT !.at = "listed", !.merchants = ms]
      <3>1. Becomes(c, cl) /\ cl.at = "listed"
        BY <1>1, <2>1 DEF CallFields
      <3>. HIDE DEF cl
      <3>. QED BY <3>1 DEF Elsewhere, Opening
    <2>2. Elsewhere(c)
      BY <1>12, <2>1 DEF Authorize
    <2>3. s'.openP = s.openP /\ s'.pm = s.pm /\ grants' = grants /\ orders' = orders
      BY <1>1, <1>12 DEF Authorize, servers, SessionFields
    <2>. QED BY <2>2, <2>3, ElsewhereStep
  <1>. QED BY <1>4, <1>5, <1>6, <1>7, <1>8, <1>9, <1>10, <1>11, <1>12

\* Signing a pair: both name the grant the handler got when it began.
LEMMA SigningSteps ==
  ASSUME GrantInv, CallsInv, SessionInv, NEW c \in Calls,
         IssueOpenMandates(c) \/ OpenCheckout(c) \/ OpenPayment(c)
  PROVE  GrantInv'
  <1>1. DOMAIN s = SessionFields /\ DOMAIN call[c] = CallFields /\ DOMAIN call = Calls
    BY DEF SessionInv, CallsInv, CallOK
  <1>2. CASE IssueOpenMandates(c)
    <2>1. s' = s /\ orders' = orders /\ grants' \in Nat
      BY <1>2 DEF IssueOpenMandates, GrantInv
    <2>2. ASSUME NEW cap, NEW ms,
                 Becomes(c, [call[c] EXCEPT !.at = "open_checkout", !.cap = cap,
                   !.got = [grant |-> grants + 1, merchants |-> ms]])
          PROVE  \A d \in Calls : call'[d].at \in Opening => call'[d].got.grant # None
      <3>. DEFINE got == [grant |-> grants + 1, merchants |-> ms]
                  cl == [call[c] EXCEPT !.at = "open_checkout", !.cap = cap, !.got = got]
      <3>1. grants + 1 # None
        BY NumbersAssumption DEF NumbersAssumption, GrantInv
      <3>2. got.grant # None
        BY <3>1
      <3>. HIDE DEF got
      <3>3. cl.got.grant # None
        BY <1>1, <3>2 DEF CallFields
      <3>4. Becomes(c, cl)
        BY <2>2 DEF got
      <3>. HIDE DEF cl
      <3>. QED BY <1>1, <3>3, <3>4 DEF Becomes, GrantInv
    <2>3. ASSUME Throw(c)
          PROVE  \A d \in Calls : call'[d].at \in Opening => call'[d].got.grant # None
      BY <1>1, <2>3 DEF Throw, Becomes, Idle, Opening, GrantInv
    <2>4. \A d \in Calls : call'[d].at \in Opening => call'[d].got.grant # None
      BY <1>2, <2>2, <2>3 DEF IssueOpenMandates
    <2>. QED BY <2>1, <2>4 DEF GrantInv, Names, PaidUnderOneGrant
  <1>3. CASE OpenCheckout(c)
    <2>. DEFINE cl == [call[c] EXCEPT !.at = "open_payment"]
    <2>1. /\ cl.got = call[c].got /\ call[c].at \in Opening
          /\ Becomes(c, cl) \/ Throw(c)
      BY <1>1, <1>3 DEF OpenCheckout, CallFields, Awaits, Opening
    <2>. HIDE DEF cl
    <2>2. \A d \in Calls : call'[d].at \in Opening => call'[d].got.grant # None
      BY <1>1, <2>1 DEF Throw, Idle, Opening, Becomes, GrantInv
    <2>3. s'.openP = s.openP /\ s'.pm = s.pm /\ grants' = grants /\ orders' = orders
      BY <1>1, <1>3 DEF OpenCheckout, servers, SessionFields
    <2>. QED BY <2>2, <2>3 DEF GrantInv, Names, PaidUnderOneGrant
  <1>4. CASE OpenPayment(c)
    <2>1. Elsewhere(c)
      BY <1>4, MovesElsewhere DEF OpenPayment
    <2>2. \A d \in Calls : call'[d].at \in Opening => call'[d].got.grant # None
      BY <1>1, <2>1 DEF Elsewhere, Becomes, GrantInv
    <2>3. call[c].got.grant # None
      BY <1>4 DEF OpenPayment, Awaits, Opening, GrantInv
    <2>4. Names(s'.openP) /\ s'.pm = s.pm /\ grants' = grants /\ orders' = orders
      BY <1>1, <1>4, <2>3 DEF OpenPayment, Reference, Names, servers, SessionFields
    <2>. QED BY <2>2, <2>4 DEF GrantInv, Names, PaidUnderOneGrant
  <1>. QED BY <1>2, <1>3, <1>4

\* Paying: what the verifiers compare is what the order keeps.
LEMMA PayingStep ==
  ASSUME GrantInv, CallsInv, NEW c \in Calls, NEW now, NEW attested, Submit(c, now, attested),
         Names(now.openP), now.pm = None \/ Names(now.pm.open)
  PROVE  GrantInv'
  <1>1. s' = now /\ grants' = grants
    BY DEF Submit
  <1>2. CASE orders' = orders /\ Throw(c)
    <2>1. \A d \in Calls : call'[d].at \in Opening => call'[d].got.grant # None
      BY <1>2 DEF Throw, Becomes, CallsInv, Idle, Opening, GrantInv
    <2>. QED BY <1>1, <1>2, <2>1 DEF GrantInv, PaidUnderOneGrant
  <1>3. ASSUME now.pm # None, PspAccepts(now.co.id, now.cm, now.pm), NEW st, NEW order,
               order.cm = now.cm, order.pm = now.pm, orders' \subseteq orders \cup {order},
               NEW got,
               Becomes(c, [call[c] EXCEPT !.at = "answer", !.attested = attested, !.got = got])
        PROVE  GrantInv'
    <2>. DEFINE cl == [call[c] EXCEPT !.at = "answer", !.attested = attested, !.got = got]
    <2>1. cl.at = "answer" /\ Becomes(c, cl)
      BY <1>3 DEF CallsInv, CallOK, CallFields
    <2>. HIDE DEF cl
    <2>2. \A d \in Calls : call'[d].at \in Opening => call'[d].got.grant # None
      BY <2>1 DEF Becomes, CallsInv, Opening, GrantInv
    <2>3. (now.cm.open # None /\ now.pm.open # None) => now.cm.open.grant = now.pm.open.ref
      BY <1>3 DEF PspAccepts, Names
    <2>4. PaidUnderOneGrant'
      BY <1>3, <2>3 DEF PaidUnderOneGrant, GrantInv
    <2>. QED BY <1>1, <2>2, <2>4 DEF GrantInv
  <1>4. ASSUME now.pm # None, PspAccepts(now.co.id, now.cm, now.pm), NEW st,
               orders' = orders \cup
                 (IF st = "escalated" THEN {}
                  ELSE {[id |-> now.co.id, total |-> Total([store[now.co.id] EXCEPT !.st = st]),
                         cm |-> now.cm, pm |-> now.pm, method |-> now.tok.method]}),
               Becomes(c, [call[c] EXCEPT !.at = "answer", !.attested = attested,
                             !.got = Copy(now.co.id, [store[now.co.id] EXCEPT !.st = st])])
        PROVE  GrantInv'
    <2>. DEFINE order == [id |-> now.co.id, total |-> Total([store[now.co.id] EXCEPT !.st = st]),
                          cm |-> now.cm, pm |-> now.pm, method |-> now.tok.method]
    <2>1. order.cm = now.cm /\ order.pm = now.pm /\ orders' \subseteq orders \cup {order}
      BY <1>4
    <2>. HIDE DEF order
    <2>. QED BY <1>3, <1>4, <2>1
  <1>5. CASE now.pm # None /\ Completed(c, now.co.id, attested)
    BY <1>1, <1>4, <1>5, Zenon DEF Completed
  <1>6. CASE Declined(c, now.co.id)
    BY <1>2, <1>6 DEF Declined
  <1>. QED BY <1>2, <1>5, <1>6 DEF Submit

LEMMA SubmitSteps ==
  ASSUME GrantInv, CallsInv, SessionInv, NEW c \in Calls,
         PaymentMandate(c) \/ SignAsAgent(c) \/ Retry(c)
  PROVE  GrantInv'
  <1>1. DOMAIN s = SessionFields
    BY DEF SessionInv
  <1>2. CASE PaymentMandate(c)
    <2>. DEFINE now == [s EXCEPT !.pm = [signed |-> call[c].co, open |-> None, window |-> {}]]
    <2>1. now.openP = s.openP /\ now.pm.open = None /\ Submit(c, now, FALSE)
      BY <1>1, <1>2 DEF PaymentMandate, SessionFields
    <2>. HIDE DEF now
    <2>. QED BY <2>1, PayingStep DEF GrantInv, Names
  <1>3. CASE SignAsAgent(c)
    <2>. DEFINE cm == [signed |-> call[c].co, open |-> s.openC]
                pm == [signed |-> call[c].co, open |-> s.openP,
                       window |-> call[c].since..Len(policies)]
                now == [s EXCEPT !.cm = cm, !.pm = pm]
    <2>1. CASE Throw(c) /\ UNCHANGED servers /\ s' \in {s, [s EXCEPT !.cm = cm]}
      <3>1. s'.openP = s.openP /\ s'.pm = s.pm /\ grants' = grants /\ orders' = orders
        BY <1>1, <2>1 DEF SessionFields, servers
      <3>. QED BY <2>1, <3>1, MovesElsewhere, ElsewhereStep
    <2>2. CASE Submit(c, now, FALSE)
      <3>1. now.openP = s.openP /\ now.pm.open = s.openP
        BY <1>1 DEF SessionFields
      <3>. HIDE DEF now
      <3>. QED BY <2>2, <3>1, PayingStep DEF GrantInv
    <2>. QED BY <1>3, <2>1, <2>2 DEF SignAsAgent
  <1>4. CASE Retry(c)
    BY <1>4, PayingStep DEF Retry, GrantInv
  <1>. QED BY <1>2, <1>3, <1>4

LEMMA NextGrant ==
  ASSUME GateInv, GrantInv, [Next]_vars
  PROVE  GrantInv'
  <1>0. CallsInv /\ SessionInv /\ DOMAIN s = SessionFields
    BY DEF GateInv, SessionInv
  <1>1. CASE UNCHANGED vars \/ Decide \/ EditPolicy
    BY <1>1 DEF vars, servers, Decide, EditPolicy, GrantInv, Names, PaidUnderOneGrant
  <1>2. ASSUME NEW c \in Calls, Step(c) \/ Fail(c)
        PROVE  GrantInv'
    BY <1>0, <1>2, OtherSteps, SigningSteps, SubmitSteps DEF Step
  <1>3. ASSUME NEW c \in Calls, Start(c)
        PROVE  GrantInv'
    <2>1. PICK cl \in Requests : Becomes(c, cl)
      BY <1>3 DEF Start
    <2>2. cl.at = "run"
      BY RequestsOK
    <2>3. Elsewhere(c)
      BY <2>1, <2>2 DEF Elsewhere, Opening
    <2>. QED BY <1>0, <1>3, <2>3, ElsewhereStep DEF Start, servers
  <1>4. CASE AtOnce
    <2>1. s'.openP = s.openP /\ s'.pm = s.pm /\ UNCHANGED <<call, grants, orders>>
      BY <1>0, <1>4 DEF AtOnce, servers, SessionFields
    <2>. QED BY <2>1 DEF GrantInv, Names, PaidUnderOneGrant
  <1>. QED BY <1>1, <1>2, <1>3, <1>4 DEF Next

\* However handlers overwrite each other's open mandates, and wherever the signing of a
\* pair breaks off, an order without the user is paid under the open payment mandate
\* that was signed for its open checkout mandate.
THEOREM PairsStayTogether == Spec => []PaidUnderOneGrant
  <1>1. Init => GrantInv
    BY DEF Init, GrantInv, Idle, Opening, Names, PaidUnderOneGrant
  <1>2. GrantInv => PaidUnderOneGrant
    BY DEF GrantInv
  <1>. QED BY <1>1, <1>2, InitGate, NextGate, NextGrant, PTL DEF Spec
-----------------------------------------------------------------------------
(***************************************************************************)
(* The session's copy of its checkout.  While handlers run one at a time   *)
(* it lags behind the merchant only between a request and its answer, and  *)
(* then the answer that is on its way is what the merchant has.            *)
(***************************************************************************)
Pending(c) == call[c].at \in {"checkout", "answer"}

OneAtATime == \A c, d \in Calls : Busy(c) /\ Busy(d) => c = d

Current(co) == co = Copy(co.id, store[co.id])

\* Lines and total are the merchant's, and the status is as far as the session may learn.
Close(co) ==
  LET live == store[co.id] IN
  /\ \A f \in {"m", "qty", "price", "extra"} : co[f] = live[f]
  /\ co.st # live.st =>
       live.st = "in_progress" \/ (live.st = "open" /\ co.st = "escalated")

CopyInv ==
  /\ ~overlapped => OneAtATime
  /\ \A c \in Calls : Pending(c) => Busy(c)
  /\ (~overlapped /\ ~lost) =>
       /\ \A c \in Calls : Pending(c) => Current(call[c].got)
       /\ (\A c \in Calls : ~Pending(c)) => s.co = None \/ Close(s.co)

LEMMA CurrentIsClose ==
  ASSUME NEW co, Current(co)
  PROVE  Close(co)
  <1>. DEFINE live == store[co.id]
  <1>1. co = [id |-> co.id, m |-> live.m, qty |-> live.qty, price |-> live.price,
              extra |-> live.extra, st |-> live.st]
    BY DEF Current, Copy
  <1>. HIDE DEF live
  <1>2. /\ co.m = live.m /\ co.qty = live.qty /\ co.price = live.price
        /\ co.extra = live.extra /\ co.st = live.st
    BY <1>1
  <1>. QED BY <1>2 DEF Close, live

\* The handler runs on, waits for something else, or has returned.
MovesOn(c) == \E cl : Becomes(c, cl) /\ cl.at \notin {"checkout", "answer"}

LEMMA MovesAlong ==
  ASSUME CallsInv, NEW c \in Calls
  PROVE  /\ Throw(c) \/ Return(c) => MovesOn(c)
         /\ \A todo : Becomes(c, After(call[c], todo)) => MovesOn(c)
         /\ \A at, got : AwaitNow(c, at, got) /\ at \notin {"checkout", "answer"} => MovesOn(c)
  <1>1. DOMAIN call[c] = CallFields
    BY DEF CallsInv, CallOK
  <1>2. Idle.at = "run"
    BY DEF Idle
  <1>3. ASSUME NEW todo
        PROVE  After(call[c], todo).at = "run"
    BY <1>1, <1>2 DEF After, CallFields
  <1>4. ASSUME NEW at, NEW got
        PROVE  [call[c] EXCEPT !.at = at, !.got = got].at = at
    BY <1>1 DEF CallFields
  <1>5. ASSUME NEW at, NEW got, AwaitNow(c, at, got), at \notin {"checkout", "answer"}
        PROVE  MovesOn(c)
    <2>. DEFINE cl == [call[c] EXCEPT !.at = at, !.got = got]
    <2>1. Becomes(c, cl) /\ cl.at \notin {"checkout", "answer"}
      BY <1>4, <1>5 DEF AwaitNow
    <2>. HIDE DEF cl
    <2>. QED BY <2>1 DEF MovesOn
  <1>6. ASSUME NEW todo, Becomes(c, After(call[c], todo))
        PROVE  MovesOn(c)
    BY <1>3, <1>6 DEF MovesOn
  <1>7. Throw(c) => MovesOn(c)
    BY <1>2 DEF Throw, MovesOn
  <1>8. Return(c) => MovesOn(c)
    BY <1>6 DEF Return
  <1>. QED BY <1>5, <1>6, <1>7, <1>8

\* Only the handler that takes the step may be busy after it.
LEMMA OnlyOne ==
  ASSUME CopyInv, CallsInv, NEW c \in Calls, Busy(c), NEW cl, Becomes(c, cl),
         overlapped' = overlapped
  PROVE  /\ call'[c] = cl /\ \A d \in Calls : d # c => call'[d] = call[d]
         /\ ~overlapped' => OneAtATime'
         /\ ~overlapped => \A d \in Calls : d # c => ~Busy(d) /\ ~Pending(d)
  <1>1. call'[c] = cl /\ \A d \in Calls : d # c => call'[d] = call[d]
    BY DEF Becomes, CallsInv
  <1>2. ~overlapped => \A d \in Calls : d # c => ~Busy(d) /\ ~Pending(d)
    BY DEF CopyInv, OneAtATime
  <1>3. ~overlapped' => OneAtATime'
    BY <1>1, <1>2 DEF OneAtATime, Busy
  <1>. QED BY <1>1, <1>2, <1>3

\* A step that neither sends a request to the merchant nor takes its answer.
LEMMA StillStep ==
  ASSUME CopyInv, CallsInv, NEW c \in Calls, Busy(c), ~Pending(c), MovesOn(c),
         overlapped' = overlapped, lost' = lost, store' = store, s'.co = s.co
  PROVE  CopyInv'
  <1>1. PICK cl : Becomes(c, cl) /\ cl.at \notin {"checkout", "answer"}
    BY DEF MovesOn
  <1>2. /\ call'[c] = cl /\ \A d \in Calls : d # c => call'[d] = call[d]
        /\ ~overlapped' => OneAtATime'
        /\ ~overlapped => \A d \in Calls : d # c => ~Busy(d) /\ ~Pending(d)
    BY <1>1, OnlyOne
  <1>3. \A d \in Calls : Pending(d)' => Busy(d)'
    BY <1>1, <1>2 DEF CopyInv, Pending, Busy
  <1>4. ASSUME ~overlapped, ~lost
        PROVE  /\ \A d \in Calls : ~Pending(d) /\ ~Pending(d)'
               /\ s'.co = None \/ Close(s.co)
    <2>1. \A d \in Calls : ~Pending(d) /\ ~Pending(d)'
      BY <1>1, <1>2, <1>4 DEF Pending
    <2>. QED BY <1>4, <2>1 DEF CopyInv
  <1>. QED BY <1>2, <1>3, <1>4 DEF CopyInv, Current, Close

\* A request: the merchant's checkout changes, and the answer says how.
LEMMA SendStep ==
  ASSUME CopyInv, CallsInv, NEW c \in Calls, Busy(c), ServersInv,
         NEW id \in Ids, NEW x, store' = [store EXCEPT ![id] = x],
         NEW cl, Becomes(c, cl), cl.at \in {"checkout", "answer"}, cl.todo # <<>>,
         cl.got = Copy(id, x), overlapped' = overlapped, lost' = lost
  PROVE  CopyInv'
  <1>1. /\ call'[c] = cl /\ \A d \in Calls : d # c => call'[d] = call[d]
        /\ ~overlapped' => OneAtATime'
        /\ ~overlapped => \A d \in Calls : d # c => ~Busy(d) /\ ~Pending(d)
    BY OnlyOne
  <1>2. \A d \in Calls : Pending(d)' => Busy(d)'
    BY <1>1 DEF CopyInv, Pending, Busy
  <1>3. Pending(c)' /\ call'[c].got = Copy(id, store'[id]) /\ call'[c].got.id = id
    BY <1>1 DEF Pending, ServersInv, Copy
  <1>4. ~overlapped => \A d \in Calls : Pending(d)' => d = c
    BY <1>1 DEF Pending
  <1>. QED BY <1>1, <1>2, <1>3, <1>4 DEF CopyInv, Current

\* The answer becomes the session's copy.
LEMMA TakeStep ==
  ASSUME CopyInv, CallsInv, NEW c \in Calls, Busy(c), Pending(c), MovesOn(c),
         s'.co = call[c].got, overlapped' = overlapped, lost' = lost, store' = store
  PROVE  CopyInv'
  <1>1. PICK cl : Becomes(c, cl) /\ cl.at \notin {"checkout", "answer"}
    BY DEF MovesOn
  <1>2. /\ call'[c] = cl /\ \A d \in Calls : d # c => call'[d] = call[d]
        /\ ~overlapped' => OneAtATime'
        /\ ~overlapped => \A d \in Calls : d # c => ~Busy(d) /\ ~Pending(d)
    BY <1>1, OnlyOne
  <1>3. \A d \in Calls : Pending(d)' => Busy(d)'
    BY <1>1, <1>2 DEF CopyInv, Pending, Busy
  <1>4. ASSUME ~overlapped, ~lost
        PROVE  /\ \A d \in Calls : ~Pending(d)'
               /\ Close(s.co)'
    <2>1. (\A d \in Calls : ~Pending(d)') /\ Current(call[c].got)
      BY <1>1, <1>2, <1>4 DEF Pending, CopyInv
    <2>2. Close(call[c].got)
      BY <2>1, CurrentIsClose
    <2>. QED BY <2>1, <2>2 DEF Close
  <1>. QED BY <1>2, <1>3, <1>4 DEF CopyInv

LEMMA StillSteps ==
  ASSUME CopyInv, CallsInv, SessionInv, NEW c \in Calls,
         \/ RunIntent(c) \/ Parsed(c) \/ Found(c) \/ IssueOpenMandates(c) \/ OpenCheckout(c)
         \/ OpenPayment(c) \/ Pick(c) \/ Select(c) \/ Accessory(c) \/ Hold(c)
         \/ PreparePayment(c) \/ MintInstrument(c) \/ Minted(c) \/ ConfirmAndPay(c) \/ Gate(c)
         \/ Authorize(c) \/ Listed(c) \/ ReadPolicy(c) \/ ReadApproval(c)
         \/ RequestApproval(c) \/ Sign(c) \/ CheckoutMandate(c) \/ ResolveThreeDs(c)
  PROVE  CopyInv'
  <1>1. DOMAIN s = SessionFields /\ DOMAIN call[c] = CallFields
    BY DEF SessionInv, CallsInv, CallOK
  <1>2. ASSUME NEW at, NEW got, AwaitNow(c, at, got), at \notin {"checkout", "answer"}
        PROVE  MovesOn(c)
    BY <1>2, MovesAlong
  <1>3. Throw(c) \/ Return(c) => MovesOn(c)
    BY MovesAlong
  <1>4. Busy(c) /\ ~Pending(c) /\ overlapped' = overlapped /\ lost' = lost /\ store' = store
    BY DEF RunIntent, Parsed, Found, IssueOpenMandates, OpenCheckout, OpenPayment, Pick, Select,
           Accessory, Hold, PreparePayment, MintInstrument, Minted, ConfirmAndPay, Gate,
           RequestApproval, Sign, CheckoutMandate, ResolveThreeDs, Runs, Awaits, Pending,
           Authorize, Listed, ReadPolicy, ReadApproval,
           servers, history
  <1>5. CASE \/ RunIntent(c) \/ Parsed(c) \/ Select(c) \/ Accessory(c) \/ Minted(c)
             \/ CheckoutMandate(c)
    <2>1. MovesOn(c)
      BY <1>2, <1>3, <1>5 DEF RunIntent, Parsed, Select, Accessory, Minted, CheckoutMandate
    <2>2. s'.co = s.co
      BY <1>1, <1>5 DEF RunIntent, Parsed, Select, Accessory, Minted, CheckoutMandate,
                        SessionFields
    <2>. QED BY <1>4, <2>1, <2>2, StillStep
  <1>6. CASE Found(c) \/ OpenPayment(c)
    <2>1. MovesOn(c)
      BY <1>3, <1>6, MovesAlong DEF Found, OpenPayment
    <2>2. s'.co = s.co
      BY <1>1, <1>6 DEF Found, OpenPayment, SessionFields
    <2>. QED BY <1>4, <2>1, <2>2, StillStep
  <1>7. CASE IssueOpenMandates(c)
    <2>1. ASSUME NEW cap, NEW got,
                 Becomes(c, [call[c] EXCEPT !.at = "open_checkout", !.cap = cap, !.got = got])
          PROVE  MovesOn(c)
      <3>. DEFINE cl == [call[c] EXCEPT !.at = "open_checkout", !.cap = cap, !.got = got]
      <3>1. Becomes(c, cl) /\ cl.at = "open_checkout"
        BY <1>1, <2>1 DEF CallFields
      <3>. HIDE DEF cl
      <3>. QED BY <3>1 DEF MovesOn
    <2>2. MovesOn(c) /\ s' = s
      BY <1>3, <1>7, <2>1 DEF IssueOpenMandates
    <2>. QED BY <1>4, <2>2, StillStep
  <1>8. CASE OpenCheckout(c)
    <2>1. MovesOn(c)
      <3>. DEFINE cl == [call[c] EXCEPT !.at = "open_payment"]
      <3>1. cl.at = "open_payment" /\ (Becomes(c, cl) \/ Throw(c))
        BY <1>1, <1>8 DEF CallFields, OpenCheckout
      <3>. HIDE DEF cl
      <3>. QED BY <1>3, <3>1 DEF MovesOn
    <2>2. s'.co = s.co
      BY <1>1, <1>8 DEF OpenCheckout, SessionFields
    <2>. QED BY <1>4, <2>1, <2>2, StillStep
  <1>9. CASE Pick(c)
    <2>1. ASSUME NEW cap, Becomes(c, [call[c] EXCEPT !.at = "accessory", !.cap = cap])
          PROVE  MovesOn(c)
      <3>. DEFINE cl == [call[c] EXCEPT !.at = "accessory", !.cap = cap]
      <3>1. Becomes(c, cl) /\ cl.at = "accessory"
        BY <1>1, <2>1 DEF CallFields
      <3>. HIDE DEF cl
      <3>. QED BY <3>1 DEF MovesOn
    <2>2. MovesOn(c)
      BY <1>3, <1>9, <2>1 DEF Pick
    <2>3. s'.co = s.co
      BY <1>1, <1>9 DEF Pick, SessionFields
    <2>. QED BY <1>4, <2>2, <2>3, StillStep
  <1>10. CASE \/ Hold(c) \/ PreparePayment(c) \/ RequestApproval(c) \/ Sign(c)
              \/ ResolveThreeDs(c) \/ MintInstrument(c) \/ Listed(c) \/ ReadApproval(c)
    <2>1. MovesOn(c)
      <3>1. ASSUME NEW got, AwaitNow(c, "minted", got)
            PROVE  MovesOn(c)
        BY <1>2, <3>1
      <3>2. CASE MintInstrument(c)
        BY <1>3, <3>1, <3>2 DEF MintInstrument
      <3>. QED BY <1>2, <1>3, <1>10, <3>2 DEF Hold, PreparePayment, RequestApproval,
                                             Sign, ResolveThreeDs, Listed, ReadApproval
    <2>2. s' = s
      BY <1>10 DEF Hold, PreparePayment, RequestApproval, Sign, ResolveThreeDs,
                   MintInstrument, Listed, ReadApproval
    <2>. QED BY <1>4, <2>1, <2>2, StillStep
  <1>11. CASE ConfirmAndPay(c)
    <2>1. ASSUME NEW todo, NEW cap, NEW co, NEW since,
                 Becomes(c, [call[c] EXCEPT !.co = co, !.cap = cap, !.since = since,
                                            !.todo = todo])
          PROVE  MovesOn(c)
      <3>. DEFINE cl == [call[c] EXCEPT !.co = co, !.cap = cap, !.since = since,
                                        !.todo = todo]
      <3>1. Becomes(c, cl) /\ cl.at = "run"
        BY <1>1, <1>11, <2>1 DEF ConfirmAndPay, Runs, CallFields
      <3>. HIDE DEF cl
      <3>. QED BY <3>1 DEF MovesOn
    <2>2. MovesOn(c)
      BY <1>3, <1>11, <2>1 DEF ConfirmAndPay
    <2>3. s'.co = s.co
      BY <1>1, <1>11 DEF ConfirmAndPay, SessionFields
    <2>. QED BY <1>4, <2>2, <2>3, StillStep
  <1>12. CASE Gate(c) \/ ReadPolicy(c)
    <2>1. ASSUME NEW at \in {"policy", "approval"}, NEW got, AwaitNow(c, at, got)
          PROVE  MovesOn(c)
      BY <1>2, <2>1
    <2>2. MovesOn(c)
      BY <1>3, <1>12, <2>1 DEF Gate, ReadPolicy
    <2>3. s' = s
      BY <1>12 DEF Gate, ReadPolicy
    <2>. QED BY <1>4, <2>2, <2>3, StillStep
  <1>13. CASE Authorize(c)
    <2>1. ASSUME NEW ms, Becomes(c, [call[c] EXCEPT !.at = "listed", !.merchants = ms])
          PROVE  MovesOn(c)
      <3>. DEFINE cl == [call[c] EXCEPT !.at = "listed", !.merchants = ms]
      <3>1. Becomes(c, cl) /\ cl.at = "listed"
        BY <1>1, <2>1 DEF CallFields
      <3>. HIDE DEF cl
      <3>. QED BY <3>1 DEF MovesOn
    <2>2. MovesOn(c)
      BY <1>13, <2>1 DEF Authorize
    <2>3. s'.co = s.co
      BY <1>1, <1>13 DEF Authorize, SessionFields
    <2>. QED BY <1>4, <2>2, <2>3, StillStep
  <1>. QED BY <1>5, <1>6, <1>7, <1>8, <1>9, <1>10, <1>11, <1>12, <1>13

\* createCheckout and the updates send a request, or throw.
LEMMA CheckoutSends ==
  ASSUME CopyInv, CallsInv, SessionInv, ServersInv, NEW c \in Calls, Create(c) \/ Update(c)
  PROVE  CopyInv'
  <1>1. /\ Busy(c) /\ ~Pending(c) /\ overlapped' = overlapped /\ lost' = lost /\ s' = s
        /\ DOMAIN call[c] = CallFields
    BY DEF Create, Update, Runs, Pending, history, CallsInv, CallOK
  <1>2. ASSUME NEW id \in Ids, NEW x, store' = [store EXCEPT ![id] = x],
               AwaitNow(c, "checkout", Copy(id, x))
        PROVE  CopyInv'
    <2>. DEFINE cl == [call[c] EXCEPT !.at = "checkout", !.got = Copy(id, x)]
    <2>1. /\ Becomes(c, cl) /\ cl.at = "checkout" /\ cl.got = Copy(id, x)
          /\ cl.todo = call[c].todo
      BY <1>1, <1>2 DEF AwaitNow, CallFields
    <2>. HIDE DEF cl
    <2>2. cl.todo # <<>>
      BY <1>1, <2>1 DEF Busy
    <2>. QED BY <1>1, <1>2, <2>1, <2>2, SendStep
  <1>3. ASSUME store' = store, Throw(c)
        PROVE  CopyInv'
    BY <1>1, <1>3, MovesAlong, StillStep
  <1>4. CASE Create(c)
    <2>1. \/ store' = store /\ Throw(c)
          \/ \E id \in Ids, p \in Prices :
               LET opened == [m |-> s.sel.m, qty |-> s.sel.qty, price |-> p,
                              extra |-> 0, st |-> "open"] IN
               /\ store' = [store EXCEPT ![id] = opened]
               /\ AwaitNow(c, "checkout", Copy(id, opened))
      BY <1>4, Zenon DEF Create
    <2>. QED BY <1>2, <1>3, <2>1
  <1>5. CASE Update(c)
    <2>1. s.co # None => s.co.id \in Ids
      BY DEF SessionInv
    <2>. QED BY <1>2, <1>3, <1>5, <2>1 DEF Update
  <1>. QED BY <1>4, <1>5

\* complete_checkout is sent, or the handler throws.
LEMMA DeclinedStep ==
  ASSUME CopyInv, CallsInv, ServersInv, NEW c \in Calls, Busy(c), ~Pending(c), Throw(c),
         s.co # None, s.co.id \in Ids, store[s.co.id].st \in {"open", "escalated"},
         NEW st \in {"open", "in_progress"}, store' = [store EXCEPT ![s.co.id].st = st],
         s'.co = s.co, overlapped' = overlapped, lost' = lost
  PROVE  CopyInv'
  <1>1. Becomes(c, Idle) /\ Idle.at = "run"
    BY DEF Throw, Idle
  <1>2. /\ call'[c] = Idle /\ \A d \in Calls : d # c => call'[d] = call[d]
        /\ ~overlapped' => OneAtATime'
        /\ ~overlapped => \A d \in Calls : d # c => ~Busy(d) /\ ~Pending(d)
    BY <1>1, OnlyOne
  <1>3. \A d \in Calls : Pending(d)' => Busy(d)'
    BY <1>1, <1>2 DEF CopyInv, Pending, Busy
  <1>4. ASSUME ~overlapped, ~lost
        PROVE  (\A d \in Calls : ~Pending(d) /\ ~Pending(d)') /\ Close(s.co)'
    <2>1. \A d \in Calls : ~Pending(d) /\ ~Pending(d)'
      BY <1>1, <1>2, <1>4 DEF Pending
    <2>2. Close(s.co)
      BY <1>4, <2>1 DEF CopyInv
    <2>. DEFINE live == store[s.co.id]
                live2 == store'[s.co.id]
    <2>3. /\ DOMAIN live = CheckoutFields /\ live2 = [live EXCEPT !.st = st]
      BY DEF ServersInv
    <2>4. /\ \A f \in {"m", "qty", "price", "extra"} : live2[f] = live[f]
          /\ live2.st = st
      BY <2>3 DEF CheckoutFields
    <2>5. /\ \A f \in {"m", "qty", "price", "extra"} : s.co[f] = live[f]
          /\ s.co.st # live.st =>
               live.st = "in_progress" \/ (live.st = "open" /\ s.co.st = "escalated")
      BY <2>2 DEF Close
    <2>. HIDE DEF live2
    <2>6. /\ \A f \in {"m", "qty", "price", "extra"} : s.co[f] = live2[f]
          /\ s.co.st # live2.st =>
               live2.st = "in_progress" \/ (live2.st = "open" /\ s.co.st = "escalated")
      BY <2>4, <2>5
    <2>. QED BY <2>1, <2>6 DEF Close, live2
  <1>. QED BY <1>2, <1>3, <1>4 DEF CopyInv

LEMMA SubmitSends ==
  ASSUME CopyInv, CallsInv, ServersInv, NEW c \in Calls, Busy(c), ~Pending(c),
         NEW now, NEW attested, Submit(c, now, attested), now.co = s.co,
         now.co = None \/ now.co.id \in Ids
  PROVE  CopyInv'
  <1>1. s' = now /\ overlapped' = overlapped /\ lost' = lost /\ DOMAIN call[c] = CallFields
    BY DEF Submit, history, CallsInv, CallOK
  <1>2. CASE store' = store /\ Throw(c)
    BY <1>1, <1>2, MovesAlong, StillStep
  <1>3. ASSUME now.co # None, NEW x, store' = [store EXCEPT ![now.co.id] = x],
               Becomes(c, [call[c] EXCEPT !.at = "answer", !.attested = attested,
                                          !.got = Copy(now.co.id, x)])
        PROVE  CopyInv'
    <2>. DEFINE cl == [call[c] EXCEPT !.at = "answer", !.attested = attested,
                                      !.got = Copy(now.co.id, x)]
    <2>1. /\ Becomes(c, cl) /\ cl.at = "answer" /\ cl.got = Copy(now.co.id, x)
          /\ cl.todo = call[c].todo
      BY <1>1, <1>3 DEF CallFields
    <2>. HIDE DEF cl
    <2>2. cl.todo # <<>> /\ now.co.id \in Ids
      BY <1>3, <2>1 DEF Busy
    <2>. QED BY <1>1, <1>3, <2>1, <2>2, SendStep
  <1>4. CASE now.co # None /\ Completed(c, now.co.id, attested)
    BY <1>3, <1>4, Zenon DEF Completed
  <1>5. CASE /\ now.co # None /\ MerchantAccepts(now.co.id, now.cm)
             /\ Declined(c, now.co.id)
    <2>1. PICK st \in {"open", "in_progress"} : store' = [store EXCEPT ![now.co.id].st = st]
      BY <1>5, Zenon DEF Declined
    <2>2. Throw(c) /\ store[now.co.id].st \in {"open", "escalated"}
      BY <1>5 DEF Declined, MerchantAccepts
    <2>. QED BY <1>1, <1>5, <2>1, <2>2, DeclinedStep
  <1>. QED BY <1>2, <1>4, <1>5 DEF Submit

LEMMA PaymentSends ==
  ASSUME CopyInv, CallsInv, SessionInv, ServersInv, NEW c \in Calls,
         PaymentMandate(c) \/ SignAsAgent(c) \/ Retry(c)
  PROVE  CopyInv'
  <1>1. /\ Busy(c) /\ ~Pending(c) /\ DOMAIN s = SessionFields
        /\ s.co = None \/ s.co.id \in Ids
    BY DEF PaymentMandate, SignAsAgent, Retry, Runs, Awaits, Pending, SessionInv
  <1>2. CASE PaymentMandate(c)
    <2>. DEFINE now == [s EXCEPT !.pm = [signed |-> call[c].co, open |-> None, window |-> {}]]
    <2>1. now.co = s.co /\ Submit(c, now, FALSE)
      BY <1>1, <1>2 DEF PaymentMandate, SessionFields
    <2>. HIDE DEF now
    <2>. QED BY <1>1, <2>1, SubmitSends
  <1>3. CASE SignAsAgent(c)
    <2>. DEFINE cm == [signed |-> call[c].co, open |-> s.openC]
                pm == [signed |-> call[c].co, open |-> s.openP,
                       window |-> call[c].since..Len(policies)]
                now == [s EXCEPT !.cm = cm, !.pm = pm]
    <2>1. CASE Throw(c) /\ UNCHANGED <<servers, history, lost>> /\ s' \in {s, [s EXCEPT !.cm = cm]}
      <3>1. s'.co = s.co /\ store' = store /\ overlapped' = overlapped /\ lost' = lost
        BY <1>1, <2>1 DEF SessionFields, servers, history
      <3>. QED BY <1>1, <2>1, <3>1, MovesAlong, StillStep
    <2>2. CASE Submit(c, now, FALSE)
      <3>1. now.co = s.co
        BY <1>1 DEF SessionFields
      <3>. HIDE DEF now
      <3>. QED BY <1>1, <2>2, <3>1, SubmitSends
    <2>. QED BY <1>3, <2>1, <2>2 DEF SignAsAgent
  <1>4. CASE Retry(c)
    BY <1>1, <1>4, SubmitSends DEF Retry
  <1>. QED BY <1>2, <1>3, <1>4

LEMMA AnswerTaken ==
  ASSUME CopyInv, CallsInv, SessionInv, NEW c \in Calls, TakeCopy(c) \/ Answer(c)
  PROVE  CopyInv'
  <1>1. /\ Busy(c) /\ Pending(c) /\ overlapped' = overlapped /\ lost' = lost /\ store' = store
        /\ DOMAIN s = SessionFields
    BY DEF TakeCopy, Answer, Awaits, Pending, servers, history, SessionInv
  <1>2. MovesOn(c)
    BY MovesAlong DEF TakeCopy, Answer
  <1>3. s'.co = call[c].got
    BY <1>1 DEF TakeCopy, Answer, SessionFields
  <1>. QED BY <1>1, <1>2, <1>3, TakeStep

LEMMA AnswerLost ==
  ASSUME CopyInv, CallsInv, NEW c \in Calls, Fail(c)
  PROVE  CopyInv'
  <1>1. Busy(c) /\ Becomes(c, Idle) /\ overlapped' = overlapped /\ lost'
    BY DEF Fail, Throw, history
  <1>2. /\ call'[c] = Idle /\ \A d \in Calls : d # c => call'[d] = call[d]
        /\ ~overlapped' => OneAtATime'
    BY <1>1, OnlyOne
  <1>3. \A d \in Calls : Pending(d)' => Busy(d)'
    BY <1>2 DEF CopyInv, Pending, Busy, Idle
  <1>. QED BY <1>1, <1>2, <1>3 DEF CopyInv

LEMMA HandlerStarts ==
  ASSUME CopyInv, CallsInv, NEW c \in Calls, Start(c)
  PROVE  CopyInv'
  <1>1. PICK cl \in Requests : Becomes(c, cl)
    BY DEF Start
  <1>2. /\ cl.at = "run" /\ ~Busy(c) /\ lost' = lost /\ store' = store /\ s' = s
        /\ overlapped' <=> overlapped \/ \E d \in Calls : Busy(d)
    BY RequestsOK DEF Start, servers
  <1>3. call'[c] = cl /\ \A d \in Calls : d # c => call'[d] = call[d]
    BY <1>1 DEF Becomes, CallsInv
  <1>4. \A d \in Calls : Pending(d)' => Pending(d) /\ d # c /\ Busy(d)'
    BY <1>2, <1>3 DEF CopyInv, Pending, Busy
  <1>5. ~overlapped' => ~overlapped /\ \A d \in Calls : ~Pending(d) /\ (Busy(d)' => d = c)
    BY <1>2, <1>3 DEF CopyInv, Busy
  <1>6. ~overlapped' => OneAtATime'
    BY <1>5 DEF OneAtATime
  <1>. QED BY <1>2, <1>4, <1>5, <1>6 DEF CopyInv, Current, Close

LEMMA NextCopy ==
  ASSUME GateInv, CopyInv, [Next]_vars
  PROVE  CopyInv'
  <1>0. CallsInv /\ SessionInv /\ ServersInv /\ DOMAIN s = SessionFields
    BY DEF GateInv, SessionInv
  <1>1. CASE UNCHANGED vars \/ Decide \/ EditPolicy
    <2>1. /\ s' = s /\ call' = call /\ store' = store /\ overlapped' = overlapped
          /\ lost' = lost
      BY <1>1 DEF vars, servers, history, Decide, EditPolicy
    <2>. QED BY <2>1 DEF CopyInv, OneAtATime, Pending, Busy, Current, Close
  <1>2. ASSUME NEW c \in Calls, Step(c)
        PROVE  CopyInv'
    BY <1>0, <1>2, StillSteps, CheckoutSends, PaymentSends, AnswerTaken DEF Step
  <1>3. ASSUME NEW c \in Calls, Start(c) \/ Fail(c)
        PROVE  CopyInv'
    BY <1>0, <1>3, HandlerStarts, AnswerLost
  <1>4. CASE AtOnce
    <2>1. /\ s'.co = s.co /\ call' = call /\ store' = store /\ lost' = lost
          /\ overlapped' <=> overlapped \/ \E d \in Calls : Busy(d)
      BY <1>0, <1>4 DEF AtOnce, servers, SessionFields
    <2>. QED BY <2>1 DEF CopyInv, OneAtATime, Pending, Busy, Current, Close
  <1>. QED BY <1>1, <1>2, <1>3, <1>4 DEF Next

\* Once every handler has returned, none overlapped and no answer was lost, the session
\* holds its checkout with the lines and the total the merchant has: every route that
\* changes the checkout there takes over the answer, and a completion that is refused
\* changes no more than the status.
THEOREM CopyStaysCurrent == Spec => []CopyIsCurrent
  <1>1. Init => CopyInv
    BY DEF Init, CopyInv, OneAtATime, Pending, Busy, Idle
  <1>2. CopyInv => CopyIsCurrent
    <2>. SUFFICES ASSUME CopyInv, \A c \in Calls : ~Busy(c), ~overlapped, ~lost, s.co # None
                  PROVE  Close(s.co)
      BY DEF CopyIsCurrent, Close
    <2>. QED BY DEF CopyInv
  <1>. QED BY <1>1, <1>2, InitGate, NextGate, NextCopy, PTL DEF Spec
-----------------------------------------------------------------------------
(***************************************************************************)
(* An autonomous run.  While nothing overlaps it, what it still has to run *)
(* and what it waits for say how far it is, and what it knows by then of   *)
(* the session: the selection is of an allowed merchant, so is the         *)
(* checkout, and past the hold its total is within the user's number.      *)
(***************************************************************************)
ToSearch == <<"intent", "pick", "create", "hold", "prepare", "confirm">>
ToAuthorize == <<"authorize", "issue", "pick", "create", "hold", "prepare", "confirm">>
ToGrant == <<"issue", "pick", "create", "hold", "prepare", "confirm">>
ToCreate == <<"create", "hold", "prepare", "confirm">>
ToHold == <<"hold", "prepare", "confirm">>
ToPrepare == <<"prepare", "confirm">>
ToConfirm == <<"confirm">>
ToGrantLate == <<"issue", "gate", "sign_as_agent">>
ToGate == <<"gate", "sign_as_agent">>
ToSign == <<"sign_as_agent">>

Capped(c) == call[c].cap = SpendCap

Chosen(c) == Capped(c) /\ s.sel.m \in call[c].merchants /\ s.sel.qty = 1

\* A copy of a checkout at a merchant the user allows, which is the one it was opened at.
AllowedCopy(c, co) ==
  co.id \in Ids /\ co.m \in call[c].merchants /\ store[co.id].m \in call[c].merchants

Opened(c, co) == Capped(c) /\ AllowedCopy(c, co)

WithinWish(c, co) == Within(Total(co), SpendCap) /\ AllowedCopy(c, co)

\* The checkout the agent signs is the session's.
Captured(c) == WithinWish(c, s.co) /\ call[c].co = s.co

Search(c) == call[c].todo = ToSearch /\ call[c].at \in {"run", "parsed", "offers"}
Authorizes(c) == call[c].todo = ToAuthorize /\ call[c].at \in {"run", "listed"}
Grant(c) == call[c].todo = ToGrant /\ call[c].at \in {"run", "open_checkout", "open_payment"}
Choice(c) ==
  call[c].todo = Shopping /\ (call[c].at = "run" \/ (call[c].at = "accessory" /\ Chosen(c)))
Opens(c) == call[c].todo = ToCreate /\ call[c].at = "run" /\ Chosen(c)
Receives(c) == call[c].todo = ToCreate /\ call[c].at = "checkout" /\ Opened(c, call[c].got)
Holds(c) == call[c].todo = ToHold /\ call[c].at = "run" /\ Opened(c, s.co)
Prepares(c) ==
  call[c].todo = ToPrepare /\ call[c].at \in {"run", "methods", "minted"} /\ WithinWish(c, s.co)
Confirms(c) == call[c].todo = ToConfirm /\ call[c].at = "run" /\ WithinWish(c, s.co)
LateGrant(c) ==
  /\ call[c].todo = ToGrantLate /\ call[c].at \in {"run", "open_checkout", "open_payment"}
  /\ Captured(c)
Asks(c) ==
  call[c].todo = ToGate /\ call[c].at \in {"run", "policy", "approval"} /\ Captured(c)
Signs(c) == call[c].todo = ToSign /\ call[c].at = "run" /\ Captured(c)
Pays(c) ==
  /\ call[c].todo = ToSign /\ call[c].at = "answer"
  /\ ~call[c].attested => WithinWish(c, call[c].got)
Retries(c) == call[c].todo = ToSign /\ call[c].at = "challenge" /\ WithinWish(c, s.co)

Phase(c) ==
  /\ ~call[c].hp
  /\ \/ Search(c) \/ Authorizes(c) \/ Grant(c) \/ Choice(c) \/ Opens(c) \/ Receives(c) \/ Holds(c)
     \/ Prepares(c) \/ Confirms(c) \/ LateGrant(c) \/ Asks(c) \/ Signs(c) \/ Pays(c)
     \/ Retries(c)

Autonomous(c) == call[c].auto /\ Busy(c)

AutoInv == ~overlapped => \A c \in Calls : Autonomous(c) => Phase(c)

\* The plans, routine by routine.
LEMMA PlanHeads ==
  /\ Head(ToSearch) = "intent" /\ Head(ToAuthorize) = "authorize" /\ Head(ToGrant) = "issue"
  /\ Head(Shopping) = "pick"
  /\ Head(ToCreate) = "create" /\ Head(ToHold) = "hold" /\ Head(ToPrepare) = "prepare"
  /\ Head(ToConfirm) = "confirm" /\ Head(ToGrantLate) = "issue" /\ Head(ToGate) = "gate"
  /\ Head(ToSign) = "sign_as_agent"
  BY DEF Shopping, ToSearch, ToAuthorize, ToGrant, ToCreate, ToHold, ToPrepare, ToConfirm, ToGrantLate,
         ToGate, ToSign

LEMMA PlanTails ==
  /\ Tail(ToSearch) = Shopping /\ Tail(ToAuthorize) = ToGrant /\ Tail(ToGrant) = Shopping
  /\ Tail(Shopping) = ToCreate
  /\ Tail(ToCreate) = ToHold /\ Tail(ToHold) = ToPrepare /\ Tail(ToPrepare) = ToConfirm
  /\ Tail(ToConfirm) = <<>> /\ Tail(ToGrantLate) = ToGate /\ Tail(ToGate) = ToSign
  /\ Tail(ToSign) = <<>>
  BY DEF Shopping, ToSearch, ToAuthorize, ToGrant, ToCreate, ToHold, ToPrepare, ToConfirm, ToGrantLate,
         ToGate, ToSign

\* A routine put before the others.
LEMMA Prefixed ==
  ASSUME NEW r \in Routine, NEW todo \in Seq(Routine), NEW more \in Seq(Routine),
         Len(more) = Len(todo) + 1, more[1] = r, \A i \in 1..Len(todo) : more[i + 1] = todo[i]
  PROVE  <<r>> \o todo = more
  <1>. DEFINE new == <<r>> \o todo
  <1>1. /\ new \in Seq(Routine) /\ Len(new) = Len(todo) + 1 /\ new[1] = r /\ Len(todo) \in Nat
        /\ \A i \in 2..Len(new) : new[i] = todo[i - 1]
    OBVIOUS
  <1>. HIDE DEF new
  <1>2. ASSUME NEW i \in 1..Len(new)
        PROVE  new[i] = more[i]
    <2>1. CASE i = 1
      BY <1>1, <2>1
    <2>2. CASE i # 1
      <3>1. i \in 2..Len(new) /\ i - 1 \in 1..Len(todo) /\ (i - 1) + 1 = i
        BY <1>1, <2>2
      <3>. QED BY <1>1, <3>1
    <2>. QED BY <2>1, <2>2
  <1>3. new = more
    BY <1>1, <1>2, SeqEqual
  <1>. QED BY <1>3 DEF new

LEMMA PlanStarts ==
  /\ <<"intent">> \o Shopping = ToSearch /\ <<"authorize", "issue">> \o Shopping = ToAuthorize
  /\ <<"issue">> \o Shopping = ToGrant /\ <<>> \o Shopping = Shopping
  /\ (<<"issue">> \o <<"gate", "sign_as_agent">>) \o <<>> = ToGrantLate
  /\ (<<>> \o <<"gate", "sign_as_agent">>) \o <<>> = ToGate
  <1>1. /\ Shopping \in Seq(Routine) /\ ToSearch \in Seq(Routine) /\ ToGrant \in Seq(Routine)
        /\ ToAuthorize \in Seq(Routine) /\ ToGate \in Seq(Routine) /\ ToGrantLate \in Seq(Routine)
        /\ "intent" \in Routine /\ "issue" \in Routine /\ "authorize" \in Routine
    BY DEF Shopping, ToSearch, ToAuthorize, ToGrant, ToGate, ToGrantLate, Routine
  <1>2. /\ Len(ToSearch) = Len(Shopping) + 1 /\ Len(ToGrant) = Len(Shopping) + 1
        /\ Len(ToGrantLate) = Len(ToGate) + 1 /\ Len(ToAuthorize) = Len(ToGrant) + 1
        /\ ToSearch[1] = "intent" /\ ToGrant[1] = "issue" /\ ToGrantLate[1] = "issue"
        /\ ToAuthorize[1] = "authorize"
    BY DEF Shopping, ToSearch, ToAuthorize, ToGrant, ToGate, ToGrantLate
  <1>3. /\ \A i \in 1..Len(Shopping) : ToSearch[i + 1] = Shopping[i]
        /\ \A i \in 1..Len(Shopping) : ToGrant[i + 1] = Shopping[i]
        /\ \A i \in 1..Len(ToGate) : ToGrantLate[i + 1] = ToGate[i]
        /\ \A i \in 1..Len(ToGrant) : ToAuthorize[i + 1] = ToGrant[i]
    BY DEF Shopping, ToSearch, ToAuthorize, ToGrant, ToGate, ToGrantLate
  <1>4. <<"intent">> \o Shopping = ToSearch
    BY <1>1, <1>2, <1>3, Prefixed, Zenon
  <1>5. <<"issue">> \o Shopping = ToGrant
    BY <1>1, <1>2, <1>3, Prefixed, Zenon
  <1>6. <<"issue">> \o ToGate = ToGrantLate
    BY <1>1, <1>2, <1>3, Prefixed, Zenon
  <1>7. \A t \in Seq(Routine) : t \o <<>> = t /\ <<>> \o t = t
    BY ConcatEmptySeq
  <1>8. <<"authorize">> \o ToGrant = ToAuthorize
    BY <1>1, <1>2, <1>3, Prefixed, Zenon
  <1>9. <<"authorize", "issue">> \o Shopping = ToAuthorize
    <2>. DEFINE one == <<"issue">>
                two == <<"authorize", "issue">>
    <2>1. /\ <<"authorize">> \in Seq(Routine) /\ one \in Seq(Routine) /\ two \in Seq(Routine)
          /\ Len(two) = Len(one) + 1 /\ two[1] = "authorize"
          /\ \A i \in 1..Len(one) : two[i + 1] = one[i]
      BY DEF Routine
    <2>2. <<"authorize">> \o one = two
      BY <1>1, <2>1, Prefixed, Zenon
    <2>3. (<<"authorize">> \o one) \o Shopping = <<"authorize">> \o (one \o Shopping)
      BY <1>1, <2>1, ConcatAssociative
    <2>. QED BY <1>5, <1>8, <2>2, <2>3, Zenon
  <1>. QED BY <1>1, <1>4, <1>5, <1>6, <1>7, <1>9 DEF ToGate

\* The arguments of the request, which no step of the handler changes.
Kept(c) ==
  /\ call'[c].hp = call[c].hp /\ call'[c].merchants = call[c].merchants
  /\ call'[c].auto = call[c].auto

\* What the handler captured stays as well.
KeptAll(c) ==
  Kept(c) /\ call'[c].cap = call[c].cap /\ call'[c].co = call[c].co
  /\ call'[c].attested = call[c].attested

Moves(c) == \E cl : Becomes(c, cl)

Ends(c) == Moves(c) /\ call'[c] = Idle

\* How a handler looks after a step.
LEMMA HandlerAfter ==
  ASSUME CallsInv, NEW c \in Calls
  PROVE  /\ \A at, got : AwaitNow(c, at, got) =>
              /\ Moves(c) /\ KeptAll(c) /\ call'[c].todo = call[c].todo
              /\ call'[c].at = at /\ call'[c].got = got
         /\ \A todo : Becomes(c, After(call[c], todo)) =>
              \/ todo = <<>> /\ Ends(c)
              \/ Moves(c) /\ KeptAll(c) /\ call'[c].todo = todo /\ call'[c].at = "run"
         /\ Throw(c) => Ends(c)
  <1>1. DOMAIN call[c] = CallFields /\ DOMAIN call = Calls
    BY DEF CallsInv, CallOK
  <1>2. ASSUME NEW at, NEW got, AwaitNow(c, at, got)
        PROVE  /\ Moves(c) /\ KeptAll(c) /\ call'[c].todo = call[c].todo
               /\ call'[c].at = at /\ call'[c].got = got
    <2>. DEFINE cl == [call[c] EXCEPT !.at = at, !.got = got]
    <2>1. /\ cl.hp = call[c].hp /\ cl.merchants = call[c].merchants /\ cl.auto = call[c].auto
          /\ cl.cap = call[c].cap /\ cl.co = call[c].co /\ cl.attested = call[c].attested
          /\ cl.todo = call[c].todo /\ cl.at = at /\ cl.got = got
      BY <1>1 DEF CallFields
    <2>2. Becomes(c, cl)
      BY <1>2 DEF AwaitNow
    <2>. HIDE DEF cl
    <2>3. call'[c] = cl /\ Moves(c)
      BY <1>1, <2>2 DEF Becomes, Moves
    <2>. QED BY <2>1, <2>3 DEF KeptAll, Kept
  <1>3. ASSUME NEW todo, Becomes(c, After(call[c], todo))
        PROVE  \/ todo = <<>> /\ Ends(c)
               \/ Moves(c) /\ KeptAll(c) /\ call'[c].todo = todo /\ call'[c].at = "run"
    <2>1. call'[c] = After(call[c], todo) /\ Moves(c)
      BY <1>1, <1>3 DEF Becomes, Moves
    <2>2. CASE todo = <<>>
      BY <2>1, <2>2 DEF After, Ends
    <2>3. CASE todo # <<>>
      <3>. DEFINE cl == [call[c] EXCEPT !.todo = todo, !.at = "run", !.got = None]
      <3>1. /\ cl.hp = call[c].hp /\ cl.merchants = call[c].merchants /\ cl.auto = call[c].auto
            /\ cl.cap = call[c].cap /\ cl.co = call[c].co /\ cl.attested = call[c].attested
            /\ cl.todo = todo /\ cl.at = "run"
        BY <1>1 DEF CallFields
      <3>2. call'[c] = cl
        BY <2>1, <2>3 DEF After
      <3>. HIDE DEF cl
      <3>. QED BY <2>1, <3>1, <3>2 DEF KeptAll, Kept
    <2>. QED BY <2>2, <2>3
  <1>4. Throw(c) => Ends(c)
    BY <1>1 DEF Throw, Becomes, Moves, Ends
  <1>. QED BY <1>2, <1>3, <1>4

\* A step of the handler keeps the invariant if an autonomous run goes to its next phase.
LEMMA AutoStep ==
  ASSUME AutoInv, CopyInv, CallsInv, NEW c \in Calls, Busy(c), Moves(c),
         overlapped' = overlapped, call'[c] = Idle \/ call'[c].auto = call[c].auto,
         (~overlapped /\ Autonomous(c) /\ Phase(c)) => call'[c] = Idle \/ Phase(c)'
  PROVE  AutoInv'
  <1>1. PICK cl : Becomes(c, cl)
    BY DEF Moves
  <1>2. /\ \A d \in Calls : d # c => call'[d] = call[d]
        /\ ~overlapped => \A d \in Calls : d # c => ~Busy(d)
    BY <1>1, OnlyOne
  <1>3. ~overlapped => \A d \in Calls : d # c => ~Autonomous(d)'
    BY <1>2 DEF Autonomous, Busy
  <1>4. call'[c] = Idle => ~Autonomous(c)'
    BY DEF Autonomous, Busy, Idle
  <1>5. (~overlapped /\ Autonomous(c)') => Phase(c)'
    BY <1>4 DEF Autonomous, AutoInv
  <1>. QED BY <1>3, <1>5 DEF AutoInv

\* The phase of an autonomous run that stands at a routine or at an answer.
LEMMA AtRoutine ==
  ASSUME NEW c \in Calls, Phase(c)
  PROVE  /\ Runs(c, "intent") => Search(c)
         /\ Runs(c, "authorize") => Authorizes(c)
         /\ Runs(c, "issue") => Grant(c) \/ LateGrant(c)
         /\ Runs(c, "pick") => Choice(c)
         /\ Runs(c, "create") => Opens(c)
         /\ Runs(c, "hold") => Holds(c)
         /\ Runs(c, "prepare") => Prepares(c)
         /\ Runs(c, "confirm") => Confirms(c)
         /\ Runs(c, "gate") => Asks(c)
         /\ Runs(c, "sign_as_agent") => Signs(c)
         /\ \A r \in {"select", "update", "ask", "sign", "resolve"} : ~Runs(c, r)
  BY PlanHeads DEF Phase, Runs, Search, Authorizes, Grant, Choice, Opens, Receives, Holds, Prepares,
                   Confirms, LateGrant, Asks, Signs, Pays, Retries

LEMMA AtAnswer ==
  ASSUME NEW c \in Calls, Phase(c)
  PROVE  /\ call[c].at \in {"parsed", "offers"} => Search(c)
         /\ call[c].at = "listed" => Authorizes(c)
         /\ call[c].at \in {"open_checkout", "open_payment"} => Grant(c) \/ LateGrant(c)
         /\ call[c].at = "accessory" => Choice(c)
         /\ call[c].at = "checkout" => Receives(c)
         /\ call[c].at \in {"methods", "minted"} => Prepares(c)
         /\ call[c].at \in {"policy", "approval"} => Asks(c)
         /\ call[c].at = "answer" => Pays(c)
         /\ call[c].at = "challenge" => Retries(c)
         /\ call[c].at \notin {"mandate", "payment"}
  BY DEF Phase, Search, Authorizes, Grant, Choice, Opens, Receives, Holds, Prepares, Confirms,
         LateGrant, Asks, Signs, Pays, Retries
-----------------------------------------------------------------------------
(***************************************************************************)
(* From phase to phase.                                                    *)
(***************************************************************************)
LEMMA SearchSteps ==
  ASSUME AutoInv, CopyInv, CallsInv, SessionInv, NEW c \in Calls,
         RunIntent(c) \/ Parsed(c) \/ Found(c)
  PROVE  AutoInv'
  <1>1. Busy(c) /\ overlapped' = overlapped
    BY DEF RunIntent, Parsed, Found, Runs, Awaits, history
  <1>2. CASE RunIntent(c) \/ Parsed(c)
    <2>1. /\ Moves(c) /\ KeptAll(c) /\ call'[c].todo = call[c].todo
          /\ call'[c].at \in {"parsed", "offers"}
      BY <1>2, HandlerAfter DEF RunIntent, Parsed
    <2>2. Phase(c) => Search(c)
      BY <1>2, AtRoutine, AtAnswer DEF RunIntent, Parsed, Awaits
    <2>3. Phase(c) => Phase(c)'
      BY <2>1, <2>2 DEF Phase, Search, KeptAll, Kept
    <2>. QED BY <1>1, <2>1, <2>3, AutoStep DEF KeptAll, Kept
  <1>3. CASE Found(c)
    <2>. DEFINE issue == IF ~s.hp /\ ~call[c].defer THEN <<"issue">> ELSE <<>>
                todo == issue \o Tail(call[c].todo)
    <2>1. \/ todo = <<>> /\ Ends(c)
          \/ Moves(c) /\ KeptAll(c) /\ call'[c].todo = todo /\ call'[c].at = "run"
      <3>1. Becomes(c, After(call[c], todo))
        BY <1>3 DEF Found
      <3>. HIDE DEF todo
      <3>. QED BY <3>1, HandlerAfter
    <2>2. Phase(c) => Search(c)
      BY <1>3, AtAnswer DEF Found, Awaits
    <2>3. Search(c) => todo \in {Shopping, ToGrant}
      BY PlanTails, PlanStarts DEF Search
    <2>. HIDE DEF todo
    <2>4. Phase(c) => Phase(c)' \/ call'[c] = Idle
      BY <2>1, <2>2, <2>3 DEF Phase, Grant, Choice, KeptAll, Kept, Ends
    <2>. QED BY <1>1, <2>1, <2>4, AutoStep DEF KeptAll, Kept, Ends
  <1>. QED BY <1>2, <1>3

LEMMA AuthorizeAuto ==
  ASSUME AutoInv, CopyInv, CallsInv, SessionInv, NEW c \in Calls, Authorize(c) \/ Listed(c)
  PROVE  AutoInv'
  <1>1. /\ Busy(c) /\ overlapped' = overlapped
        /\ DOMAIN call[c] = CallFields /\ DOMAIN call = Calls
    BY DEF Authorize, Listed, Runs, Awaits, history, CallsInv, CallOK
  <1>2. Phase(c) => Authorizes(c)
    BY AtRoutine, AtAnswer DEF Authorize, Listed, Awaits
  <1>3. CASE Authorize(c)
    <2>. DEFINE chosen == IF s.found = None THEN {} ELSE call[c].merchants
                cl == [call[c] EXCEPT !.at = "listed", !.merchants = chosen]
    <2>1. Becomes(c, cl)
      BY <1>1, <1>3 DEF Authorize, CallFields
    <2>2. /\ cl.hp = call[c].hp /\ cl.auto = call[c].auto /\ cl.todo = call[c].todo
          /\ cl.at = "listed"
      BY <1>1 DEF CallFields
    <2>. HIDE DEF cl
    <2>3. call'[c] = cl /\ Moves(c)
      BY <1>1, <2>1 DEF Becomes, Moves
    <2>4. Phase(c) => Phase(c)'
      BY <1>2, <2>2, <2>3 DEF Phase, Authorizes
    <2>. QED BY <1>1, <2>2, <2>3, <2>4, AutoStep
  <1>4. CASE Listed(c)
    <2>1. \/ Ends(c)
          \/ /\ Moves(c) /\ KeptAll(c) /\ call'[c].todo = Tail(call[c].todo)
             /\ call'[c].at = "run"
      BY <1>4, HandlerAfter DEF Listed, Return
    <2>2. Phase(c) => Phase(c)' \/ call'[c] = Idle
      BY <1>2, <2>1, PlanTails DEF Phase, Authorizes, Grant, KeptAll, Kept, Ends
    <2>. QED BY <1>1, <2>1, <2>2, AutoStep DEF KeptAll, Kept, Ends
  <1>. QED BY <1>3, <1>4

\* A step that leaves the session's checkout, its number and the checkouts alone.
LEMMA CapturedStays ==
  ASSUME NEW c \in Calls, Kept(c), s'.wish = s.wish, store' = store, NEW co
  PROVE  /\ AllowedCopy(c, co) <=> AllowedCopy(c, co)'
         /\ WithinWish(c, co) <=> WithinWish(c, co)'
         /\ (s'.co = s.co /\ call'[c].co = call[c].co) => (Captured(c) <=> Captured(c)')
  BY DEF Kept, AllowedCopy, WithinWish, Within, SpendCap, Captured, Total

LEMMA GrantSteps ==
  ASSUME AutoInv, CopyInv, CallsInv, SessionInv, NEW c \in Calls,
         IssueOpenMandates(c) \/ OpenCheckout(c) \/ OpenPayment(c)
  PROVE  AutoInv'
  <1>1. /\ Busy(c) /\ overlapped' = overlapped /\ store' = store
        /\ DOMAIN call[c] = CallFields /\ DOMAIN call = Calls /\ DOMAIN s = SessionFields
    BY DEF IssueOpenMandates, OpenCheckout, OpenPayment, Runs, Awaits, history, servers,
           SessionInv, CallsInv, CallOK
  <1>2. s'.co = s.co /\ s'.wish = s.wish
    BY <1>1 DEF IssueOpenMandates, OpenCheckout, OpenPayment, SessionFields
  <1>3. Phase(c) => Grant(c) \/ LateGrant(c)
    BY AtRoutine, AtAnswer DEF IssueOpenMandates, OpenCheckout, OpenPayment, Awaits
  <1>4. CASE IssueOpenMandates(c) \/ OpenCheckout(c)
    <2>1. \/ Ends(c)
          \/ /\ Moves(c) /\ Kept(c) /\ call'[c].co = call[c].co
             /\ call'[c].todo = call[c].todo
             /\ call'[c].at \in {"open_checkout", "open_payment"}
      <3>1. ASSUME NEW cap, NEW got,
                   Becomes(c, [call[c] EXCEPT !.at = "open_checkout", !.cap = cap, !.got = got])
            PROVE  /\ Moves(c) /\ Kept(c) /\ call'[c].co = call[c].co
                   /\ call'[c].todo = call[c].todo /\ call'[c].at = "open_checkout"
        <4>. DEFINE cl == [call[c] EXCEPT !.at = "open_checkout", !.cap = cap, !.got = got]
        <4>1. /\ cl.hp = call[c].hp /\ cl.merchants = call[c].merchants /\ cl.auto = call[c].auto
              /\ cl.co = call[c].co /\ cl.todo = call[c].todo /\ cl.at = "open_checkout"
          BY <1>1 DEF CallFields
        <4>. HIDE DEF cl
        <4>2. call'[c] = cl /\ Moves(c)
          BY <1>1, <3>1 DEF cl, Becomes, Moves
        <4>. QED BY <4>1, <4>2 DEF Kept
      <3>2. CASE IssueOpenMandates(c)
        <4>1. \/ Throw(c)
              \/ \E cap, got :
                   Becomes(c, [call[c] EXCEPT !.at = "open_checkout", !.cap = cap, !.got = got])
          BY <3>2, Zenon DEF IssueOpenMandates
        <4>. QED BY <3>1, <4>1, HandlerAfter
      <3>3. CASE OpenCheckout(c)
        <4>. DEFINE cl == [call[c] EXCEPT !.at = "open_payment"]
        <4>1. /\ cl.hp = call[c].hp /\ cl.merchants = call[c].merchants /\ cl.auto = call[c].auto
              /\ cl.co = call[c].co /\ cl.todo = call[c].todo /\ cl.at = "open_payment"
          BY <1>1 DEF CallFields
        <4>2. Throw(c) \/ Becomes(c, cl)
          BY <3>3 DEF OpenCheckout
        <4>. HIDE DEF cl
        <4>. SUFFICES ASSUME Becomes(c, cl)
                      PROVE  /\ Moves(c) /\ Kept(c) /\ call'[c].co = call[c].co
                             /\ call'[c].todo = call[c].todo /\ call'[c].at = "open_payment"
          BY <4>2, HandlerAfter
        <4>3. call'[c] = cl /\ Moves(c)
          BY <1>1, <4>2 DEF Becomes, Moves
        <4>. QED BY <4>1, <4>3 DEF Kept
      <3>. QED BY <1>4, <3>2, <3>3
    <2>2. Phase(c) => Phase(c)' \/ call'[c] = Idle
      BY <1>1, <1>2, <1>3, <2>1, CapturedStays DEF Phase, Grant, LateGrant, Kept, Ends
    <2>. QED BY <1>1, <2>1, <2>2, AutoStep DEF Kept, Ends
  <1>5. CASE OpenPayment(c)
    <2>1. \/ Ends(c)
          \/ /\ Moves(c) /\ KeptAll(c) /\ call'[c].todo = Tail(call[c].todo)
             /\ call'[c].at = "run"
      BY <1>5, HandlerAfter DEF OpenPayment, Return
    <2>2. Phase(c) => Phase(c)' \/ call'[c] = Idle
      <3>1. Grant(c) /\ ~Ends(c) => Choice(c)'
        BY <2>1, PlanTails DEF Grant, Choice
      <3>2. LateGrant(c) /\ ~Ends(c) => Asks(c)'
        BY <1>1, <1>2, <2>1, PlanTails, CapturedStays DEF LateGrant, Asks, KeptAll
      <3>. QED BY <1>3, <2>1, <3>1, <3>2 DEF Phase, KeptAll, Kept, Ends
    <2>. QED BY <1>1, <2>1, <2>2, AutoStep DEF KeptAll, Kept, Ends
  <1>. QED BY <1>4, <1>5

LEMMA ChoiceSteps ==
  ASSUME AutoInv, CopyInv, CallsInv, SessionInv, NEW c \in Calls,
         Pick(c) \/ Select(c) \/ Accessory(c)
  PROVE  AutoInv'
  <1>1. /\ Busy(c) /\ overlapped' = overlapped
        /\ DOMAIN call[c] = CallFields /\ DOMAIN call = Calls /\ DOMAIN s = SessionFields
    BY DEF Pick, Select, Accessory, Runs, Awaits, history, SessionInv, CallsInv, CallOK
  <1>2. CASE Pick(c)
    <2>1. ASSUME Becomes(c, [call[c] EXCEPT !.at = "accessory", !.cap = SpendCap])
          PROVE  /\ Moves(c) /\ Kept(c) /\ call'[c].cap = SpendCap
                 /\ call'[c].todo = call[c].todo /\ call'[c].at = "accessory"
      <3>. DEFINE cl == [call[c] EXCEPT !.at = "accessory", !.cap = SpendCap]
      <3>1. /\ cl.hp = call[c].hp /\ cl.merchants = call[c].merchants /\ cl.auto = call[c].auto
            /\ cl.cap = SpendCap /\ cl.todo = call[c].todo /\ cl.at = "accessory"
        BY <1>1 DEF CallFields
      <3>. HIDE DEF cl
      <3>2. call'[c] = cl /\ Moves(c)
        BY <1>1, <2>1 DEF cl, Becomes, Moves
      <3>. QED BY <3>1, <3>2 DEF Kept
    <2>2. Phase(c) => Choice(c)
      BY <1>2, AtRoutine DEF Pick
    <2>3. CASE Throw(c)
      BY <1>1, <2>3, HandlerAfter, AutoStep DEF Ends
    <2>4. CASE ~Throw(c)
      <3>1. PICK m \in call[c].merchants : Fits(m) /\ s' = [s EXCEPT !.sel = [m |-> m, qty |-> 1]]
        BY <1>2, <2>4 DEF Pick
      <3>2. s'.sel.m = m /\ s'.sel.qty = 1 /\ s'.wish = s.wish
        BY <1>1, <3>1 DEF SessionFields
      <3>3. Becomes(c, [call[c] EXCEPT !.at = "accessory", !.cap = SpendCap])
        BY <1>2, <2>4 DEF Pick
      <3>4. Choice(c) => Choice(c)'
        BY <2>1, <3>1, <3>2, <3>3 DEF Choice, Chosen, Capped, SpendCap, Kept
      <3>. QED BY <1>1, <2>1, <2>2, <3>3, <3>4, AutoStep DEF Phase, Kept
    <2>. QED BY <2>3, <2>4
  <1>3. CASE Select(c)
    <2>1. Moves(c) /\ KeptAll(c) /\ ~Phase(c)
      BY <1>3, HandlerAfter, AtRoutine DEF Select
    <2>. QED BY <1>1, <2>1, AutoStep DEF KeptAll, Kept
  <1>4. CASE Accessory(c)
    <2>1. \/ Ends(c)
          \/ /\ Moves(c) /\ KeptAll(c) /\ call'[c].todo = Tail(call[c].todo)
             /\ call'[c].at = "run"
      BY <1>4, HandlerAfter DEF Accessory, Return
    <2>2. Phase(c) => Choice(c) /\ call[c].at = "accessory"
      BY <1>4, AtAnswer DEF Accessory, Awaits
    <2>3. Phase(c) => Phase(c)' \/ call'[c] = Idle
      BY <1>4, <2>1, <2>2, PlanTails DEF Accessory, Phase, Choice, Opens, Chosen, Capped, SpendCap,
                                        KeptAll, Kept, Ends
    <2>. QED BY <1>1, <2>1, <2>3, AutoStep DEF KeptAll, Kept, Ends
  <1>. QED BY <1>2, <1>3, <1>4
\* A checkout is opened for the selection, at whatever price the merchant has by now.
LEMMA CreateAuto ==
  ASSUME AutoInv, CopyInv, CallsInv, ServersInv, NEW c \in Calls, Create(c)
  PROVE  AutoInv'
  <1>1. Busy(c) /\ overlapped' = overlapped /\ s' = s /\ DOMAIN store = Ids
    BY DEF Create, Runs, history, ServersInv
  <1>2. CASE Throw(c)
    BY <1>1, <1>2, HandlerAfter, AutoStep DEF Ends
  <1>3. CASE ~Throw(c)
    <2>. DEFINE opened(p) == [m |-> s.sel.m, qty |-> s.sel.qty, price |-> p, extra |-> 0,
                              st |-> "open"]
    <2>1. PICK id \in Ids, p \in Prices :
             /\ store' = [store EXCEPT ![id] = opened(p)]
             /\ AwaitNow(c, "checkout", Copy(id, opened(p)))
      BY <1>3, Zenon DEF Create
    <2>2. /\ Moves(c) /\ KeptAll(c) /\ call'[c].todo = call[c].todo
          /\ call'[c].at = "checkout" /\ call'[c].got = Copy(id, opened(p))
      BY <2>1, HandlerAfter
    <2>3. /\ call'[c].got.id = id /\ call'[c].got.m = s.sel.m /\ store'[id].m = s.sel.m
      BY <1>1, <2>1, <2>2 DEF Copy
    <2>4. Phase(c) => Opens(c)
      BY AtRoutine DEF Create
    <2>5. Opens(c) => Receives(c)'
      BY <1>1, <2>2, <2>3 DEF Opens, Receives, Opened, AllowedCopy, Chosen, Capped, SpendCap,
                              KeptAll, Kept
    <2>. QED BY <1>1, <2>2, <2>4, <2>5, AutoStep DEF Phase, KeptAll, Kept
  <1>. QED BY <1>2, <1>3

\* No autonomous run changes its checkout.
LEMMA UpdateAuto ==
  ASSUME AutoInv, CopyInv, CallsInv, NEW c \in Calls, Update(c)
  PROVE  AutoInv'
  <1>1. Busy(c) /\ overlapped' = overlapped /\ ~Phase(c)
    BY AtRoutine DEF Update, Runs, history
  <1>2. \/ Ends(c)
        \/ Moves(c) /\ KeptAll(c)
    BY HandlerAfter DEF Update
  <1>. QED BY <1>1, <1>2, AutoStep DEF Ends, KeptAll, Kept

LEMMA TakeAuto ==
  ASSUME AutoInv, CopyInv, CallsInv, SessionInv, NEW c \in Calls, TakeCopy(c)
  PROVE  AutoInv'
  <1>1. /\ Busy(c) /\ overlapped' = overlapped /\ store' = store
        /\ s'.co = call[c].got /\ s'.wish = s.wish
    BY DEF TakeCopy, Awaits, history, servers, SessionInv, SessionFields
  <1>2. \/ Ends(c)
        \/ /\ Moves(c) /\ KeptAll(c) /\ call'[c].todo = Tail(call[c].todo)
           /\ call'[c].at = "run"
    BY HandlerAfter DEF TakeCopy, Return
  <1>3. Phase(c) => Receives(c)
    BY AtAnswer DEF TakeCopy, Awaits
  <1>4. Receives(c) /\ ~Ends(c) => Holds(c)'
    BY <1>1, <1>2, PlanTails DEF Receives, Holds, Opened, AllowedCopy, Capped, SpendCap, KeptAll,
                                     Kept
  <1>. QED BY <1>1, <1>2, <1>3, <1>4, AutoStep DEF Phase, Ends, KeptAll, Kept

\* The hold: the run goes on only below the user's number.
LEMMA HoldAuto ==
  ASSUME AutoInv, CopyInv, CallsInv, NEW c \in Calls, Hold(c)
  PROVE  AutoInv'
  <1>1. Busy(c) /\ overlapped' = overlapped /\ s' = s /\ store' = store
    BY DEF Hold, Runs, history, servers
  <1>2. Phase(c) => Holds(c)
    BY AtRoutine DEF Hold
  <1>3. CASE Throw(c)
    BY <1>1, <1>3, HandlerAfter, AutoStep DEF Ends
  <1>4. CASE ~Throw(c)
    <2>1. Within(Total(s.co), call[c].cap) /\ Return(c)
      BY <1>4 DEF Hold
    <2>2. \/ Ends(c)
          \/ /\ Moves(c) /\ KeptAll(c) /\ call'[c].todo = Tail(call[c].todo)
             /\ call'[c].at = "run"
      BY <2>1, HandlerAfter DEF Return
    <2>3. Holds(c) => WithinWish(c, s.co)
      BY <2>1 DEF Holds, Opened, Capped, WithinWish
    <2>4. (Holds(c) /\ ~Ends(c)) => WithinWish(c, s.co)'
      BY <1>1, <2>2, <2>3, CapturedStays DEF KeptAll
    <2>5. Holds(c) /\ ~Ends(c) => Prepares(c)'
      BY <2>2, <2>4, PlanTails DEF Holds, Prepares
    <2>. QED BY <1>1, <1>2, <2>2, <2>5, AutoStep DEF Phase, Ends, KeptAll, Kept
  <1>. QED BY <1>3, <1>4

LEMMA TokenAuto ==
  ASSUME AutoInv, CopyInv, CallsInv, SessionInv, NEW c \in Calls,
         PreparePayment(c) \/ MintInstrument(c) \/ Minted(c)
  PROVE  AutoInv'
  <1>1. /\ Busy(c) /\ overlapped' = overlapped /\ store' = store
        /\ s'.co = s.co /\ s'.wish = s.wish
    BY DEF PreparePayment, MintInstrument, Minted, Runs, Awaits, history, servers, SessionInv,
           SessionFields
  <1>2. Phase(c) => Prepares(c)
    BY AtRoutine, AtAnswer DEF PreparePayment, MintInstrument, Minted, Awaits
  <1>3. CASE PreparePayment(c) \/ MintInstrument(c)
    <2>1. \/ Ends(c)
          \/ /\ Moves(c) /\ KeptAll(c) /\ call'[c].todo = call[c].todo
             /\ call'[c].at \in {"methods", "minted"}
      <3>1. CASE PreparePayment(c)
        BY <3>1, HandlerAfter DEF PreparePayment
      <3>2. CASE MintInstrument(c)
        <4>1. Throw(c) \/ \E got : AwaitNow(c, "minted", got)
          BY <3>2, Zenon DEF MintInstrument
        <4>. QED BY <4>1, HandlerAfter
      <3>. QED BY <1>3, <3>1, <3>2
    <2>2. Prepares(c) /\ ~Ends(c) => Prepares(c)'
      BY <1>1, <2>1, CapturedStays DEF Prepares, KeptAll
    <2>. QED BY <1>1, <1>2, <2>1, <2>2, AutoStep DEF Phase, Ends, KeptAll, Kept
  <1>4. CASE Minted(c)
    <2>1. \/ Ends(c)
          \/ /\ Moves(c) /\ KeptAll(c) /\ call'[c].todo = Tail(call[c].todo)
             /\ call'[c].at = "run"
      BY <1>4, HandlerAfter DEF Minted, Return
    <2>2. Prepares(c) /\ ~Ends(c) => Confirms(c)'
      BY <1>1, <2>1, PlanTails, CapturedStays DEF Prepares, Confirms, KeptAll
    <2>. QED BY <1>1, <1>2, <2>1, <2>2, AutoStep DEF Phase, Ends, KeptAll, Kept
  <1>. QED BY <1>3, <1>4

\* The checkout that is captured is the one the hold was about.
LEMMA ConfirmAuto ==
  ASSUME AutoInv, CopyInv, CallsInv, SessionInv, NEW c \in Calls, ConfirmAndPay(c)
  PROVE  AutoInv'
  <1>1. /\ Busy(c) /\ overlapped' = overlapped /\ store' = store /\ call[c].at = "run"
        /\ s'.co = s.co /\ s'.wish = s.wish /\ DOMAIN call[c] = CallFields /\ DOMAIN call = Calls
    BY DEF ConfirmAndPay, Runs, history, servers, SessionInv, SessionFields, CallsInv, CallOK
  <1>2. CASE Throw(c)
    BY <1>1, <1>2, HandlerAfter, AutoStep DEF Ends
  <1>3. CASE ~Throw(c)
    <2>. DEFINE late == ~call[c].hp /\ s.openC = None
                todo == (IF late THEN <<"issue">> ELSE <<>>)
                        \o (IF call[c].hp THEN <<"sign">> ELSE <<"gate", "sign_as_agent">>)
                        \o Tail(call[c].todo)
                cl == [call[c] EXCEPT !.co = s.co, !.cap = s.wish, !.since = Len(policies),
                                     !.todo = todo]
    <2>1. Becomes(c, cl)
      BY <1>3 DEF ConfirmAndPay
    <2>2. Confirms(c) /\ ~call[c].hp => todo \in {ToGrantLate, ToGate}
      BY PlanTails, PlanStarts DEF Confirms
    <2>. HIDE DEF todo
    <2>3. /\ cl.hp = call[c].hp /\ cl.merchants = call[c].merchants /\ cl.auto = call[c].auto
          /\ cl.co = s.co /\ cl.todo = todo /\ cl.at = "run"
      BY <1>1 DEF CallFields
    <2>. HIDE DEF cl
    <2>4. call'[c] = cl /\ Moves(c) /\ Kept(c)
      BY <1>1, <2>1, <2>3 DEF Becomes, Moves, Kept
    <2>5. Confirms(c) => Captured(c)'
      BY <1>1, <2>3, <2>4, CapturedStays DEF Confirms, Captured
    <2>6. Confirms(c) /\ ~call[c].hp => LateGrant(c)' \/ Asks(c)'
      BY <2>2, <2>3, <2>4, <2>5 DEF LateGrant, Asks
    <2>7. Phase(c) => Confirms(c) /\ ~call[c].hp
      BY AtRoutine DEF ConfirmAndPay, Phase
    <2>8. Phase(c) => Phase(c)'
      BY <2>4, <2>6, <2>7 DEF Phase, Kept
    <2>. QED BY <1>1, <2>4, <2>8, AutoStep DEF Kept
  <1>. QED BY <1>2, <1>3

\* Whatever the gate reads, the captured checkout stays the session's.
LEMMA GateAuto ==
  ASSUME AutoInv, CopyInv, CallsInv, NEW c \in Calls,
         Gate(c) \/ ReadPolicy(c) \/ ReadApproval(c) \/ RequestApproval(c)
  PROVE  AutoInv'
  <1>1. Busy(c) /\ overlapped' = overlapped /\ s' = s /\ store' = store
    BY DEF Gate, ReadPolicy, ReadApproval, RequestApproval, Runs, Awaits, history, servers
  <1>2. CASE Throw(c)
    BY <1>1, <1>2, HandlerAfter, AutoStep DEF Ends
  <1>3. CASE ~Throw(c)
    <2>1. Gate(c) \/ ReadPolicy(c) \/ ReadApproval(c)
      BY <1>3 DEF RequestApproval
    <2>2. Phase(c) => Asks(c)
      BY <2>1, AtRoutine, AtAnswer DEF Gate, ReadPolicy, ReadApproval, Awaits
    <2>3. CASE Return(c) /\ ~Gate(c)
      <3>1. \/ Ends(c)
            \/ /\ Moves(c) /\ KeptAll(c) /\ call'[c].todo = Tail(call[c].todo)
               /\ call'[c].at = "run"
        BY <2>3, HandlerAfter DEF Return
      <3>2. Asks(c) /\ ~Ends(c) => Signs(c)'
        BY <1>1, <3>1, PlanTails, CapturedStays DEF Asks, Signs, KeptAll
      <3>. QED BY <1>1, <2>2, <3>1, <3>2, AutoStep DEF Phase, Ends, KeptAll, Kept
    <2>4. ASSUME NEW at \in {"policy", "approval"}, NEW got, AwaitNow(c, at, got)
          PROVE  AutoInv'
      <3>1. Moves(c) /\ KeptAll(c) /\ call'[c].todo = call[c].todo /\ call'[c].at = at
        BY <2>4, HandlerAfter
      <3>2. Asks(c) => Asks(c)'
        BY <1>1, <3>1, CapturedStays DEF Asks, KeptAll
      <3>. QED BY <1>1, <2>2, <3>1, <3>2, AutoStep DEF Phase, KeptAll, Kept
    <2>5. \/ Return(c) /\ ~Gate(c)
          \/ \E at \in {"policy", "approval"} : \E got : AwaitNow(c, at, got)
      BY <2>1 DEF Gate, ReadPolicy, ReadApproval, Runs, Awaits
    <2>. QED BY <2>3, <2>4, <2>5
  <1>. QED BY <1>2, <1>3

\* complete_checkout is answered for the checkout whose signed total the verifiers found
\* to be the live one.
LEMMA SubmitAuto ==
  ASSUME AutoInv, CopyInv, CallsInv, ServersInv, NEW c \in Calls, Busy(c), NEW now,
         NEW attested \in BOOLEAN, Submit(c, now, attested),
         now.wish = s.wish, now.co = s.co,
         Phase(c) => call[c].todo = ToSign,
         (Phase(c) /\ ~attested) => WithinWish(c, s.co) /\ now.cm.signed = s.co
  PROVE  AutoInv'
  <1>1. /\ s' = now /\ overlapped' = overlapped /\ DOMAIN call[c] = CallFields
        /\ DOMAIN call = Calls /\ DOMAIN store = Ids
        /\ \A id \in Ids : DOMAIN store[id] = CheckoutFields
    BY DEF Submit, history, CallsInv, CallOK, ServersInv
  <1>2. CASE Throw(c)
    BY <1>1, <1>2, HandlerAfter, AutoStep DEF Ends
  <1>3. CASE ~Throw(c)
    <2>. DEFINE live == store[now.co.id]
                answered(st) == [live EXCEPT !.st = st]
    <2>1. MerchantAccepts(now.co.id, now.cm) /\ Completed(c, now.co.id, attested)
      BY <1>3 DEF Submit, Declined
    <2>2. PICK st \in {"completed", "escalated"} :
             /\ store' = [store EXCEPT ![now.co.id] = answered(st)]
             /\ Becomes(c, [call[c] EXCEPT !.at = "answer", !.attested = attested,
                                           !.got = Copy(now.co.id, answered(st))])
      BY <2>1, Zenon DEF Completed
    <2>. DEFINE got == Copy(now.co.id, answered(st))
                cl == [call[c] EXCEPT !.at = "answer", !.attested = attested, !.got = got]
    <2>3. /\ cl.hp = call[c].hp /\ cl.merchants = call[c].merchants /\ cl.auto = call[c].auto
          /\ cl.attested = attested /\ cl.todo = call[c].todo /\ cl.at = "answer" /\ cl.got = got
      BY <1>1 DEF CallFields
    <2>4. Becomes(c, cl)
      BY <2>2
    <2>. HIDE DEF cl
    <2>5. call'[c] = cl /\ Moves(c) /\ Kept(c)
      BY <1>1, <2>3, <2>4 DEF Becomes, Moves, Kept
    <2>6. ASSUME Phase(c), ~attested
          PROVE  WithinWish(c, call[c].got)'
      <3>1. WithinWish(c, s.co) /\ now.cm.signed = s.co /\ now.co.id \in Ids
        BY <2>6 DEF WithinWish, AllowedCopy
      <3>2. answered(st).m = live.m /\ Total(answered(st)) = Total(live)
        BY <1>1, <3>1 DEF CheckoutFields, Total
      <3>3. got.id = now.co.id /\ got.m = live.m /\ Total(got) = Total(live)
        BY <3>2 DEF Copy, Total
      <3>4. store'[now.co.id].m = live.m
        BY <1>1, <2>2, <3>1, <3>2
      <3>5. Total(live) = Total(s.co)
        BY <2>1, <3>1 DEF MerchantAccepts
      <3>6. call'[c].got = got /\ s'.wish = s.wish
        BY <1>1, <2>3, <2>5
      <3>. HIDE DEF got, live, answered
      <3>7. Within(Total(call'[c].got), SpendCap')
        BY <3>1, <3>3, <3>5, <3>6 DEF WithinWish, SpendCap
      <3>8. /\ call'[c].got.id \in Ids /\ call'[c].got.m \in call'[c].merchants
            /\ store'[call'[c].got.id].m \in call'[c].merchants
        <4>1. live.m \in call[c].merchants
          BY <3>1 DEF WithinWish, AllowedCopy, live
        <4>. QED BY <2>5, <3>1, <3>3, <3>4, <3>6, <4>1 DEF Kept
      <3>. QED BY <3>7, <3>8 DEF WithinWish, Within, AllowedCopy, Total, SpendCap
    <2>7. Phase(c) => Pays(c)'
      BY <2>3, <2>5, <2>6 DEF Pays
    <2>. QED BY <1>1, <2>5, <2>7, AutoStep DEF Phase, Kept
  <1>. QED BY <1>2, <1>3

LEMMA SignAuto ==
  ASSUME AutoInv, CopyInv, CallsInv, ServersInv, SessionInv, NEW c \in Calls,
         \/ Sign(c) \/ CheckoutMandate(c) \/ PaymentMandate(c) \/ SignAsAgent(c)
         \/ ResolveThreeDs(c) \/ Retry(c)
  PROVE  AutoInv'
  <1>1. Busy(c) /\ DOMAIN s = SessionFields
    BY DEF Sign, CheckoutMandate, PaymentMandate, SignAsAgent, ResolveThreeDs, Retry, Runs, Awaits,
           SessionInv
  <1>2. CASE Sign(c) \/ CheckoutMandate(c) \/ ResolveThreeDs(c)
    <2>1. ~Phase(c) /\ overlapped' = overlapped
      BY <1>2, AtRoutine, AtAnswer DEF Sign, CheckoutMandate, ResolveThreeDs, Awaits, history
    <2>2. Ends(c) \/ (Moves(c) /\ KeptAll(c))
      BY <1>2, HandlerAfter DEF Sign, CheckoutMandate, ResolveThreeDs
    <2>. QED BY <1>1, <2>1, <2>2, AutoStep DEF Ends, KeptAll, Kept
  <1>3. CASE PaymentMandate(c)
    <2>. DEFINE now == [s EXCEPT !.pm = [signed |-> call[c].co, open |-> None, window |-> {}]]
    <2>1. now.wish = s.wish /\ now.co = s.co /\ Submit(c, now, FALSE)
      BY <1>1, <1>3 DEF PaymentMandate, SessionFields
    <2>2. ~Phase(c)
      BY <1>3, AtAnswer DEF PaymentMandate, Awaits
    <2>. HIDE DEF now
    <2>. QED BY <1>1, <2>1, <2>2, SubmitAuto
  <1>4. CASE SignAsAgent(c)
    <2>. DEFINE cm == [signed |-> call[c].co, open |-> s.openC]
                pm == [signed |-> call[c].co, open |-> s.openP,
                       window |-> call[c].since..Len(policies)]
                now == [s EXCEPT !.cm = cm, !.pm = pm]
    <2>1. CASE Throw(c) /\ UNCHANGED history
      BY <1>1, <2>1, HandlerAfter, AutoStep DEF Ends, history
    <2>2. CASE Submit(c, now, FALSE)
      <3>1. now.wish = s.wish /\ now.co = s.co /\ now.cm.signed = call[c].co
        BY <1>1 DEF SessionFields
      <3>2. Phase(c) => Signs(c)
        BY <1>4, AtRoutine DEF SignAsAgent
      <3>. HIDE DEF now
      <3>3. Phase(c) => call[c].todo = ToSign /\ WithinWish(c, s.co) /\ now.cm.signed = s.co
        BY <3>1, <3>2 DEF Signs, Captured
      <3>. QED BY <1>1, <2>2, <3>1, <3>3, SubmitAuto
    <2>. QED BY <1>4, <2>1, <2>2 DEF SignAsAgent
  <1>5. CASE Retry(c)
    <2>1. Phase(c) => call[c].todo = ToSign
      BY <1>5, AtAnswer DEF Retry, Awaits, Retries
    <2>. QED BY <1>1, <1>5, <2>1, SubmitAuto DEF Retry
  <1>. QED BY <1>2, <1>3, <1>4, <1>5

\* An order ends the run; an escalation it takes to the bank, once.
LEMMA AnswerAuto ==
  ASSUME AutoInv, CopyInv, CallsInv, SessionInv, NEW c \in Calls, Answer(c)
  PROVE  AutoInv'
  <1>1. /\ Busy(c) /\ overlapped' = overlapped /\ store' = store
        /\ s'.co = call[c].got /\ s'.wish = s.wish
    BY DEF Answer, Awaits, history, servers, SessionInv, SessionFields
  <1>2. Phase(c) => Pays(c) /\ ~call[c].hp
    BY AtAnswer DEF Answer, Awaits, Phase
  <1>3. CASE Throw(c)
    BY <1>1, <1>3, HandlerAfter, AutoStep DEF Ends
  <1>4. CASE Return(c)
    <2>1. \/ Ends(c)
          \/ /\ Moves(c) /\ KeptAll(c) /\ call'[c].todo = Tail(call[c].todo)
             /\ call'[c].at = "run"
      BY <1>4, HandlerAfter DEF Return
    <2>2. Pays(c) => Ends(c)
      <3>1. Pays(c) => Tail(call[c].todo) = <<>>
        BY PlanTails DEF Pays
      <3>2. After(call[c], <<>>) = Idle
        BY DEF After
      <3>3. Pays(c) => Throw(c)
        BY <1>4, <3>1, <3>2 DEF Return, Throw
      <3>. QED BY <3>3, HandlerAfter
    <2>. QED BY <1>1, <1>2, <2>1, <2>2, AutoStep DEF Ends, KeptAll, Kept
  <1>5. CASE ~Throw(c) /\ ~Return(c)
    <2>1. ~call[c].attested /\ AwaitNow(c, "challenge", None)
      BY <1>5 DEF Answer
    <2>2. /\ Moves(c) /\ KeptAll(c) /\ call'[c].todo = call[c].todo
          /\ call'[c].at = "challenge"
      BY <2>1, HandlerAfter
    <2>3. Pays(c) => WithinWish(c, s.co)'
      BY <1>1, <2>1, <2>2, CapturedStays DEF Pays, WithinWish, Within, SpendCap, AllowedCopy, KeptAll,
                                             Kept
    <2>4. Pays(c) => Retries(c)'
      BY <2>2, <2>3 DEF Pays, Retries
    <2>. QED BY <1>1, <1>2, <2>2, <2>4, AutoStep DEF Phase, KeptAll, Kept
  <1>. QED BY <1>3, <1>4, <1>5
\* No route starts an autonomous run anywhere but at its search or its grant.
LEMMA RequestsAuto ==
  ASSUME NEW cl \in Requests
  PROVE  cl.auto => ~cl.hp /\ cl.todo \in {ToSearch, ToAuthorize}
  <1>. DEFINE Fine(x) == x.auto => ~x.hp /\ x.todo \in {ToSearch, ToAuthorize}
  <1>1. DOMAIN Idle = CallFields /\ Idle.auto = FALSE
    BY DEF Idle, CallFields
  <1>2. ASSUME NEW w \in Wishes, NEW hp
        PROVE  /\ Fine([Idle EXCEPT !.todo = <<"intent">>, !.cap = w])
               /\ Fine([Idle EXCEPT !.todo = <<"intent">>, !.cap = w, !.hp = FALSE])
               /\ Fine([Idle EXCEPT !.todo = <<"confirm">>, !.hp = hp])
               /\ Fine([Idle EXCEPT !.todo = <<"intent">>, !.cap = w, !.hp = FALSE,
                                    !.defer = TRUE])
    BY <1>1 DEF CallFields
  <1>3. ASSUME NEW w \in Wishes
        PROVE  Fine([Idle EXCEPT !.todo = <<"intent">> \o Shopping, !.cap = w, !.hp = FALSE,
                                 !.auto = TRUE])
    BY <1>1, PlanStarts DEF CallFields
  <1>4. ASSUME NEW ms, NEW m, NEW i
        PROVE  Fine([Idle EXCEPT !.todo = <<"authorize", "issue">> \o Shopping, !.hp = FALSE,
                                 !.auto = TRUE, !.merchants = ms, !.method = m,
                                 !.instrument = i])
    BY <1>1, PlanStarts DEF CallFields
  <1>5. ASSUME NEW x
        PROVE  /\ Fine([Idle EXCEPT !.todo = <<"select">>, !.merchants = x])
               /\ Fine([Idle EXCEPT !.todo = <<"update">>, !.patch = x])
               /\ Fine([Idle EXCEPT !.todo = <<"prepare">>, !.method = x])
               /\ Fine([Idle EXCEPT !.todo = <<"confirm">>, !.hp = x])
               /\ Fine([Idle EXCEPT !.todo = <<x>>])
    BY <1>1 DEF CallFields
  <1>. HIDE DEF Fine
  <1>6. CASE cl \in IntentRequests
    <2>1. \E w \in Wishes :
            \/ cl = [Idle EXCEPT !.todo = <<"intent">>, !.cap = w]
            \/ cl = [Idle EXCEPT !.todo = <<"intent">>, !.cap = w, !.hp = FALSE]
            \/ cl = [Idle EXCEPT !.todo = <<"intent">>, !.cap = w, !.hp = FALSE, !.defer = TRUE]
            \/ cl = [Idle EXCEPT !.todo = <<"intent">> \o Shopping, !.cap = w, !.hp = FALSE,
                                 !.auto = TRUE]
      BY <1>6, Zenon DEF IntentRequests
    <2>2. Fine(cl)
      BY <1>2, <1>3, <2>1, Zenon
    <2>. QED BY <2>2 DEF Fine
  <1>7. CASE cl \in AuthorizeRequests
    <2>. DEFINE Asked(ms, m) == [Idle EXCEPT !.todo = <<"authorize", "issue">> \o Shopping,
                                   !.hp = FALSE, !.auto = TRUE, !.merchants = ms, !.method = m,
                                   !.instrument = IF m = None THEN Card ELSE m]
    <2>1. cl \in UNION {{Asked(ms, m) : m \in Choices} : ms \in SUBSET Merchants}
      BY <1>7 DEF AuthorizeRequests
    <2>2. \A ms, m : Fine(Asked(ms, m))
      BY <1>4
    <2>. HIDE DEF Asked
    <2>3. Fine(cl)
      BY <2>1, <2>2
    <2>. QED BY <2>3 DEF Fine
  <1>8. CASE cl \in CheckoutRequests
    <2>1. Fine(cl)
      BY <1>5, <1>8, Zenon DEF CheckoutRequests
    <2>. QED BY <2>1 DEF Fine
  <1>9. CASE cl \in PaymentRequests
    <2>1. Fine(cl)
      BY <1>5, <1>9, Zenon DEF PaymentRequests
    <2>. QED BY <2>1 DEF Fine
  <1>. QED BY <1>6, <1>7, <1>8, <1>9 DEF Requests

LEMMA NextAuto ==
  ASSUME GateInv, CopyInv, AutoInv, [Next]_vars
  PROVE  AutoInv'
  <1>0. CallsInv /\ SessionInv /\ ServersInv /\ DOMAIN s = SessionFields
    BY DEF GateInv, SessionInv
  <1>1. CASE UNCHANGED vars \/ Decide \/ EditPolicy
    <2>1. s' = s /\ call' = call /\ store' = store /\ overlapped' = overlapped
      BY <1>1 DEF vars, servers, history, Decide, EditPolicy
    <2>2. \A c \in Calls : /\ Autonomous(c)' => Autonomous(c)
                           /\ Phase(c) => Phase(c)'
      BY <2>1 DEF Autonomous, Busy, Phase, Search, Authorizes, Grant, Choice, Opens, Receives, Holds,
                  Prepares, Confirms, LateGrant, Asks, Signs, Pays, Retries, Captured, WithinWish,
                  Within, Opened, Chosen, Capped, SpendCap, AllowedCopy, Total
    <2>. QED BY <2>1, <2>2 DEF AutoInv
  <1>2. ASSUME NEW c \in Calls, Step(c)
        PROVE  AutoInv'
    BY <1>0, <1>2, SearchSteps, AuthorizeAuto, GrantSteps, ChoiceSteps, CreateAuto, UpdateAuto,
       TakeAuto, HoldAuto, TokenAuto, ConfirmAuto, GateAuto, SignAuto, AnswerAuto DEF Step
  <1>3. ASSUME NEW c \in Calls, Fail(c)
        PROVE  AutoInv'
    <2>1. Busy(c) /\ Ends(c) /\ overlapped' = overlapped
      BY <1>0, <1>3, HandlerAfter DEF Fail, history
    <2>. QED BY <1>0, <2>1, AutoStep DEF Ends
  <1>4. ASSUME NEW c \in Calls, Start(c)
        PROVE  AutoInv'
    <2>1. PICK cl \in Requests : Becomes(c, cl)
      BY <1>4 DEF Start
    <2>2. /\ cl.at = "run" /\ s' = s /\ ~Busy(c)
          /\ overlapped' <=> overlapped \/ \E d \in Calls : Busy(d)
      BY <1>4, RequestsOK DEF Start
    <2>3. cl.auto => ~cl.hp /\ cl.todo \in {ToSearch, ToAuthorize}
      BY RequestsAuto
    <2>4. /\ call'[c] = cl
          /\ \A d \in Calls : d # c => call'[d] = call[d]
      BY <1>0, <2>1 DEF Becomes, CallsInv
    <2>5. ~overlapped' => \A d \in Calls : Autonomous(d)' => d = c
      BY <2>2, <2>4 DEF Autonomous, Busy
    <2>6. Autonomous(c)' => Phase(c)'
      BY <2>2, <2>3, <2>4 DEF Autonomous, Phase, Search, Authorizes
    <2>. QED BY <2>5, <2>6 DEF AutoInv
  <1>5. CASE AtOnce
    <2>1. /\ call' = call
          /\ overlapped' <=> overlapped \/ \E d \in Calls : Busy(d)
      BY <1>5 DEF AtOnce
    <2>2. ~overlapped' => \A d \in Calls : ~Autonomous(d)'
      BY <2>1 DEF Autonomous, Busy
    <2>. QED BY <2>2 DEF AutoInv
  <1>. QED BY <1>1, <1>2, <1>3, <1>4, <1>5 DEF Next

\* What a handler waits for after a step that neither mints a token nor submits.
LEMMA NotPaying ==
  ASSUME CallsInv, NEW c \in Calls,
         \/ RunIntent(c) \/ Parsed(c) \/ Found(c) \/ Authorize(c) \/ Listed(c)
         \/ IssueOpenMandates(c) \/ OpenCheckout(c) \/ OpenPayment(c) \/ Pick(c) \/ Select(c)
         \/ Accessory(c) \/ Create(c) \/ Update(c) \/ TakeCopy(c) \/ Hold(c) \/ PreparePayment(c)
         \/ Minted(c) \/ ConfirmAndPay(c) \/ Gate(c) \/ ReadPolicy(c) \/ ReadApproval(c)
         \/ RequestApproval(c) \/ Sign(c) \/ CheckoutMandate(c) \/ Answer(c) \/ ResolveThreeDs(c)
         \/ Fail(c)
  PROVE  call'[c].at \notin {"minted", "answer"}
  <1>1. DOMAIN call[c] = CallFields /\ DOMAIN call = Calls
    BY DEF CallsInv, CallOK
  <1>2. ASSUME NEW todo, Becomes(c, After(call[c], todo))
        PROVE  call'[c].at = "run"
    <2>1. Idle.at = "run"
      BY DEF Idle
    <2>. HIDE DEF After
    <2>. QED BY <1>2, <2>1, HandlerAfter DEF Ends
  <1>3. Throw(c) \/ Return(c) => call'[c].at = "run"
    <2>1. Idle.at = "run"
      BY DEF Idle
    <2>. QED BY <1>2, <2>1, HandlerAfter DEF Return, Ends
  <1>4. \A at, got : AwaitNow(c, at, got) => call'[c].at = at
    BY HandlerAfter
  <1>5. ASSUME NEW cl, Becomes(c, cl), cl.at \notin {"minted", "answer"}
        PROVE  call'[c].at \notin {"minted", "answer"}
    BY <1>1, <1>5 DEF Becomes
  <1>6. CASE Parsed(c) \/ Create(c) \/ Update(c)
    <2>1. CASE Parsed(c)
      <3>1. \E got : AwaitNow(c, "offers", got)
        BY <2>1, Zenon DEF Parsed
      <3>. QED BY <1>4, <3>1
    <2>2. CASE Create(c)
      <3>1. Throw(c) \/ \E got : AwaitNow(c, "checkout", got)
        BY <2>2, Zenon DEF Create
      <3>. QED BY <1>3, <1>4, <3>1
    <2>3. CASE Update(c)
      BY <1>3, <1>4, <2>3 DEF Update
    <2>. QED BY <1>6, <2>1, <2>2, <2>3
  <1>7. CASE \/ RunIntent(c) \/ OpenPayment(c) \/ Select(c) \/ Accessory(c) \/ TakeCopy(c)
             \/ Hold(c) \/ PreparePayment(c) \/ Minted(c) \/ Gate(c) \/ ReadPolicy(c)
             \/ ReadApproval(c) \/ RequestApproval(c) \/ Listed(c) \/ Sign(c)
             \/ CheckoutMandate(c) \/ Answer(c) \/ ResolveThreeDs(c) \/ Fail(c)
    BY <1>3, <1>4, <1>7 DEF RunIntent, OpenPayment, Select, Accessory, TakeCopy, Hold,
                            PreparePayment, Minted, Gate, ReadPolicy, ReadApproval, RequestApproval,
                            Listed, Sign, CheckoutMandate, Answer, ResolveThreeDs, Fail
  <1>8. CASE Found(c) \/ Authorize(c)
    <2>1. CASE Found(c)
      BY <1>2, <2>1 DEF Found
    <2>2. CASE Authorize(c)
      <3>. DEFINE chosen == IF s.found = None THEN {} ELSE call[c].merchants
                  cl == [call[c] EXCEPT !.at = "listed", !.merchants = chosen]
      <3>1. cl.at = "listed" /\ Becomes(c, cl)
        BY <1>1, <2>2 DEF CallFields, Authorize
      <3>. HIDE DEF cl
      <3>. QED BY <1>5, <3>1
    <2>. QED BY <1>8, <2>1, <2>2
  <1>9. CASE IssueOpenMandates(c)
    <2>1. ASSUME NEW cap, NEW got,
                 Becomes(c, [call[c] EXCEPT !.at = "open_checkout", !.cap = cap, !.got = got])
          PROVE  call'[c].at \notin {"minted", "answer"}
      <3>. DEFINE cl == [call[c] EXCEPT !.at = "open_checkout", !.cap = cap, !.got = got]
      <3>1. cl.at = "open_checkout" /\ Becomes(c, cl)
        BY <1>1, <2>1 DEF CallFields
      <3>. HIDE DEF cl
      <3>. QED BY <1>5, <3>1
    <2>2. \/ Throw(c)
          \/ \E cap, got :
               Becomes(c, [call[c] EXCEPT !.at = "open_checkout", !.cap = cap, !.got = got])
      BY <1>9, Zenon DEF IssueOpenMandates
    <2>. QED BY <1>3, <2>1, <2>2
  <1>10. CASE OpenCheckout(c)
    <2>. DEFINE cl == [call[c] EXCEPT !.at = "open_payment"]
    <2>1. Throw(c) \/ Becomes(c, cl)
      BY <1>10 DEF OpenCheckout
    <2>2. cl.at = "open_payment"
      BY <1>1 DEF CallFields
    <2>. HIDE DEF cl
    <2>. QED BY <1>3, <1>5, <2>1, <2>2
  <1>11. CASE Pick(c)
    <2>. DEFINE cl == [call[c] EXCEPT !.at = "accessory", !.cap = SpendCap]
    <2>1. cl.at = "accessory"
      BY <1>1 DEF CallFields
    <2>2. Throw(c) \/ Becomes(c, cl)
      BY <1>11 DEF Pick
    <2>. HIDE DEF cl
    <2>. QED BY <1>3, <1>5, <2>1, <2>2
  <1>12. CASE ConfirmAndPay(c)
    <2>1. ASSUME NEW todo, Becomes(c, [call[c] EXCEPT !.co = s.co, !.cap = s.wish,
                                                      !.since = Len(policies), !.todo = todo])
          PROVE  call'[c].at \notin {"minted", "answer"}
      <3>. DEFINE cl == [call[c] EXCEPT !.co = s.co, !.cap = s.wish, !.since = Len(policies),
                                        !.todo = todo]
      <3>1. cl.at = "run" /\ Becomes(c, cl)
        BY <1>1, <1>12, <2>1 DEF CallFields, ConfirmAndPay, Runs
      <3>. HIDE DEF cl
      <3>. QED BY <1>5, <3>1
    <2>. QED BY <1>3, <1>12, <2>1 DEF ConfirmAndPay
  <1>. QED BY <1>6, <1>7, <1>8, <1>9, <1>10, <1>11, <1>12

PaysNow(c) ==
  /\ call'[c].at \in {"minted", "answer"} /\ call'[c].at # call[c].at
  /\ call[c].auto /\ ~overlapped

\* The step that takes a token or submits is within what the user allowed.
LEMMA PayingIsWithin ==
  ASSUME GateInv, CopyInv, AutoInv, [Next]_vars, NEW c \in Calls, PaysNow(c)
  PROVE  Within(Total(s.co), SpendCap) /\ s.co.m \in call[c].merchants
  <1>0. CallsInv
    BY DEF GateInv
  <1>1. ASSUME NEW d \in Calls, d # c, \E cl : Becomes(d, cl)
        PROVE  FALSE
    BY <1>0, <1>1 DEF Becomes, CallsInv, PaysNow
  <1>2. ~(UNCHANGED vars \/ Decide \/ EditPolicy \/ AtOnce)
    BY DEF vars, Decide, EditPolicy, AtOnce, PaysNow
  <1>3. ~Start(c)
    <2>1. ASSUME Start(c)
          PROVE  call'[c].at = "run"
      BY <1>0, <2>1, RequestsOK DEF Start, Becomes, CallsInv
    <2>. QED BY <2>1 DEF PaysNow
  <1>4. ASSUME NEW d \in Calls, Start(d) \/ Step(d) \/ Fail(d)
        PROVE  \E cl : Becomes(d, cl)
    <2>1. CASE Start(d)
      BY <2>1 DEF Start
    <2>2. CASE Fail(d)
      BY <2>2 DEF Fail, Throw
    <2>3. CASE Step(d)
      <3>1. CASE Create(d) \/ Parsed(d) \/ MintInstrument(d)
        <4>1. Throw(d) \/ \E at, got : AwaitNow(d, at, got)
          BY <3>1, Zenon DEF Create, Parsed, MintInstrument
        <4>. QED BY <4>1 DEF Throw, AwaitNow
      <3>2. CASE ~(Create(d) \/ Parsed(d) \/ MintInstrument(d))
        BY <2>3, <3>2, Zenon DEF Step, RunIntent, Found, Authorize, Listed, IssueOpenMandates,
           OpenCheckout, OpenPayment,
           Pick, Select, Accessory, Update, TakeCopy, Hold, PreparePayment, Minted,
           ConfirmAndPay, Gate, ReadPolicy, ReadApproval, RequestApproval, Sign, CheckoutMandate,
           PaymentMandate, SignAsAgent, Answer, ResolveThreeDs, Retry, Submit, Completed, Declined,
           Throw, Return, AwaitNow
      <3>. QED BY <3>1, <3>2
    <2>. QED BY <1>4, <2>1, <2>2, <2>3
  <1>5. Step(c) \/ Fail(c)
    BY <1>1, <1>2, <1>3, <1>4 DEF Next
  <1>6. MintInstrument(c) \/ PaymentMandate(c) \/ SignAsAgent(c) \/ Retry(c)
    BY <1>0, <1>5, NotPaying DEF Step, PaysNow
  <1>7. Busy(c)
    BY <1>6 DEF MintInstrument, PaymentMandate, SignAsAgent, Retry, Awaits, Runs
  <1>8. Phase(c)
    BY <1>0, <1>7 DEF AutoInv, Autonomous, PaysNow
  <1>9. WithinWish(c, s.co)
    <2>1. CASE MintInstrument(c)
      BY <1>8, <2>1, AtAnswer DEF MintInstrument, Awaits, Prepares
    <2>2. CASE PaymentMandate(c)
      BY <1>8, <2>2, AtAnswer DEF PaymentMandate, Awaits
    <2>3. CASE SignAsAgent(c)
      BY <1>8, <2>3, AtRoutine DEF SignAsAgent, Signs, Captured
    <2>4. CASE Retry(c)
      BY <1>8, <2>4, AtAnswer DEF Retry, Awaits, Retries
    <2>. QED BY <1>6, <2>1, <2>2, <2>3, <2>4
  <1>. QED BY <1>9 DEF WithinWish, AllowedCopy

\* An autonomous run that nothing overlapped takes a payment token, and completes its
\* checkout, only within the user's number and at a merchant the user allowed, whatever
\* the prices did since the search, and after an escalation too.
THEOREM RunsPayWithinWish == Spec => PaysWithinWish
  <1>1. Init => AutoInv
    BY DEF Init, AutoInv, Autonomous, Idle
  <1>2. Init => CopyInv
    BY DEF Init, CopyInv, OneAtATime, Pending, Busy, Idle
  <1>3. GateInv /\ CopyInv /\ AutoInv /\ [Next]_vars
        => [\A c \in Calls :
              (call'[c].at \in {"minted", "answer"} /\ call'[c].at # call[c].at
                /\ call[c].auto /\ ~overlapped)
              => Within(Total(s.co), SpendCap) /\ s.co.m \in call[c].merchants]_vars
    BY PayingIsWithin DEF PaysNow
  <1>. QED BY <1>1, <1>2, <1>3, InitGate, NextGate, NextCopy, NextAuto, PTL DEF Spec, PaysWithinWish
=============================================================================
