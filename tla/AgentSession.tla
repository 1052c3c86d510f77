---------------------------- MODULE AgentSession ----------------------------
(***************************************************************************)
(* One session of the shopping agent (orchestrator.ts).  Express serves    *)
(* every request of the session at once and nothing locks it: two handlers *)
(* interleave wherever one of them awaits.  A handler is a program of      *)
(* routines; a step runs from one await to the next, reads the session as  *)
(* it is by then, and may still hold what it read before.                  *)
(*                                                                         *)
(* A request takes effect at its server in the step that sends it, and its *)
(* answer arrives in any later step, or never (Fail).  The servers are     *)
(* their contracts: a merchant's checkouts, the wallet's signatures and    *)
(* approvals, and at complete_checkout the terms that merchant and PSP     *)
(* compare.  What they do inside is CheckoutSession, PaymentProvider,      *)
(* Wallet and Purchase.  Awaits between which the handler touches nothing  *)
(* are one.  One product, sold by every merchant at its own price; what a  *)
(* discount, an address or a shipping option does to a total is "extra".   *)
(***************************************************************************)
EXTENDS Integers, Sequences

CONSTANTS
  Calls,         \* handlers that may run at the same time
  Merchants,     \* the eligible merchants
  Prices, Extras, Wishes, \* unit prices, additions to a total, the user's caps
  NoCap,         \* the wish of a user who names no number
  Card, Bank,    \* the payment methods: the default one and the other rail
  Choices,       \* the methods a request may name, or None
  Policies,      \* what the user may set the wallet's autonomy policy to
  Routes(_),     \* the routes of the API each of Calls serves
  None,
  MaxStarts, MaxCheckouts, MaxQty \* bounds: requests and policy edits, checkouts, pieces

ASSUME NumbersAssumption ==
  /\ Prices \subseteq Nat /\ Extras \subseteq Int /\ Wishes \subseteq Nat \cup {NoCap}
  /\ MaxStarts \in Nat /\ MaxCheckouts \in Nat /\ MaxQty \in Nat \ {0}
  /\ Policies \subseteq
       [autonomy: {"always_ask", "ask_above", "autonomous"}, ask_above_amount: Nat]
  /\ NoCap \notin Nat /\ None \notin Nat \cup {NoCap}

Ids == 1..MaxCheckouts

VARIABLES
  s,          \* the session
  call,       \* the handlers that run
  store,      \* the merchants' checkouts, by the order they were opened in
  approvals,  \* the wallet's approval inbox
  policies,   \* the wallet's autonomy policies so far: the last one is in force
  grants,     \* how many open checkout mandates the user signed
  orders,     \* the orders, each with what it was placed under
  starts,
  overlapped, \* history: two handlers ran at the same time
  lost        \* history: a handler missed an answer

servers == <<store, approvals, policies, grants, orders>>
history == <<starts, overlapped>>
vars == <<s, call, servers, history, lost>>

Total(co) == co.qty * co.price + co.extra

\* spendCapCents: a user who names no number sets no cap.
SpendCap == IF s.wish = None THEN NoCap ELSE s.wish
Within(amount, cap) == cap # NoCap => amount <= cap

\* What the merchant signs of a checkout, and the session copies.
Copy(id, co) == [id |-> id, m |-> co.m, qty |-> co.qty, price |-> co.price,
                 extra |-> co.extra, st |-> co.st]

NoCheckout == [m |-> None, qty |-> 0, price |-> 0, extra |-> 0, st |-> "none"]

\* A handler: the routines it still has to run and what it waits for, its
\* arguments, and what it captured before an await.
Idle == [todo |-> <<>>, at |-> "run", cap |-> None, hp |-> TRUE, merchants |-> Merchants,
         method |-> None, instrument |-> None, defer |-> FALSE, patch |-> None,
         attested |-> FALSE, auto |-> FALSE, co |-> None, since |-> 0, got |-> None]

\* createSession: an undefined human_present counts as TRUE wherever it is read.
Init ==
  /\ s = [wish |-> None, found |-> None, sel |-> None, co |-> None, tok |-> None,
          cm |-> None, pm |-> None, openC |-> None, openP |-> None, hp |-> TRUE,
          order |-> None]
  /\ call = [c \in Calls |-> Idle]
  /\ store = [id \in Ids |-> NoCheckout]
  /\ approvals = [id \in Ids |-> "none"]
  /\ \E policy \in Policies : policies = <<policy>>
  /\ grants = 0
  /\ orders = {}
  /\ starts = 0
  /\ overlapped = FALSE
  /\ lost = FALSE

-----------------------------------------------------------------------------
(***************************************************************************)
(* How a handler advances.  Node runs a handler until it awaits a request: *)
(* no answer and no new request comes in between (Quiet).                  *)
(***************************************************************************)
Busy(c) == call[c].todo # <<>>
Quiet == \A c \in Calls : Busy(c) => call[c].at # "run"
Runs(c, routine) == Busy(c) /\ call[c].at = "run" /\ Head(call[c].todo) = routine
Awaits(c, answer) == Quiet /\ Busy(c) /\ call[c].at = answer

Becomes(c, cl) == call' = [call EXCEPT ![c] = cl]
AwaitNow(c, answer, got) == Becomes(c, [call[c] EXCEPT !.at = answer, !.got = got])

\* The routine returns, and the handler with it when it was the last one.
After(cl, routines) ==
  IF routines = <<>> THEN Idle ELSE [cl EXCEPT !.todo = routines, !.at = "run", !.got = None]
Return(c) == Becomes(c, After(call[c], Tail(call[c].todo)))
Throw(c) == Becomes(c, Idle)

-----------------------------------------------------------------------------
(***************************************************************************)
(* Intent and authorization.                                               *)
(***************************************************************************)
\* runIntent: the modality is set at once, the constraints when the text is parsed,
\* and the offers when the catalogs have answered.
RunIntent(c) ==
  /\ Runs(c, "intent")
  /\ s' = [s EXCEPT !.hp = call[c].hp]
  /\ AwaitNow(c, "parsed", None)
  /\ UNCHANGED <<servers, history, lost>>

Parsed(c) ==
  /\ Awaits(c, "parsed")
  /\ s' = [s EXCEPT !.wish = call[c].cap]
  /\ \E price \in [Merchants -> Prices] : AwaitNow(c, "offers", price)
  /\ UNCHANGED <<servers, history, lost>>

Found(c) ==
  /\ Awaits(c, "offers")
  /\ s' = [s EXCEPT !.found = call[c].got]
  /\ Becomes(c, After(call[c], (IF ~s.hp /\ ~call[c].defer THEN <<"issue">> ELSE <<>>)
                               \o Tail(call[c].todo)))
  /\ UNCHANGED <<servers, history, lost>>

\* authorizeAndRun: of the chosen merchants those that are eligible by now count; then
\* the wallet lists its methods.
Authorize(c) ==
  /\ Runs(c, "authorize")
  /\ s' = [s EXCEPT !.hp = FALSE]
  /\ Becomes(c, [call[c] EXCEPT !.at = "listed",
                                !.merchants = IF s.found = None THEN {} ELSE @])
  /\ UNCHANGED <<servers, history, lost>>

Listed(c) ==
  /\ Awaits(c, "listed")
  /\ Return(c)
  /\ UNCHANGED <<s, servers, history, lost>>

\* The merchants of the open checkout mandate: an empty choice means all of them, and
\* before a search there are none (nor any acceptable items).
Allowed(chosen) == IF s.found = None THEN {} ELSE IF chosen = {} THEN Merchants ELSE chosen

\* issueOpenMandates: the user signs the open checkout mandate first ...
IssueOpenMandates(c) ==
  /\ Runs(c, "issue")
  /\ \/ /\ grants' = grants + 1
        /\ Becomes(c, [call[c] EXCEPT !.at = "open_checkout",
             !.cap = IF @ = None THEN s.wish ELSE @,
             !.got = [grant |-> grants + 1, merchants |-> Allowed(call[c].merchants)]])
     \/ grants' = grants /\ Throw(c)
  /\ UNCHANGED <<s, store, approvals, policies, orders, history, lost>>

\* ... and then the constraints are read, which there are none of before an intent.
OpenCheckout(c) ==
  /\ Awaits(c, "open_checkout")
  /\ s' = [s EXCEPT !.openC = call[c].got]
  /\ IF call[c].cap = None THEN Throw(c)
     ELSE Becomes(c, [call[c] EXCEPT !.at = "open_payment"])
  /\ UNCHANGED <<servers, history, lost>>

\* Mutant of Reference: the open payment mandate names no open checkout mandate.
NoReference(c) == None

\* payment.reference: the digest of the open checkout mandate that was just signed.
Reference(c) == call[c].got.grant

OpenPayment(c) ==
  /\ Awaits(c, "open_payment")
  /\ s' = [s EXCEPT !.openP = [ref |-> Reference(c), cap |-> call[c].cap,
                               method |-> call[c].instrument]]
  /\ Return(c)
  /\ UNCHANGED <<servers, history, lost>>

-----------------------------------------------------------------------------
(***************************************************************************)
(* Selection and checkout.                                                 *)
(***************************************************************************)
\* pickOffer: the cheapest offer of an allowed merchant, if it fits the cap; then
\* select.  (The code's estimate of the tax is part of the price.)
Fits(m) == s.found # None /\ Within(s.found[m], SpendCap)

Pick(c) ==
  /\ Runs(c, "pick")
  /\ \/ /\ \E m \in call[c].merchants :
             /\ Fits(m)
             /\ \A n \in call[c].merchants : s.found[m] <= s.found[n]
             /\ s' = [s EXCEPT !.sel = [m |-> m, qty |-> 1]]
        /\ Becomes(c, [call[c] EXCEPT !.at = "accessory", !.cap = SpendCap])
     \/ /\ ~\E m \in call[c].merchants : Fits(m)
        /\ s' = s
        /\ Throw(c)
  /\ UNCHANGED <<servers, history, lost>>

\* select: the selection is replaced before the accessory is looked up.
Select(c) ==
  /\ Runs(c, "select")
  /\ \E m \in call[c].merchants : s' = [s EXCEPT !.sel = [m |-> m, qty |-> 1]]
  /\ AwaitNow(c, "accessory", None)
  /\ UNCHANGED <<servers, history, lost>>

Accessory(c) ==
  /\ Awaits(c, "accessory")
  /\ Return(c)
  /\ UNCHANGED <<s, servers, history, lost>>

\* createCheckout: the merchant opens a checkout for the selection, at the price its
\* catalog has now, which need not be the one the search found.
Create(c) ==
  /\ Runs(c, "create")
  /\ \/ /\ s.sel # None
        /\ \E id \in Ids, p \in Prices :
             LET opened == [m |-> s.sel.m, qty |-> s.sel.qty, price |-> p,
                            extra |-> 0, st |-> "open"] IN
             /\ \A k \in Ids : k < id <=> store[k].st # "none"
             /\ store' = [store EXCEPT ![id] = opened]
             /\ AwaitNow(c, "checkout", Copy(id, opened))
     \/ store' = store /\ Throw(c)
  /\ UNCHANGED <<s, approvals, policies, grants, orders, history, lost>>

\* updateCheckout, selectShipping, applyPromo: the new quantity is computed from the
\* copy the session holds, which an earlier update may have left behind.
Patched(co, patch) ==
  IF patch.delta # 0
  THEN [store[co.id] EXCEPT !.qty = LET q == co.qty + patch.delta IN IF q < 1 THEN 1 ELSE q,
                            !.st = "open"]
  ELSE [store[co.id] EXCEPT !.extra = patch.extra, !.st = "open"]

Update(c) ==
  /\ Runs(c, "update")
  /\ \/ /\ s.co # None
        /\ store[s.co.id].st # "completed"
        /\ LET updated == Patched(s.co, call[c].patch) IN
             /\ updated.qty <= MaxQty
             /\ store' = [store EXCEPT ![s.co.id] = updated]
             /\ AwaitNow(c, "checkout", Copy(s.co.id, updated))
     \/ store' = store /\ Throw(c)
  /\ UNCHANGED <<s, approvals, policies, grants, orders, history, lost>>

\* Mutant of TakeCopy: an update keeps the copy the session had.
TakeCopyOnCreate(c) ==
  /\ Awaits(c, "checkout")
  /\ s' = [s EXCEPT !.co = IF Head(call[c].todo) = "create" THEN call[c].got ELSE s.co]
  /\ Return(c)
  /\ UNCHANGED <<servers, history, lost>>

\* The answer verifies and becomes the session's copy, whatever that is by now.
TakeCopy(c) ==
  /\ Awaits(c, "checkout")
  /\ s' = [s EXCEPT !.co = call[c].got]
  /\ Return(c)
  /\ UNCHANGED <<servers, history, lost>>

\* Mutant of Hold: the exact total is not compared with the cap.
HoldNever(c) ==
  /\ Runs(c, "hold")
  /\ s.co # None
  /\ Return(c)
  /\ UNCHANGED <<s, servers, history, lost>>

\* runAutonomous, authorizeAndRun: the agent holds when the total is above the cap, if
\* there is one.
Hold(c) ==
  /\ Runs(c, "hold")
  /\ s.co # None
  /\ IF Within(Total(s.co), call[c].cap) THEN Return(c) ELSE Throw(c)
  /\ UNCHANGED <<s, servers, history, lost>>

-----------------------------------------------------------------------------
(***************************************************************************)
(* Payment.                                                                *)
(***************************************************************************)
\* preparePayment: the checkout is read after the wallet listed its methods ...
PreparePayment(c) ==
  /\ Runs(c, "prepare")
  /\ AwaitNow(c, "methods", None)
  /\ UNCHANGED <<s, servers, history, lost>>

\* ... and the rail is the user's choice, else what the policy prefers by then or, when
\* it prefers none, what suits the total: any rail.
Rails(c) == IF call[c].method # None THEN {call[c].method} ELSE {Card, Bank}

MintInstrument(c) ==
  /\ Awaits(c, "methods")
  /\ \/ /\ s.co # None
        /\ \E method \in Rails(c) :
             AwaitNow(c, "minted", [co |-> s.co.id, method |-> method])
     \/ Throw(c)
  /\ UNCHANGED <<s, servers, history, lost>>

Minted(c) ==
  /\ Awaits(c, "minted")
  /\ s' = [s EXCEPT !.tok = call[c].got]
  /\ Return(c)
  /\ UNCHANGED <<servers, history, lost>>

\* confirmAndPay: the checkout is captured; a session that turns autonomous only now
\* has its open mandates signed first.
ConfirmAndPay(c) ==
  /\ Runs(c, "confirm")
  /\ IF s.co = None THEN s' = s /\ Throw(c)
     ELSE LET late == ~call[c].hp /\ s.openC = None IN
       /\ s' = IF late THEN [s EXCEPT !.hp = FALSE] ELSE s
       /\ Becomes(c, [call[c] EXCEPT !.co = s.co, !.cap = s.wish, !.since = Len(policies),
            !.todo = (IF late THEN <<"issue">> ELSE <<>>)
                     \o (IF call[c].hp THEN <<"sign">> ELSE <<"gate", "sign_as_agent">>)
                     \o Tail(call[c].todo)])
  /\ UNCHANGED <<servers, history, lost>>

\* The autonomy gate: the wallet is asked for its policy, which the user may edit at
\* any time, ...
Gate(c) ==
  /\ Runs(c, "gate")
  /\ AwaitNow(c, "policy", policies[Len(policies)])
  /\ UNCHANGED <<s, servers, history, lost>>

Violates(policy, total) ==
  \/ policy.autonomy = "always_ask"
  \/ policy.autonomy = "ask_above" /\ total > policy.ask_above_amount

\* Mutant of Approved: a request for approval is enough.
ApprovedOnRequest(id) == approvals[id] # "none"

Approved(id) == approvals[id] = "approved"

\* ... and, when the captured total violates it, whether the user approved the captured
\* checkout.
ReadPolicy(c) ==
  /\ Awaits(c, "policy")
  /\ IF Violates(call[c].got, Total(call[c].co))
     THEN AwaitNow(c, "approval", Approved(call[c].co.id)) ELSE Return(c)
  /\ UNCHANGED <<s, servers, history, lost>>

ReadApproval(c) ==
  /\ Awaits(c, "approval")
  /\ call[c].got
  /\ Return(c)
  /\ UNCHANGED <<s, servers, history, lost>>

\* requestApproval: for the session's copy by now; the payment ends here.  An approval
\* the wallet already has is returned as it is.
RequestApproval(c) ==
  /\ Runs(c, "ask") \/ (Awaits(c, "approval") /\ ~call[c].got)
  /\ approvals' = IF s.co # None /\ approvals[s.co.id] = "none"
                  THEN [approvals EXCEPT ![s.co.id] = "asked"] ELSE approvals
  /\ Throw(c)
  /\ UNCHANGED <<s, store, policies, grants, orders, history, lost>>

\* What the merchant compares at complete_checkout: the live checkout with the checkout
\* mandate, and the constraints of the open one.
MerchantAccepts(id, cm) ==
  LET live == store[id] IN
  /\ live.st \in {"open", "escalated"}
  /\ cm.signed.id = id /\ cm.signed.qty = live.qty /\ Total(cm.signed) = Total(live)
  /\ cm.open # None => live.m \in cm.open.merchants

\* What the PSP compares: the payment mandate with the checkout mandate, and the
\* constraints of the open one.
PspAccepts(id, cm, pm) ==
  /\ pm.signed = cm.signed
  /\ pm.open # None =>
       /\ Within(Total(store[id]), pm.open.cap)
       /\ (cm.open # None /\ pm.open.ref # None) => pm.open.ref = cm.open.grant

\* complete_checkout succeeds or asks for a challenge, which an attestation answers.
Completed(c, id, attested) ==
  /\ PspAccepts(id, s'.cm, s'.pm)
  /\ \E st \in {"completed"} \cup (IF attested THEN {} ELSE {"escalated"}) :
       LET answered == [store[id] EXCEPT !.st = st] IN
       /\ store' = [store EXCEPT ![id] = answered]
       /\ orders' = orders \cup
            (IF st = "escalated" THEN {}
             ELSE {[id |-> id, total |-> Total(answered), cm |-> s'.cm, pm |-> s'.pm,
                    method |-> s'.tok.method]})
       /\ Becomes(c, [call[c] EXCEPT !.at = "answer", !.attested = attested,
                      !.got = Copy(id, answered)])

\* It fails, and leaves its mark: a refused authorization makes the checkout ready
\* again, a failed capture leaves it in progress.
Declined(c, id) ==
  /\ \E st \in {"open"} \cup (IF PspAccepts(id, s'.cm, s'.pm) THEN {"in_progress"} ELSE {}) :
       store' = [store EXCEPT ![id].st = st]
  /\ orders' = orders
  /\ Throw(c)

\* submitComplete: everything is read from the session as it is now.  Without all of it
\* nothing is sent; what the merchant refuses changes nothing.
Submit(c, now, attested) ==
  /\ s' = now
  /\ \/ /\ now.co # None /\ now.tok # None /\ now.cm # None /\ now.pm # None
        /\ MerchantAccepts(now.co.id, now.cm)
        /\ Completed(c, now.co.id, attested) \/ Declined(c, now.co.id)
     \/ UNCHANGED <<store, orders>> /\ Throw(c)
  /\ UNCHANGED <<approvals, policies, grants, history, lost>>

\* Human present: the wallet signs the checkout mandate, then the payment mandate.
Sign(c) ==
  /\ Runs(c, "sign")
  /\ AwaitNow(c, "mandate", None) \/ Throw(c)
  /\ UNCHANGED <<s, servers, history, lost>>

CheckoutMandate(c) ==
  /\ Awaits(c, "mandate")
  /\ s' = [s EXCEPT !.cm = [signed |-> call[c].co, open |-> None]]
  /\ AwaitNow(c, "payment", None) \/ Throw(c)
  /\ UNCHANGED <<servers, history, lost>>

PaymentMandate(c) ==
  /\ Awaits(c, "payment")
  /\ Submit(c, [s EXCEPT !.pm = [signed |-> call[c].co, open |-> None, window |-> {}]], FALSE)

\* Human not present: the agent signs both under the open mandates of the session.
\* (window, kept for the property: the policies in force since the payment began.)
SignAsAgent(c) ==
  /\ Runs(c, "sign_as_agent")
  /\ LET cm == [signed |-> call[c].co, open |-> s.openC]
         pm == [signed |-> call[c].co, open |-> s.openP, window |-> call[c].since..Len(policies)]
     IN
     IF s.openC = None THEN Throw(c) /\ UNCHANGED <<s, servers, history, lost>>
     ELSE IF s.openP = None
     THEN /\ s' = [s EXCEPT !.cm = cm]
          /\ Throw(c)
          /\ UNCHANGED <<servers, history, lost>>
     ELSE Submit(c, [s EXCEPT !.cm = cm, !.pm = pm], FALSE)

\* The answer of complete_checkout: an order, or an escalation, which the user takes to
\* the bank when present, which the agent resolves when not, and which ends a retry.
Answer(c) ==
  /\ Awaits(c, "answer")
  /\ LET got == call[c].got IN
     IF got.st = "completed"
     THEN s' = [s EXCEPT !.co = got, !.order = got.id] /\ Return(c)
     ELSE /\ s' = [s EXCEPT !.co = got]
          /\ IF call[c].attested THEN Throw(c)
             ELSE IF call[c].hp THEN Return(c)
             ELSE AwaitNow(c, "challenge", None)
  /\ UNCHANGED <<servers, history, lost>>

\* resolveThreeDs: the bank's page is passed or cancelled.
ResolveThreeDs(c) ==
  /\ Runs(c, "resolve")
  /\ \/ s.co # None /\ AwaitNow(c, "challenge", None)
     \/ Throw(c)
  /\ UNCHANGED <<s, servers, history, lost>>

\* The attestation arrives and complete_checkout is sent once more.
Retry(c) ==
  /\ Awaits(c, "challenge")
  /\ Submit(c, s, TRUE)

\* An answer is lost or is an error: the handler throws and its route answers 500.
Fail(c) ==
  /\ Quiet /\ Busy(c)
  /\ Throw(c)
  /\ lost' = TRUE
  /\ UNCHANGED <<s, servers, history>>

Step(c) ==
  \/ RunIntent(c) \/ Parsed(c) \/ Found(c)
  \/ Authorize(c) \/ Listed(c) \/ IssueOpenMandates(c) \/ OpenCheckout(c) \/ OpenPayment(c)
  \/ Pick(c) \/ Select(c) \/ Accessory(c) \/ Create(c) \/ Update(c) \/ TakeCopy(c) \/ Hold(c)
  \/ PreparePayment(c) \/ MintInstrument(c) \/ Minted(c)
  \/ ConfirmAndPay(c) \/ Gate(c) \/ ReadPolicy(c) \/ ReadApproval(c) \/ RequestApproval(c)
  \/ Sign(c) \/ CheckoutMandate(c) \/ PaymentMandate(c) \/ SignAsAgent(c)
  \/ Answer(c) \/ ResolveThreeDs(c) \/ Retry(c)

-----------------------------------------------------------------------------
(***************************************************************************)
(* The routes of the API, and the world around the session.                *)
(***************************************************************************)
Shopping == <<"pick", "create", "hold", "prepare", "confirm">>

\* What a route starts, with the arguments of the request.
IntentRequests ==
  {[Idle EXCEPT !.todo = <<"intent">>, !.cap = w] : w \in Wishes}
  \cup {[Idle EXCEPT !.todo = <<"intent">>, !.cap = w, !.hp = FALSE] : w \in Wishes}
  \cup {[Idle EXCEPT !.todo = <<"intent">>, !.cap = w, !.hp = FALSE, !.defer = TRUE] : w \in Wishes}
  \cup {[Idle EXCEPT !.todo = <<"intent">> \o Shopping, !.cap = w, !.hp = FALSE, !.auto = TRUE] :
          w \in Wishes}

AuthorizeRequests ==
  UNION {{[Idle EXCEPT !.todo = <<"authorize", "issue">> \o Shopping, !.hp = FALSE, !.auto = TRUE,
                       !.merchants = ms, !.method = m,
                       !.instrument = IF m = None THEN Card ELSE m] :
            m \in Choices} : ms \in SUBSET Merchants}

CheckoutRequests ==
  {[Idle EXCEPT !.todo = <<"select">>, !.merchants = {m}] : m \in Merchants}
  \cup {[Idle EXCEPT !.todo = <<r>>] : r \in {"create", "ask", "resolve"}}
  \cup {[Idle EXCEPT !.todo = <<"update">>, !.patch = [delta |-> d, extra |-> 0]] : d \in {-1, 1}}
  \cup {[Idle EXCEPT !.todo = <<"update">>, !.patch = [delta |-> 0, extra |-> x]] : x \in Extras}

PaymentRequests ==
  {[Idle EXCEPT !.todo = <<"prepare">>, !.method = m] : m \in Choices}
  \cup {[Idle EXCEPT !.todo = <<"confirm">>, !.hp = hp] : hp \in BOOLEAN}

Requests == IntentRequests \cup AuthorizeRequests \cup CheckoutRequests \cup PaymentRequests

\* The name of the route, for the bound Routes.
RouteOf(cl) ==
  IF cl.auto THEN IF Head(cl.todo) = "authorize" THEN "autonomy/authorize" ELSE "autonomous"
  ELSE IF cl.defer THEN "autonomy/prepare" ELSE Head(cl.todo)

Start(c) ==
  /\ Quiet /\ ~Busy(c)
  /\ starts < MaxStarts
  /\ \E cl \in Requests : RouteOf(cl) \in Routes(c) /\ Becomes(c, cl)
  /\ starts' = starts + 1
  /\ overlapped' = (overlapped \/ \E d \in Calls : Busy(d))
  /\ UNCHANGED <<s, servers, lost>>

\* Handlers without an await: setModality, addItem and addAccessory.
AtOnce ==
  /\ Quiet
  /\ starts < MaxStarts
  /\ \/ /\ "mode" \in UNION {Routes(c) : c \in Calls}
        /\ \E hp \in BOOLEAN : s' = [s EXCEPT !.hp = hp]
     \/ /\ "add" \in UNION {Routes(c) : c \in Calls}
        /\ \E m \in Merchants :
             s' = [s EXCEPT !.sel = IF s.sel # None /\ s.sel.m = m
                                    THEN [m |-> m, qty |-> s.sel.qty + 1] ELSE [m |-> m, qty |-> 1]]
        /\ s'.sel.qty <= MaxQty
  /\ starts' = starts + 1
  /\ overlapped' = (overlapped \/ \E d \in Calls : Busy(d))
  /\ UNCHANGED <<call, servers, lost>>

\* The user answers in the approval inbox.
Decide ==
  /\ Quiet
  /\ \E id \in Ids, answer \in {"approved", "denied"} :
       /\ approvals[id] = "asked"
       /\ approvals' = [approvals EXCEPT ![id] = answer]
  /\ UNCHANGED <<s, call, store, policies, grants, orders, history, lost>>

\* The user edits the policy in the wallet.
EditPolicy ==
  /\ Quiet
  /\ starts < MaxStarts
  /\ \E policy \in Policies : policies' = Append(policies, policy)
  /\ starts' = starts + 1
  /\ UNCHANGED <<s, call, store, approvals, grants, orders, overlapped, lost>>

Next == (\E c \in Calls : Start(c) \/ Step(c) \/ Fail(c)) \/ AtOnce \/ Decide \/ EditPolicy

Spec == Init /\ [][Next]_vars

-----------------------------------------------------------------------------
(***************************************************************************)
(* Properties.                                                             *)
(***************************************************************************)
\* An order without the user present is paid under the open payment mandate that was
\* signed for its open checkout mandate, whatever handlers overwrote in between and
\* wherever issuing a pair of them broke off.
PaidUnderOneGrant ==
  \A o \in orders : (o.cm.open # None /\ o.pm.open # None) => o.cm.open.grant = o.pm.open.ref

\* An order the agent signed is of a checkout the user approved, or its total was
\* within an autonomy policy the wallet had between the start of that payment and its
\* signature: whatever handlers update, approve and sign, and however the user edits the
\* policy, while the agent waits for the policy and for the approval it then acts on.
AutonomyNeedsApproval ==
  \A o \in orders : o.pm.open # None =>
    \/ approvals[o.id] = "approved"
    \/ \E k \in o.pm.window : ~Violates(policies[k], o.total)

\* Once every handler has returned, none overlapped and no answer was lost, the session
\* holds its checkout with the lines and the total the merchant has, and knows whether
\* it is completed.  Only a completion that was refused leaves the merchant a status the
\* session does not learn: ready again after an escalation, or in progress.
CopyIsCurrent ==
  ((\A c \in Calls : ~Busy(c)) /\ ~overlapped /\ ~lost /\ s.co # None)
  => LET live == store[s.co.id] IN
     /\ \A f \in {"m", "qty", "price", "extra"} : s.co[f] = live[f]
     /\ s.co.st # live.st =>
          live.st = "in_progress" \/ (live.st = "open" /\ s.co.st = "escalated")

\* An autonomous run that nothing overlapped neither takes a payment token for nor
\* completes a checkout above the user's number, if there is one, or at a merchant the
\* user did not allow, whatever prices did since the search.
PaysWithinWish ==
  [][\A c \in Calls :
       (call'[c].at \in {"minted", "answer"} /\ call'[c].at # call[c].at
         /\ call[c].auto /\ ~overlapped)
       => Within(Total(s.co), SpendCap) /\ s.co.m \in call[c].merchants]_vars

(***************************************************************************)
(* What comments say and the code does not do.                             *)
(***************************************************************************)
\* orchestrator.ts:541, "The chosen payment method becomes a signed
\* allowed_payment_instruments constraint — the PSP rejects any other instrument."
InstrumentIsAllowed ==
  \A o \in orders : (o.pm.open # None /\ o.pm.open.method # None) => o.method = o.pm.open.method
=============================================================================
