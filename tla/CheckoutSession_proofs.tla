----------------------- MODULE CheckoutSession_proofs -----------------------
(***************************************************************************)
(* Proofs about CheckoutSession, for every set of calls and checkouts.     *)
(***************************************************************************)
EXTENDS CheckoutSession, FiniteSetTheorems, TLAPS

-----------------------------------------------------------------------------
(***************************************************************************)
(* The shapes of steps.                                                    *)
(***************************************************************************)
\* The map refers to objects of its session, and so does a call that waits.
RefInv ==
  /\ \A c \in Checkouts : current[c] # 0 => heap[current[c]].checkout = c
  /\ \A h \in Calls : completes[h].pc \in Waiting =>
       /\ completes[h].obj \in DOMAIN heap
       /\ heap[completes[h].obj].checkout = completes[h].checkout

HeapInv == TypeOK /\ RefInv

\* Object o of session c was refreshed and its signed copy published.
Resigned(c, o) ==
  /\ o \in DOMAIN heap /\ heap[o].checkout = c
  /\ heap' \in Seq(Object) /\ Len(heap') = Len(heap) + 1
  /\ \A k \in DOMAIN heap :
       heap'[k].checkout = heap[k].checkout /\ (k # o => heap'[k] = heap[k])
  /\ heap'[Len(heap')] = heap'[o]
  /\ heap'[o].total = qty'[c] + heap'[o].fee
  /\ current' = [current EXCEPT ![c] = Len(heap')]
  /\ offers' = offers \cup {[checkout |-> c, qty |-> qty'[c], total |-> heap'[o].total]}

\* An object's status alone changed.
Marked(o, status) ==
  /\ o \in DOMAIN heap
  /\ heap' = [heap EXCEPT ![o].status = status]

\* What a refresh makes of a status it does recompute.
Open == {"ready_for_complete", "incomplete"}

\* What refreshing does to a heap: object o is recomputed, and copied to the end.
LEMMA RefreshedHeap ==
  ASSUME NEW g \in Seq(Object), NEW o \in DOMAIN g, NEW q \in Nat
  PROVE  /\ Refreshed(g, o, q) \in Seq(Object)
         /\ Len(Refreshed(g, o, q)) = Len(g) + 1
         /\ \A k \in DOMAIN g : k # o => Refreshed(g, o, q)[k] = g[k]
         /\ Refreshed(g, o, q)[Len(g) + 1] = Refreshed(g, o, q)[o]
         /\ Refreshed(g, o, q)[o].checkout = g[o].checkout
         /\ Refreshed(g, o, q)[o].fee = g[o].fee
         /\ Refreshed(g, o, q)[o].total = q + g[o].fee
         /\ g[o].status \in Kept => Refreshed(g, o, q)[o].status = g[o].status
         /\ g[o].status \notin Kept => Refreshed(g, o, q)[o].status \in Open
  <1>. DEFINE status == IF g[o].status \in Kept THEN g[o].status
                        ELSE IF g[o].ready THEN "ready_for_complete" ELSE "incomplete"
              co == [g[o] EXCEPT !.total = q + g[o].fee, !.status = status]
              refreshed == Append([g EXCEPT ![o] = co], co)
  <1>1. Refreshed(g, o, q) = refreshed
    BY DEF Refreshed
  <1>2. g[o] \in Object
    OBVIOUS
  <1>3. q + g[o].fee \in Int
    <2>1. g[o].fee \in Fees
      BY <1>2 DEF Object
    <2>2. g[o].fee \in Int
      BY <2>1, CheckoutAssumption DEF CheckoutAssumption
    <2>. QED BY <2>2
  <1>8. status \in Status
    BY <1>2 DEF Object, Status
  <1>. HIDE DEF status
  <1>4. co \in Object
    BY <1>2, <1>3, <1>8 DEF Object
  <1>5. /\ co.checkout = g[o].checkout /\ co.fee = g[o].fee
        /\ co.total = q + g[o].fee /\ co.status = status
    BY <1>2 DEF Object
  <1>. HIDE DEF co
  <1>6. [g EXCEPT ![o] = co] \in Seq(Object) /\ Len([g EXCEPT ![o] = co]) = Len(g)
    BY <1>4
  <1>7. /\ refreshed \in Seq(Object) /\ Len(refreshed) = Len(g) + 1
        /\ refreshed[Len(g) + 1] = co /\ refreshed[o] = co
        /\ \A k \in DOMAIN g : k # o => refreshed[k] = g[k]
    BY <1>4, <1>6
  <1>. QED BY <1>1, <1>5, <1>7 DEF status, Open

\* A refresh of an object whose fields, but not its session, may have been set before.
LEMMA RefreshResigns ==
  ASSUME HeapInv, NEW c \in Checkouts, NEW o \in DOMAIN heap, heap[o].checkout = c,
         NEW g \in Seq(Object), DOMAIN g = DOMAIN heap, g[o].checkout = c,
         \A k \in DOMAIN heap : k # o => g[k] = heap[k],
         qty'[c] \in Nat, heap' = Refreshed(g, o, qty'[c]), Publish(c)
  PROVE  /\ Resigned(c, o) /\ heap'[o].fee = g[o].fee
         /\ g[o].status \in Kept => heap'[o].status = g[o].status
         /\ g[o].status \notin Kept => heap'[o].status \in Open
  <1>1. heap \in Seq(Object)
    BY DEF HeapInv, TypeOK
  <1>2. Len(g) = Len(heap)
    BY <1>1
  <1>3. /\ heap' \in Seq(Object) /\ Len(heap') = Len(heap) + 1
        /\ \A k \in DOMAIN heap : k # o => heap'[k] = heap[k]
        /\ heap'[Len(heap')] = heap'[o]
        /\ heap'[o].checkout = c /\ heap'[o].fee = g[o].fee
        /\ heap'[o].total = qty'[c] + g[o].fee
        /\ g[o].status \in Kept => heap'[o].status = g[o].status
        /\ g[o].status \notin Kept => heap'[o].status \in Open
    <2>. DEFINE q == qty'[c]
    <2>1. q \in Nat /\ o \in DOMAIN g /\ heap' = Refreshed(g, o, q)
      OBVIOUS
    <2>. HIDE DEF q
    <2>2. /\ Refreshed(g, o, q) \in Seq(Object)
          /\ Len(Refreshed(g, o, q)) = Len(g) + 1
          /\ \A k \in DOMAIN g : k # o => Refreshed(g, o, q)[k] = g[k]
          /\ Refreshed(g, o, q)[Len(g) + 1] = Refreshed(g, o, q)[o]
          /\ Refreshed(g, o, q)[o].checkout = g[o].checkout
          /\ Refreshed(g, o, q)[o].fee = g[o].fee
          /\ Refreshed(g, o, q)[o].total = q + g[o].fee
          /\ g[o].status \in Kept => Refreshed(g, o, q)[o].status = g[o].status
          /\ g[o].status \notin Kept => Refreshed(g, o, q)[o].status \in Open
      BY <2>1, RefreshedHeap, Zenon
    <2>. QED BY <1>2, <2>1, <2>2 DEF q
  <1>. QED BY <1>3 DEF Resigned, Publish

-----------------------------------------------------------------------------
(***************************************************************************)
(* The shapes of the actions that refresh a session.                       *)
(***************************************************************************)
\* update_checkout refreshes the live object, after setting its fee and readiness.
LEMMA UpdateResigns ==
  ASSUME HeapInv, NEW c \in Checkouts, NEW q \in Quantities, NEW fee \in Fees,
         NEW ready \in BOOLEAN, UpdateCheckout(c, q, fee, ready)
  PROVE  /\ Resigned(c, current[c]) /\ qty' = [qty EXCEPT ![c] = q] /\ q \in Nat
         /\ Live(c).status \in Kept => heap'[current[c]].status = Live(c).status
         /\ Live(c).status \notin Kept => heap'[current[c]].status \in Open
  <1>. DEFINE o == current[c]
              g == [heap EXCEPT ![o].fee = fee, ![o].ready = ready]
  <1>1. heap \in Seq(Object) /\ o \in DOMAIN heap /\ heap[o].checkout = c
    BY DEF HeapInv, TypeOK, RefInv, UpdateCheckout, Created
  <1>2. q \in Nat /\ qty' = [qty EXCEPT ![c] = q] /\ qty'[c] = q
    BY CheckoutAssumption DEF CheckoutAssumption, UpdateCheckout, HeapInv, TypeOK
  <1>3. heap[o] \in Object
    BY <1>1
  <1>4. /\ g \in Seq(Object) /\ DOMAIN g = DOMAIN heap /\ g[o].checkout = c
        /\ g[o].status = heap[o].status
        /\ \A k \in DOMAIN heap : k # o => g[k] = heap[k]
    <2>. DEFINE charged == [heap EXCEPT ![o].fee = fee]
    <2>. HIDE DEF o
    <2>1. /\ charged \in Seq(Object) /\ DOMAIN charged = DOMAIN heap
          /\ charged[o] \in Object /\ charged[o].checkout = c
          /\ charged[o].status = heap[o].status
          /\ \A k \in DOMAIN heap : k # o => charged[k] = heap[k]
      BY <1>1, <1>3 DEF Object
    <2>2. g = [charged EXCEPT ![o] = [charged[o] EXCEPT !.ready = ready]]
      OBVIOUS
    <2>. HIDE DEF g, charged
    <2>3. /\ [charged[o] EXCEPT !.ready = ready] \in Object
          /\ [charged[o] EXCEPT !.ready = ready].checkout = c
          /\ [charged[o] EXCEPT !.ready = ready].status = heap[o].status
      BY <2>1 DEF Object
    <2>. QED BY <1>1, <2>1, <2>2, <2>3
  <1>5. heap' = Refreshed(g, o, qty'[c]) /\ Publish(c)
    BY <1>2 DEF UpdateCheckout
  <1>. HIDE DEF g, o
  <1>6. /\ Resigned(c, o)
        /\ g[o].status \in Kept => heap'[o].status = g[o].status
        /\ g[o].status \notin Kept => heap'[o].status \in Open
    BY <1>1, <1>2, <1>4, <1>5, RefreshResigns, Zenon
  <1>. QED BY <1>2, <1>4, <1>6 DEF o, Live

\* What cancel_checkout, a decline and an order do to the object they hold: its
\* status is set, it is refreshed and published.
LEMMA StatusResigns ==
  ASSUME HeapInv, NEW c \in Checkouts, NEW o \in DOMAIN heap, heap[o].checkout = c,
         NEW s \in Status, qty' = qty, Publish(c),
         heap' = Refreshed([heap EXCEPT ![o].status = s], o, qty[c])
  PROVE  /\ Resigned(c, o) /\ heap'[o].fee = heap[o].fee
         /\ s \in Kept => heap'[o].status = s
         /\ s \notin Kept => heap'[o].status \in Open
  <1>. DEFINE g == [heap EXCEPT ![o].status = s]
  <1>1. heap \in Seq(Object) /\ qty'[c] \in Nat
    BY DEF HeapInv, TypeOK
  <1>2. heap[o] \in Object
    BY <1>1
  <1>3. /\ g \in Seq(Object) /\ DOMAIN g = DOMAIN heap /\ g[o].checkout = c
        /\ g[o].fee = heap[o].fee /\ g[o].status = s
        /\ \A k \in DOMAIN heap : k # o => g[k] = heap[k]
    BY <1>1, <1>2 DEF Object
  <1>4. heap' = Refreshed(g, o, qty'[c])
    OBVIOUS
  <1>. HIDE DEF g
  <1>5. /\ Resigned(c, o) /\ heap'[o].fee = g[o].fee
        /\ g[o].status \in Kept => heap'[o].status = g[o].status
        /\ g[o].status \notin Kept => heap'[o].status \in Open
    BY <1>1, <1>3, <1>4, RefreshResigns, Zenon
  <1>. QED BY <1>3, <1>5

LEMMA CancelResigns ==
  ASSUME HeapInv, NEW c \in Checkouts, CancelCheckout(c)
  PROVE  /\ Resigned(c, current[c]) /\ heap'[current[c]].fee = heap[current[c]].fee
         /\ heap'[current[c]].status = "canceled"
  <1>1. current[c] \in DOMAIN heap /\ heap[current[c]].checkout = c
    BY DEF HeapInv, TypeOK, RefInv, CancelCheckout, Created
  <1>2. "canceled" \in Status /\ "canceled" \in Kept
    BY DEF Status, Kept
  <1>. QED BY <1>1, <1>2, StatusResigns DEF CancelCheckout

\* A call that waits holds an object of its session.
LEMMA HeldObject ==
  ASSUME HeapInv, NEW h \in Calls, completes[h].pc \in Waiting
  PROVE  /\ completes[h].checkout \in Checkouts
         /\ completes[h].obj \in DOMAIN heap
         /\ heap[completes[h].obj].checkout = completes[h].checkout
  BY DEF HeapInv, TypeOK, RefInv

LEMMA DeclineResigns ==
  ASSUME HeapInv, NEW h \in Calls, AuthorizeFailed(h)
  PROVE  /\ Resigned(completes[h].checkout, completes[h].obj)
         /\ heap'[completes[h].obj].fee = heap[completes[h].obj].fee
         /\ heap'[completes[h].obj].status \in Open
  <1>1. completes[h].pc \in Waiting
    BY DEF AuthorizeFailed, At, Waiting
  <1>2. "ready_for_complete" \in Status \ Kept
    BY DEF Status, Kept
  <1>. QED BY <1>1, <1>2, HeldObject, StatusResigns DEF AuthorizeFailed

LEMMA OrderResigns ==
  ASSUME HeapInv, NEW h \in Calls, PlaceOrder(h)
  PROVE  /\ Resigned(completes[h].checkout, completes[h].obj)
         /\ heap'[completes[h].obj].fee = heap[completes[h].obj].fee
         /\ heap'[completes[h].obj].status = "completed"
  <1>1. completes[h].pc \in Waiting
    BY DEF PlaceOrder, At, Waiting
  <1>2. "completed" \in Status /\ "completed" \in Kept
    BY DEF Status, Kept
  <1>. QED BY <1>1, <1>2, HeldObject, StatusResigns DEF PlaceOrder

-----------------------------------------------------------------------------
(***************************************************************************)
(* Types and references: HeapInv is inductive.                             *)
(***************************************************************************)
CallOf(n) == [pc: Pc, checkout: Checkouts, obj: 0..n, terms: Terms, charge: Int]

\* Calls that wait after the step waited before it, for the same object.
CallsKept ==
  \A h \in Calls : completes'[h].pc \in Waiting =>
    /\ completes[h].pc \in Waiting
    /\ completes'[h].obj = completes[h].obj
    /\ completes'[h].checkout = completes[h].checkout

LEMMA GotoKeepsCalls ==
  ASSUME HeapInv, NEW h \in Calls, NEW pc \in Pc, completes[h].pc \in Waiting, Goto(h, pc),
         Len(heap') \in {Len(heap), Len(heap) + 1}
  PROVE  CallsKept /\ completes' \in [Calls -> CallOf(Len(heap'))]
  <1>1. completes \in [Calls -> CallOf(Len(heap))] /\ Len(heap) \in Nat
    BY DEF HeapInv, TypeOK, CallOf
  <1>2. completes' = [completes EXCEPT ![h].pc = pc]
    BY DEF Goto
  <1>3. CallsKept
    BY <1>1, <1>2 DEF CallsKept, CallOf
  <1>4. ASSUME NEW k \in Calls
        PROVE  completes'[k] \in CallOf(Len(heap'))
    <2>1. completes[k] \in CallOf(Len(heap'))
      BY <1>1 DEF CallOf
    <2>. QED BY <1>1, <1>2, <2>1 DEF CallOf
  <1>. QED BY <1>1, <1>2, <1>3, <1>4

LEMMA SameCalls ==
  ASSUME HeapInv, completes' = completes, Len(heap') \in {Len(heap), Len(heap) + 1}
  PROVE  CallsKept /\ completes' \in [Calls -> CallOf(Len(heap'))]
  <1>1. completes \in [Calls -> CallOf(Len(heap))] /\ Len(heap) \in Nat
    BY DEF HeapInv, TypeOK, CallOf
  <1>2. ASSUME NEW k \in Calls
        PROVE  completes[k] \in CallOf(Len(heap'))
    BY <1>1 DEF CallOf
  <1>. QED BY <1>1, <1>2 DEF CallsKept

\* A refresh keeps the references of a merchant typed and within their sessions.
LEMMA ResignedRefs ==
  ASSUME HeapInv, NEW c \in Checkouts, NEW o, Resigned(c, o), CallsKept,
         qty' \in [Checkouts -> Nat]
  PROVE  /\ RefInv' /\ Len(heap') = Len(heap) + 1
         /\ heap' \in Seq(Object) /\ offers' \subseteq Terms
         /\ current' \in [Checkouts -> 0..Len(heap')]
  <1>1. /\ heap \in Seq(Object) /\ Len(heap) \in Nat
        /\ current \in [Checkouts -> 0..Len(heap)] /\ offers \subseteq Terms
    BY DEF HeapInv, TypeOK
  <1>2. /\ heap' \in Seq(Object) /\ Len(heap') = Len(heap) + 1
        /\ \A k \in DOMAIN heap : heap'[k].checkout = heap[k].checkout
        /\ o \in DOMAIN heap /\ heap[o].checkout = c
        /\ heap'[Len(heap')] = heap'[o]
        /\ current' = [current EXCEPT ![c] = Len(heap')]
    BY DEF Resigned
  <1>3. current' \in [Checkouts -> 0..Len(heap')]
    BY <1>1, <1>2
  <1>4. offers' \subseteq Terms
    <2>1. heap'[o] \in Object
      BY <1>1, <1>2
    <2>2. heap'[o].total \in Int
      BY <2>1 DEF Object
    <2>3. [checkout |-> c, qty |-> qty'[c], total |-> heap'[o].total] \in Terms
      BY <2>2 DEF Terms
    <2>4. offers' = offers \cup {[checkout |-> c, qty |-> qty'[c], total |-> heap'[o].total]}
      BY DEF Resigned
    <2>. QED BY <1>1, <2>3, <2>4
  <1>5. ASSUME NEW d \in Checkouts, current'[d] # 0
        PROVE  heap'[current'[d]].checkout = d
    <2>1. CASE d = c
      <3>1. current'[d] = Len(heap')
        BY <1>1, <1>2, <2>1
      <3>. QED BY <1>2, <2>1, <3>1
    <2>2. CASE d # c
      <3>1. current'[d] = current[d] /\ current[d] \in DOMAIN heap
        BY <1>1, <1>2, <1>5, <2>2
      <3>. QED BY <1>2, <1>5, <3>1 DEF HeapInv, RefInv
    <2>. QED BY <2>1, <2>2
  <1>6. ASSUME NEW h \in Calls, completes'[h].pc \in Waiting
        PROVE  /\ completes'[h].obj \in DOMAIN heap'
               /\ heap'[completes'[h].obj].checkout = completes'[h].checkout
    BY <1>1, <1>2, <1>6 DEF HeapInv, RefInv, CallsKept
  <1>. QED BY <1>2, <1>3, <1>4, <1>5, <1>6 DEF RefInv

\* A status change in place keeps them too.
LEMMA MarkedRefs ==
  ASSUME HeapInv, NEW o, NEW s \in Status, Marked(o, s), CallsKept,
         current' \in {current, [current EXCEPT ![heap[o].checkout] = o]}
  PROVE  /\ RefInv' /\ Len(heap') = Len(heap) /\ heap' \in Seq(Object)
         /\ current' \in [Checkouts -> 0..Len(heap')]
         /\ DOMAIN heap' = DOMAIN heap
         /\ \A k \in DOMAIN heap : /\ heap'[k].checkout = heap[k].checkout
                                   /\ heap'[k].total = heap[k].total
                                   /\ heap'[k].fee = heap[k].fee
  <1>1. /\ heap \in Seq(Object) /\ o \in DOMAIN heap
        /\ current \in [Checkouts -> 0..Len(heap)]
    BY DEF HeapInv, TypeOK, Marked
  <1>2. heap[o] \in Object
    BY <1>1
  <1>3. /\ Len(heap') = Len(heap) /\ heap' \in Seq(Object) /\ DOMAIN heap' = DOMAIN heap
        /\ \A k \in DOMAIN heap : /\ heap'[k].checkout = heap[k].checkout
                                  /\ heap'[k].total = heap[k].total
                                  /\ heap'[k].fee = heap[k].fee
    <2>. DEFINE co == [heap[o] EXCEPT !.status = s]
    <2>1. /\ co \in Object /\ co.checkout = heap[o].checkout
          /\ co.total = heap[o].total /\ co.fee = heap[o].fee
      BY <1>2 DEF Object
    <2>2. heap' = [heap EXCEPT ![o] = co]
      BY DEF Marked
    <2>. HIDE DEF co
    <2>. QED BY <1>1, <2>1, <2>2
  <1>4. current' \in [Checkouts -> 0..Len(heap')]
    BY <1>1, <1>3
  <1>5. ASSUME NEW d \in Checkouts, current'[d] # 0
        PROVE  heap'[current'[d]].checkout = d
    <2>1. CASE current'[d] = current[d]
      BY <1>1, <1>3, <1>5, <2>1 DEF HeapInv, RefInv
    <2>2. CASE d = heap[o].checkout /\ current'[d] = o
      BY <1>1, <1>3, <2>2
    <2>. QED BY <1>1, <2>1, <2>2
  <1>6. ASSUME NEW h \in Calls, completes'[h].pc \in Waiting
        PROVE  /\ completes'[h].obj \in DOMAIN heap'
               /\ heap'[completes'[h].obj].checkout = completes'[h].checkout
    BY <1>3, <1>6 DEF HeapInv, RefInv, CallsKept
  <1>. QED BY <1>3, <1>4, <1>5, <1>6 DEF RefInv

\* One of the moves of a call that touch nothing else.
Moved(h, pc) ==
  /\ completes[h].pc \in Waiting
  /\ Goto(h, pc)
  /\ UNCHANGED <<heap, current, qty, orders, declines, offers, history>>

LEMMA MovesAreThese ==
  ASSUME NEW h \in Calls,
         \/ KyaPassed(h) \/ KyaRefused(h) \/ RefuseMandate(h)
         \/ Authorized(h) \/ CaptureFailed(h)
  PROVE  \/ Moved(h, "verify") \/ Moved(h, "failed")
         \/ Moved(h, "capturing") \/ Moved(h, "capture_failed")
  BY DEF Moved, Waiting, At, KyaPassed, KyaRefused, RefuseMandate, Authorized, CaptureFailed

LEMMA InitHeap == Init => HeapInv
  <1>. SUFFICES ASSUME Init PROVE HeapInv
    OBVIOUS
  <1>1. (CHOOSE c \in Checkouts : TRUE) \in Checkouts
    BY CheckoutAssumption DEF CheckoutAssumption
  <1>2. IdleCall \in CallOf(0) /\ IdleCall.pc = "idle"
    BY <1>1 DEF IdleCall, NoTerms, Terms, Pc, CallOf
  <1>3. heap \in Seq(Object) /\ Len(heap) = 0
    BY DEF Init
  <1>4. TypeOK
    BY <1>2, <1>3 DEF Init, TypeOK, NoOrder, CallOf
  <1>5. RefInv
    BY <1>2 DEF Init, RefInv, Waiting
  <1>. QED BY <1>4, <1>5 DEF HeapInv

LEMMA CreateHeap ==
  ASSUME HeapInv, NEW c \in Checkouts, NEW q \in Quantities, NEW fee \in Fees,
         NEW ready \in BOOLEAN, CreateCheckout(c, q, fee, ready)
  PROVE  /\ HeapInv' /\ Len(heap') = Len(heap) + 1
         /\ \A k \in DOMAIN heap : heap'[k] = heap[k]
         /\ heap'[Len(heap')].total = q + fee /\ heap'[Len(heap')].fee = fee
         /\ current' = [current EXCEPT ![c] = Len(heap')]
         /\ qty' = [qty EXCEPT ![c] = q] /\ offers \subseteq offers'
  <1>. DEFINE co == [checkout |-> c, fee |-> fee, ready |-> ready, total |-> q + fee,
                     status |-> IF ready THEN "ready_for_complete" ELSE "incomplete"]
  <1>1. /\ heap \in Seq(Object) /\ Len(heap) \in Nat /\ qty \in [Checkouts -> Nat]
        /\ current \in [Checkouts -> 0..Len(heap)] /\ offers \subseteq Terms
    BY DEF HeapInv, TypeOK
  <1>2. q \in Nat /\ fee \in Int /\ q + fee \in Int
    BY CheckoutAssumption DEF CheckoutAssumption
  <1>3. co \in Object /\ co.checkout = c /\ co.total = q + fee /\ co.fee = fee
    BY <1>2 DEF Object, Status
  <1>4. heap' = Append(heap, co)
    BY DEF CreateCheckout
  <1>. HIDE DEF co
  <1>5. /\ heap' \in Seq(Object) /\ Len(heap') = Len(heap) + 1
        /\ heap'[Len(heap')] = co /\ \A k \in DOMAIN heap : heap'[k] = heap[k]
    BY <1>1, <1>3, <1>4
  <1>6. /\ current' = [current EXCEPT ![c] = Len(heap')]
        /\ current' \in [Checkouts -> 0..Len(heap')]
    BY <1>1, <1>5 DEF CreateCheckout, Publish
  <1>7. qty' = [qty EXCEPT ![c] = q] /\ qty' \in [Checkouts -> Nat] /\ qty'[c] = q
    BY <1>1, <1>2 DEF CreateCheckout
  <1>8. offers \subseteq offers' /\ offers' \subseteq Terms
    <2>1. [checkout |-> c, qty |-> q, total |-> q + fee] \in Terms
      BY <1>2 DEF Terms
    <2>2. offers' = offers \cup {[checkout |-> c, qty |-> q, total |-> q + fee]}
      BY <1>3, <1>5, <1>7 DEF CreateCheckout, Publish
    <2>. QED BY <1>1, <2>1, <2>2
  <1>9. CallsKept /\ completes' \in [Calls -> CallOf(Len(heap'))]
    BY <1>5, SameCalls DEF CreateCheckout
  <1>10. TypeOK'
    BY <1>5, <1>6, <1>7, <1>8, <1>9 DEF HeapInv, TypeOK, CallOf, CreateCheckout, history
  <1>11. RefInv'
    <2>1. ASSUME NEW d \in Checkouts, current'[d] # 0
          PROVE  heap'[current'[d]].checkout = d
      <3>1. CASE d = c
        <4>1. current'[d] = Len(heap')
          BY <1>1, <1>6, <3>1
        <4>. QED BY <1>3, <1>5, <3>1, <4>1
      <3>2. CASE d # c
        <4>1. current'[d] = current[d] /\ current[d] \in DOMAIN heap
          BY <1>1, <1>6, <2>1, <3>2
        <4>. QED BY <1>5, <2>1, <4>1 DEF HeapInv, RefInv
      <3>. QED BY <3>1, <3>2
    <2>2. ASSUME NEW h \in Calls, completes'[h].pc \in Waiting
          PROVE  /\ completes'[h].obj \in DOMAIN heap'
                 /\ heap'[completes'[h].obj].checkout = completes'[h].checkout
      BY <1>1, <1>5, <1>9, <2>2 DEF HeapInv, RefInv, CallsKept
    <2>. QED BY <2>1, <2>2 DEF RefInv
  <1>. QED BY <1>3, <1>5, <1>6, <1>7, <1>8, <1>10, <1>11 DEF HeapInv

LEMMA MoveHeap ==
  ASSUME HeapInv, NEW h \in Calls, NEW pc \in Pc, Moved(h, pc)
  PROVE  HeapInv'
  <1>1. CallsKept /\ completes' \in [Calls -> CallOf(Len(heap'))]
    BY GotoKeepsCalls DEF Moved
  <1>2. TypeOK'
    BY <1>1 DEF HeapInv, TypeOK, CallOf, Moved, history
  <1>3. RefInv'
    BY <1>1 DEF HeapInv, RefInv, CallsKept, Moved
  <1>. QED BY <1>2, <1>3 DEF HeapInv

LEMMA StartHeap ==
  ASSUME HeapInv, NEW h \in Calls, NEW terms \in offers, StartComplete(h, terms)
  PROVE  /\ HeapInv'
         /\ completes' = [completes EXCEPT ![h] =
              [pc |-> "kya", checkout |-> terms.checkout, obj |-> current[terms.checkout],
               terms |-> terms, charge |-> 0]]
         /\ terms.checkout \in Checkouts
  <1>. DEFINE c == terms.checkout
              call == [pc |-> "kya", checkout |-> c, obj |-> current[c],
                       terms |-> terms, charge |-> 0]
  <1>1. terms \in Terms /\ c \in Checkouts
    BY DEF HeapInv, TypeOK, Terms
  <1>2. current[c] \in 0..Len(heap) /\ current[c] # 0
    BY <1>1 DEF HeapInv, TypeOK, StartComplete, Created
  <1>3. call \in CallOf(Len(heap))
    BY <1>1, <1>2 DEF CallOf, Pc
  <1>4. completes' = [completes EXCEPT ![h] = call]
    BY DEF StartComplete
  <1>5. heap[current[c]].checkout = c /\ current[c] \in DOMAIN heap
    BY <1>1, <1>2 DEF HeapInv, TypeOK, RefInv
  <1>6. call.obj = current[c] /\ call.checkout = c
    OBVIOUS
  <1>. HIDE DEF call
  <1>7. completes \in [Calls -> CallOf(Len(heap))]
    BY DEF HeapInv, TypeOK, CallOf
  <1>8. completes' \in [Calls -> CallOf(Len(heap'))]
    BY <1>3, <1>4, <1>7 DEF StartComplete
  <1>9. TypeOK'
    BY <1>1, <1>8 DEF HeapInv, TypeOK, CallOf, StartComplete
  <1>10. RefInv'
    BY <1>4, <1>5, <1>6, <1>7 DEF HeapInv, RefInv, StartComplete
  <1>. QED BY <1>1, <1>9, <1>10 DEF HeapInv, StartComplete

LEMMA RequestHeap ==
  ASSUME HeapInv, NEW h \in Calls, RequestAuthorization(h)
  PROVE  HeapInv' /\ CallsKept /\ Marked(completes[h].obj, "complete_in_progress")
  <1>. DEFINE o == completes[h].obj
  <1>1. completes[h].pc \in Waiting /\ Len(heap') = Len(heap)
    BY DEF RequestAuthorization, At, Waiting, HeapInv, TypeOK
  <1>2. o \in DOMAIN heap
    BY <1>1, HeldObject
  <1>3. heap \in Seq(Object) /\ heap[o] \in Object
    BY <1>2 DEF HeapInv, TypeOK
  <1>4. heap[o].total \in Int
    BY <1>3 DEF Object
  <1>5. completes \in [Calls -> CallOf(Len(heap))]
    BY DEF HeapInv, TypeOK, CallOf
  <1>6. completes' = [completes EXCEPT ![h] =
                        [@ EXCEPT !.pc = "authorizing", !.charge = heap[o].total]]
    BY <1>5 DEF RequestAuthorization
  <1>7. completes' \in [Calls -> CallOf(Len(heap'))]
    BY <1>1, <1>4, <1>5, <1>6 DEF CallOf, Pc
  <1>8. CallsKept
    BY <1>1, <1>5, <1>6 DEF CallsKept, CallOf
  <1>9. Marked(o, "complete_in_progress") /\ "complete_in_progress" \in Status
    BY <1>2 DEF Marked, RequestAuthorization, Status
  <1>10. /\ RefInv' /\ heap' \in Seq(Object) /\ current' \in [Checkouts -> 0..Len(heap')]
    BY <1>8, <1>9, MarkedRefs DEF RequestAuthorization
  <1>11. TypeOK'
    BY <1>7, <1>10 DEF HeapInv, TypeOK, CallOf, RequestAuthorization, history
  <1>. QED BY <1>8, <1>9, <1>10, <1>11 DEF HeapInv

LEMMA EscalateHeap ==
  ASSUME HeapInv, NEW h \in Calls, Escalate(h)
  PROVE  HeapInv' /\ CallsKept /\ Marked(completes[h].obj, "requires_escalation")
  <1>. DEFINE o == completes[h].obj
  <1>1. completes[h].pc \in Waiting /\ Len(heap') = Len(heap)
    BY DEF Escalate, At, Waiting, HeapInv, TypeOK
  <1>2. o \in DOMAIN heap /\ heap[o].checkout = completes[h].checkout
    BY <1>1, HeldObject
  <1>3. CallsKept /\ completes' \in [Calls -> CallOf(Len(heap'))]
    BY <1>1, GotoKeepsCalls DEF Escalate, Pc
  <1>4. Marked(o, "requires_escalation") /\ "requires_escalation" \in Status
    BY <1>2 DEF Marked, Escalate, Status
  <1>5. /\ RefInv' /\ heap' \in Seq(Object) /\ current' \in [Checkouts -> 0..Len(heap')]
    BY <1>2, <1>3, <1>4, MarkedRefs DEF Escalate
  <1>6. TypeOK'
    BY <1>3, <1>5 DEF HeapInv, TypeOK, CallOf, Escalate, history
  <1>. QED BY <1>3, <1>4, <1>5, <1>6 DEF HeapInv

LEMMA UpdateHeap ==
  ASSUME HeapInv, NEW c \in Checkouts, NEW q \in Quantities, NEW fee \in Fees,
         NEW ready \in BOOLEAN, UpdateCheckout(c, q, fee, ready)
  PROVE  HeapInv' /\ CallsKept
  <1>1. /\ Resigned(c, current[c]) /\ qty' = [qty EXCEPT ![c] = q] /\ q \in Nat
    BY UpdateResigns
  <1>2. qty' \in [Checkouts -> Nat] /\ Len(heap') = Len(heap) + 1
    BY <1>1 DEF HeapInv, TypeOK, Resigned
  <1>3. CallsKept /\ completes' \in [Calls -> CallOf(Len(heap'))]
    BY <1>2, SameCalls DEF UpdateCheckout
  <1>4. /\ RefInv' /\ heap' \in Seq(Object) /\ offers' \subseteq Terms
        /\ current' \in [Checkouts -> 0..Len(heap')]
    BY <1>1, <1>2, <1>3, ResignedRefs
  <1>5. disturbed' \subseteq Checkouts
    BY DEF UpdateCheckout, HeapInv, TypeOK
  <1>6. TypeOK'
    BY <1>2, <1>3, <1>4, <1>5 DEF HeapInv, TypeOK, CallOf, UpdateCheckout
  <1>. QED BY <1>3, <1>4, <1>6 DEF HeapInv

LEMMA CancelHeap ==
  ASSUME HeapInv, NEW c \in Checkouts, CancelCheckout(c)
  PROVE  HeapInv' /\ CallsKept
  <1>1. Resigned(c, current[c]) /\ qty' = qty
    BY CancelResigns DEF CancelCheckout
  <1>2. qty' \in [Checkouts -> Nat] /\ Len(heap') = Len(heap) + 1
    BY <1>1 DEF HeapInv, TypeOK, Resigned
  <1>3. CallsKept /\ completes' \in [Calls -> CallOf(Len(heap'))]
    BY <1>2, SameCalls DEF CancelCheckout
  <1>4. /\ RefInv' /\ heap' \in Seq(Object) /\ offers' \subseteq Terms
        /\ current' \in [Checkouts -> 0..Len(heap')]
    BY <1>1, <1>2, <1>3, ResignedRefs
  <1>5. TypeOK'
    BY <1>2, <1>3, <1>4 DEF HeapInv, TypeOK, CallOf, CancelCheckout, history
  <1>. QED BY <1>3, <1>4, <1>5 DEF HeapInv

LEMMA DeclineHeap ==
  ASSUME HeapInv, NEW h \in Calls, AuthorizeFailed(h)
  PROVE  HeapInv' /\ CallsKept
  <1>. DEFINE c == completes[h].checkout
  <1>1. completes[h].pc \in Waiting
    BY DEF AuthorizeFailed, At, Waiting
  <1>2. c \in Checkouts /\ Resigned(c, completes[h].obj) /\ qty' = qty
    BY <1>1, HeldObject, DeclineResigns DEF AuthorizeFailed
  <1>3. qty' \in [Checkouts -> Nat] /\ Len(heap') = Len(heap) + 1
    BY <1>2 DEF HeapInv, TypeOK, Resigned
  <1>4. CallsKept /\ completes' \in [Calls -> CallOf(Len(heap'))]
    BY <1>1, <1>3, GotoKeepsCalls DEF AuthorizeFailed, Pc
  <1>5. /\ RefInv' /\ heap' \in Seq(Object) /\ offers' \subseteq Terms
        /\ current' \in [Checkouts -> 0..Len(heap')]
    BY <1>2, <1>3, <1>4, ResignedRefs
  <1>6. declines' \in Nat
    BY DEF AuthorizeFailed, HeapInv, TypeOK
  <1>7. TypeOK'
    BY <1>3, <1>4, <1>5, <1>6 DEF HeapInv, TypeOK, CallOf, AuthorizeFailed, history
  <1>. QED BY <1>4, <1>5, <1>7 DEF HeapInv

LEMMA PlaceHeap ==
  ASSUME HeapInv, NEW h \in Calls, PlaceOrder(h)
  PROVE  HeapInv' /\ CallsKept
  <1>. DEFINE c == completes[h].checkout
  <1>1. completes[h].pc \in Waiting
    BY DEF PlaceOrder, At, Waiting
  <1>2. /\ c \in Checkouts /\ Resigned(c, completes[h].obj) /\ qty' = qty
        /\ completes[h].obj \in DOMAIN heap
    BY <1>1, HeldObject, OrderResigns DEF PlaceOrder
  <1>3. qty' \in [Checkouts -> Nat] /\ Len(heap') = Len(heap) + 1
    BY <1>2 DEF HeapInv, TypeOK, Resigned
  <1>4. CallsKept /\ completes' \in [Calls -> CallOf(Len(heap'))]
    BY <1>1, <1>3, GotoKeepsCalls DEF PlaceOrder, Pc
  <1>5. /\ RefInv' /\ heap' \in Seq(Object) /\ offers' \subseteq Terms
        /\ current' \in [Checkouts -> 0..Len(heap')]
    BY <1>2, <1>3, <1>4, ResignedRefs
  <1>6. heap[completes[h].obj].total \in Int /\ qty[c] \in Nat
    <2>1. heap[completes[h].obj] \in Object
      BY <1>2 DEF HeapInv, TypeOK
    <2>. QED BY <1>2, <2>1 DEF Object, HeapInv, TypeOK
  <1>7. orders' \in [Calls -> [placed: BOOLEAN, qty: Nat, total: Int]]
    BY <1>6 DEF PlaceOrder, HeapInv, TypeOK
  <1>8. TypeOK'
    BY <1>3, <1>4, <1>5, <1>7 DEF HeapInv, TypeOK, CallOf, PlaceOrder, history
  <1>. QED BY <1>4, <1>5, <1>8 DEF HeapInv

LEMMA StepHeap ==
  ASSUME HeapInv, [Next]_vars
  PROVE  HeapInv'
  <1>1. ASSUME NEW c \in Checkouts, NEW q \in Quantities, NEW fee \in Fees,
               NEW ready \in BOOLEAN, CreateCheckout(c, q, fee, ready)
        PROVE  HeapInv'
    BY <1>1, CreateHeap
  <1>2. ASSUME NEW c \in Checkouts, NEW q \in Quantities, NEW fee \in Fees,
               NEW ready \in BOOLEAN, UpdateCheckout(c, q, fee, ready)
        PROVE  HeapInv'
    BY <1>2, UpdateHeap
  <1>3. ASSUME NEW c \in Checkouts, CancelCheckout(c)
        PROVE  HeapInv'
    BY <1>3, CancelHeap
  <1>4. ASSUME NEW h \in Calls, NEW terms \in offers, StartComplete(h, terms)
        PROVE  HeapInv'
    BY <1>4, StartHeap
  <1>5. ASSUME NEW h \in Calls, Resume(h)
        PROVE  HeapInv'
    <2>1. CASE \E pc \in Pc : Moved(h, pc)
      BY <2>1, MoveHeap
    <2>2. CASE RequestAuthorization(h)
      BY <2>2, RequestHeap
    <2>3. CASE AuthorizeFailed(h)
      BY <2>3, DeclineHeap
    <2>4. CASE Escalate(h)
      BY <2>4, EscalateHeap
    <2>5. CASE PlaceOrder(h)
      BY <2>5, PlaceHeap
    <2>6. {"verify", "failed", "capturing", "capture_failed"} \subseteq Pc
      BY DEF Pc
    <2>. QED BY <1>5, <2>1, <2>2, <2>3, <2>4, <2>5, <2>6, MovesAreThese DEF Resume
  <1>6. CASE UNCHANGED vars
    BY <1>6 DEF vars, HeapInv, TypeOK, RefInv
  <1>. QED BY <1>1, <1>2, <1>3, <1>4, <1>5, <1>6 DEF Next, Sessions, CompleteCheckout

LEMMA HeapAlways == Spec => []HeapInv
  BY InitHeap, StepHeap, PTL DEF Spec

\* The merchant's maps are typed, and every reference to a checkout object, of the
\* session map and of a waiting complete_checkout, is into the heap.
THEOREM TypeCorrect == Spec => []TypeOK
  <1>1. HeapInv => TypeOK
    BY DEF HeapInv
  <1>. QED BY <1>1, HeapAlways, PTL

-----------------------------------------------------------------------------
(***************************************************************************)
(* Totals: as long as no update disturbs it, the live object of a session  *)
(* and the objects its calls hold all say what the line items cost.        *)
(***************************************************************************)
HeldInv ==
  \A h \in Calls : completes[h].pc \in Waiting =>
    /\ Created(completes[h].checkout)
    /\ completes[h].checkout \notin disturbed =>
         heap[completes[h].obj].total = qty[completes[h].checkout] + heap[completes[h].obj].fee

TotalInv == HeapInv /\ LiveTotalIsCurrent /\ HeldInv

\* What a step does to the object an undisturbed call holds: nothing but its status.
HeldKept(h) ==
  LET c == completes[h].checkout  o == completes[h].obj IN
  c \notin disturbed' => /\ c \notin disturbed
                         /\ qty'[c] = qty[c]
                         /\ heap'[o].total = heap[o].total
                         /\ heap'[o].fee = heap[o].fee

\* A refresh that leaves line items and fee alone changes no total.
LEMMA ResignedHeld ==
  ASSUME TotalInv, NEW c \in Checkouts, NEW o, Resigned(c, o), qty' = qty,
         heap'[o].fee = heap[o].fee, disturbed' = disturbed,
         NEW h \in Calls, completes[h].pc \in Waiting
  PROVE  HeldKept(h)
  <1>. DEFINE d == completes[h].checkout  k == completes[h].obj
  <1>1. k \in DOMAIN heap /\ heap[k].checkout = d /\ d \in Checkouts
    BY HeldObject DEF TotalInv
  <1>2. CASE k # o
    BY <1>1, <1>2 DEF HeldKept, Resigned
  <1>3. CASE k = o
    <2>1. d = c /\ heap'[o].total = qty[c] + heap[o].fee
      BY <1>1, <1>3 DEF Resigned
    <2>2. d \notin disturbed => heap[o].total = qty[c] + heap[o].fee
      BY <1>3, <2>1 DEF TotalInv, HeldInv
    <2>. QED BY <1>3, <2>1, <2>2 DEF HeldKept
  <1>. QED BY <1>2, <1>3

LEMMA UpdateHeld ==
  ASSUME TotalInv, NEW c \in Checkouts, NEW q \in Quantities, NEW fee \in Fees,
         NEW ready \in BOOLEAN, UpdateCheckout(c, q, fee, ready),
         NEW h \in Calls, completes[h].pc \in Waiting
  PROVE  HeldKept(h)
  <1>. DEFINE d == completes[h].checkout  k == completes[h].obj
  <1>1. k \in DOMAIN heap /\ heap[k].checkout = d /\ d \in Checkouts
    BY HeldObject DEF TotalInv
  <1>2. Resigned(c, current[c]) /\ qty' = [qty EXCEPT ![c] = q]
    BY UpdateResigns DEF TotalInv
  <1>3. CASE d = c
    <2>1. h \in InFlight(c)
      BY <1>3 DEF InFlight
    <2>2. c \in disturbed'
      BY <2>1 DEF UpdateCheckout
    <2>. QED BY <1>3, <2>2 DEF HeldKept
  <1>4. CASE d # c
    <2>1. heap'[k] = heap[k]
      BY <1>1, <1>2, <1>4 DEF Resigned
    <2>2. qty'[d] = qty[d]
      BY <1>1, <1>2, <1>4 DEF TotalInv, HeapInv, TypeOK
    <2>3. disturbed \subseteq disturbed'
      BY DEF UpdateCheckout
    <2>. QED BY <2>1, <2>2, <2>3 DEF HeldKept
  <1>. QED BY <1>3, <1>4

LEMMA CreateHeld ==
  ASSUME TotalInv, NEW c \in Checkouts, NEW q \in Quantities, NEW fee \in Fees,
         NEW ready \in BOOLEAN, CreateCheckout(c, q, fee, ready),
         NEW h \in Calls, completes[h].pc \in Waiting
  PROVE  HeldKept(h)
  <1>. DEFINE d == completes[h].checkout  k == completes[h].obj
  <1>1. k \in DOMAIN heap /\ d \in Checkouts
    BY HeldObject DEF TotalInv
  <1>2. d # c
    BY DEF TotalInv, HeldInv, CreateCheckout, Created
  <1>3. heap'[k] = heap[k] /\ qty' = [qty EXCEPT ![c] = q]
    BY <1>1, CreateHeap DEF TotalInv
  <1>4. qty'[d] = qty[d]
    BY <1>1, <1>2, <1>3 DEF TotalInv, HeapInv, TypeOK
  <1>5. disturbed' = disturbed
    BY DEF CreateCheckout, history
  <1>. QED BY <1>3, <1>4, <1>5 DEF HeldKept

LEMMA MarkedHeld ==
  ASSUME TotalInv, NEW o, NEW s \in Status, Marked(o, s), CallsKept,
         current' \in {current, [current EXCEPT ![heap[o].checkout] = o]},
         qty' = qty, disturbed' = disturbed,
         NEW h \in Calls, completes[h].pc \in Waiting
  PROVE  HeldKept(h)
  <1>1. completes[h].obj \in DOMAIN heap
    BY HeldObject DEF TotalInv
  <1>2. /\ heap'[completes[h].obj].total = heap[completes[h].obj].total
        /\ heap'[completes[h].obj].fee = heap[completes[h].obj].fee
    BY <1>1, MarkedRefs DEF TotalInv
  <1>. QED BY <1>2 DEF HeldKept

\* Every step leaves the totals of undisturbed calls alone.
LEMMA StepHeld ==
  ASSUME TotalInv, [Next]_vars, NEW h \in Calls, completes[h].pc \in Waiting
  PROVE  HeldKept(h)
  <1>0. HeapInv
    BY DEF TotalInv
  <1>1. ASSUME NEW c \in Checkouts, NEW q \in Quantities, NEW fee \in Fees,
               NEW ready \in BOOLEAN, CreateCheckout(c, q, fee, ready)
        PROVE  HeldKept(h)
    BY <1>1, CreateHeld
  <1>2. ASSUME NEW c \in Checkouts, NEW q \in Quantities, NEW fee \in Fees,
               NEW ready \in BOOLEAN, UpdateCheckout(c, q, fee, ready)
        PROVE  HeldKept(h)
    BY <1>2, UpdateHeld
  <1>3. ASSUME NEW c \in Checkouts, CancelCheckout(c)
        PROVE  HeldKept(h)
    BY <1>0, <1>3, CancelResigns, ResignedHeld DEF CancelCheckout, history
  <1>4. ASSUME NEW k \in Calls, NEW terms \in offers, StartComplete(k, terms)
        PROVE  HeldKept(h)
    BY <1>4 DEF StartComplete, HeldKept
  <1>5. ASSUME NEW k \in Calls, Resume(k)
        PROVE  HeldKept(h)
    <2>1. CASE \E pc \in Pc : Moved(k, pc)
      BY <2>1 DEF Moved, HeldKept, history
    <2>2. CASE RequestAuthorization(k)
      <3>1. CallsKept /\ Marked(completes[k].obj, "complete_in_progress")
        BY <1>0, <2>2, RequestHeap
      <3>2. "complete_in_progress" \in Status
        BY DEF Status
      <3>. QED BY <2>2, <3>1, <3>2, MarkedHeld DEF RequestAuthorization, history
    <2>3. CASE AuthorizeFailed(k)
      <3>1. completes[k].pc \in Waiting
        BY <2>3 DEF AuthorizeFailed, At, Waiting
      <3>2. completes[k].checkout \in Checkouts
        BY <1>0, <3>1, HeldObject
      <3>. QED BY <1>0, <2>3, <3>2, DeclineResigns, ResignedHeld DEF AuthorizeFailed, history
    <2>4. CASE Escalate(k)
      <3>1. CallsKept /\ Marked(completes[k].obj, "requires_escalation")
        BY <1>0, <2>4, EscalateHeap
      <3>2. "requires_escalation" \in Status /\ completes[k].pc \in Waiting
        BY <2>4 DEF Status, Escalate, At, Waiting
      <3>3. heap[completes[k].obj].checkout = completes[k].checkout
        BY <1>0, <3>2, HeldObject
      <3>. QED BY <2>4, <3>1, <3>2, <3>3, MarkedHeld DEF Escalate, history
    <2>5. CASE PlaceOrder(k)
      <3>1. completes[k].pc \in Waiting
        BY <2>5 DEF PlaceOrder, At, Waiting
      <3>2. completes[k].checkout \in Checkouts
        BY <1>0, <3>1, HeldObject
      <3>. QED BY <1>0, <2>5, <3>2, OrderResigns, ResignedHeld DEF PlaceOrder, history
    <2>6. {"verify", "failed", "capturing", "capture_failed"} \subseteq Pc
      BY DEF Pc
    <2>. QED BY <1>5, <2>1, <2>2, <2>3, <2>4, <2>5, <2>6, MovesAreThese DEF Resume
  <1>6. CASE UNCHANGED vars
    BY <1>6 DEF vars, HeldKept
  <1>. QED BY <1>1, <1>2, <1>3, <1>4, <1>5, <1>6 DEF Next, Sessions, CompleteCheckout

\* A refreshed session is live with the total of its line items; the others stay.
LEMMA ResignedLive ==
  ASSUME TotalInv, NEW c \in Checkouts, NEW o, Resigned(c, o),
         \A d \in Checkouts : d # c => qty'[d] = qty[d],
         disturbed \subseteq disturbed'
  PROVE  /\ LiveTotalIsCurrent'
         /\ \A d \in Checkouts : Created(d) => Created(d)'
  <1>1. /\ heap \in Seq(Object) /\ current \in [Checkouts -> 0..Len(heap)]
        /\ Len(heap) \in Nat
    BY DEF TotalInv, HeapInv, TypeOK
  <1>2. /\ Len(heap') = Len(heap) + 1 /\ current' = [current EXCEPT ![c] = Len(heap')]
        /\ heap'[Len(heap')] = heap'[o] /\ heap'[o].total = qty'[c] + heap'[o].fee
        /\ heap[o].checkout = c /\ o \in DOMAIN heap
        /\ \A k \in DOMAIN heap : k # o => heap'[k] = heap[k]
    BY DEF Resigned
  <1>3. \A d \in Checkouts : d # c => current'[d] = current[d]
    BY <1>1, <1>2
  <1>6. current'[c] = Len(heap') /\ Len(heap') # 0
    BY <1>1, <1>2
  <1>4. \A d \in Checkouts : Created(d) => Created(d)'
    BY <1>3, <1>6 DEF Created
  <1>5. ASSUME NEW d \in Checkouts \ disturbed', Created(d)'
        PROVE  (Live(d).total = qty[d] + Live(d).fee)'
    <2>1. CASE d = c
      <3>1. heap'[current'[d]] = heap'[o]
        BY <1>2, <1>6, <2>1
      <3>. QED BY <1>2, <2>1, <3>1 DEF Live
    <2>2. CASE d # c
      <3>1. current'[d] = current[d] /\ Created(d) /\ d \notin disturbed
        BY <1>3, <1>5, <2>2 DEF Created
      <3>2. current[d] \in DOMAIN heap /\ heap[current[d]].checkout = d
        BY <1>1, <3>1 DEF TotalInv, HeapInv, RefInv, Created
      <3>3. heap'[current'[d]] = heap[current[d]]
        BY <1>2, <2>2, <3>1, <3>2
      <3>. QED BY <2>2, <3>1, <3>3 DEF Live, TotalInv, LiveTotalIsCurrent
    <2>. QED BY <2>1, <2>2
  <1>. QED BY <1>4, <1>5 DEF LiveTotalIsCurrent, Live, Created

\* A step that changes a status in place keeps the live totals, also when it makes
\* the object of an undisturbed call the live one again.
LEMMA MarkedLive ==
  ASSUME TotalInv, NEW h \in Calls, completes[h].pc \in Waiting,
         NEW s \in Status, Marked(completes[h].obj, s), CallsKept,
         current' \in {current, [current EXCEPT ![completes[h].checkout] = completes[h].obj]},
         qty' = qty, disturbed' = disturbed
  PROVE  /\ LiveTotalIsCurrent'
         /\ \A d \in Checkouts : Created(d) => Created(d)'
  <1>. DEFINE o == completes[h].obj  c == completes[h].checkout
  <1>1. /\ heap \in Seq(Object) /\ current \in [Checkouts -> 0..Len(heap)]
        /\ o \in DOMAIN heap /\ heap[o].checkout = c /\ c \in Checkouts
    BY HeldObject DEF TotalInv, HeapInv, TypeOK
  <1>2. \A k \in DOMAIN heap : heap'[k].total = heap[k].total /\ heap'[k].fee = heap[k].fee
    BY <1>1, MarkedRefs DEF TotalInv
  <1>3. \A d \in Checkouts : current'[d] = current[d] \/ (d = c /\ current'[d] = o)
    BY <1>1
  <1>4. \A d \in Checkouts : Created(d) => Created(d)'
    BY <1>1, <1>3 DEF Created
  <1>5. ASSUME NEW d \in Checkouts \ disturbed', Created(d)'
        PROVE  (Live(d).total = qty[d] + Live(d).fee)'
    <2>1. CASE current'[d] = current[d]
      <3>1. Created(d) /\ current[d] \in DOMAIN heap
        BY <1>1, <1>5, <2>1 DEF Created
      <3>. QED BY <1>2, <2>1, <3>1 DEF Live, TotalInv, LiveTotalIsCurrent
    <2>2. CASE d = c /\ current'[d] = o
      <3>1. heap[o].total = qty[c] + heap[o].fee
        BY <2>2 DEF TotalInv, HeldInv
      <3>. QED BY <1>1, <1>2, <2>2, <3>1 DEF Live
    <2>. QED BY <1>3, <2>1, <2>2
  <1>. QED BY <1>4, <1>5 DEF LiveTotalIsCurrent, Live, Created

\* A new session is live with its total.
LEMMA CreateLive ==
  ASSUME TotalInv, NEW c \in Checkouts, NEW q \in Quantities, NEW fee \in Fees,
         NEW ready \in BOOLEAN, CreateCheckout(c, q, fee, ready)
  PROVE  /\ LiveTotalIsCurrent'
         /\ \A d \in Checkouts : Created(d) => Created(d)'
  <1>1. /\ heap \in Seq(Object) /\ current \in [Checkouts -> 0..Len(heap)]
        /\ Len(heap) \in Nat /\ qty \in [Checkouts -> Nat]
    BY DEF TotalInv, HeapInv, TypeOK
  <1>2. /\ Len(heap') = Len(heap) + 1
        /\ \A k \in DOMAIN heap : heap'[k] = heap[k]
        /\ heap'[Len(heap')].total = q + fee /\ heap'[Len(heap')].fee = fee
        /\ current' = [current EXCEPT ![c] = Len(heap')]
        /\ qty' = [qty EXCEPT ![c] = q]
    BY CreateHeap DEF TotalInv
  <1>3. /\ \A d \in Checkouts : d # c => current'[d] = current[d] /\ qty'[d] = qty[d]
        /\ current'[c] = Len(heap') /\ Len(heap') # 0 /\ qty'[c] = q
    BY <1>1, <1>2
  <1>4. \A d \in Checkouts : Created(d) => Created(d)'
    BY <1>3 DEF Created
  <1>5. ASSUME NEW d \in Checkouts \ disturbed', Created(d)'
        PROVE  (Live(d).total = qty[d] + Live(d).fee)'
    <2>1. CASE d = c
      BY <1>2, <1>3, <2>1 DEF Live
    <2>2. CASE d # c
      <3>1. Created(d) /\ current[d] \in DOMAIN heap /\ d \notin disturbed
        BY <1>1, <1>3, <1>5, <2>2 DEF Created, CreateCheckout, history
      <3>. QED BY <1>2, <1>3, <2>2, <3>1 DEF Live, TotalInv, LiveTotalIsCurrent
    <2>. QED BY <2>1, <2>2
  <1>. QED BY <1>4, <1>5 DEF LiveTotalIsCurrent, Live, Created

LEMMA SameLive ==
  ASSUME LiveTotalIsCurrent, UNCHANGED <<heap, current, qty, disturbed>>
  PROVE  /\ LiveTotalIsCurrent'
         /\ \A d \in Checkouts : Created(d) => Created(d)'
  BY DEF LiveTotalIsCurrent, Live, Created

LEMMA StepLive ==
  ASSUME TotalInv, [Next]_vars
  PROVE  /\ LiveTotalIsCurrent'
         /\ \A d \in Checkouts : Created(d) => Created(d)'
  <1>. DEFINE Goal == /\ LiveTotalIsCurrent'
                      /\ \A d \in Checkouts : Created(d) => Created(d)'
  <1>0. HeapInv /\ LiveTotalIsCurrent
    BY DEF TotalInv
  <1>1. ASSUME NEW c \in Checkouts, NEW q \in Quantities, NEW fee \in Fees,
               NEW ready \in BOOLEAN, CreateCheckout(c, q, fee, ready)
        PROVE  Goal
    BY <1>1, CreateLive
  <1>2. ASSUME NEW c \in Checkouts, NEW q \in Quantities, NEW fee \in Fees,
               NEW ready \in BOOLEAN, UpdateCheckout(c, q, fee, ready)
        PROVE  Goal
    <2>1. Resigned(c, current[c]) /\ qty' = [qty EXCEPT ![c] = q]
      BY <1>0, <1>2, UpdateResigns
    <2>2. \A d \in Checkouts : d # c => qty'[d] = qty[d]
      BY <1>0, <2>1 DEF HeapInv, TypeOK
    <2>3. disturbed \subseteq disturbed'
      BY <1>2 DEF UpdateCheckout
    <2>. QED BY <2>1, <2>2, <2>3, ResignedLive
  <1>3. ASSUME NEW c \in Checkouts, CancelCheckout(c)
        PROVE  Goal
    BY <1>0, <1>3, CancelResigns, ResignedLive DEF CancelCheckout, history
  <1>4. ASSUME NEW h \in Calls, NEW terms \in offers, StartComplete(h, terms)
        PROVE  Goal
    BY <1>0, <1>4, SameLive DEF StartComplete
  <1>5. ASSUME NEW h \in Calls, Resume(h)
        PROVE  Goal
    <2>1. CASE \E pc \in Pc : Moved(h, pc)
      BY <1>0, <2>1, SameLive DEF Moved, history
    <2>2. CASE RequestAuthorization(h)
      <3>1. CallsKept /\ Marked(completes[h].obj, "complete_in_progress")
        BY <1>0, <2>2, RequestHeap
      <3>2. "complete_in_progress" \in Status /\ completes[h].pc \in Waiting
        BY <2>2 DEF Status, RequestAuthorization, At, Waiting
      <3>. QED BY <2>2, <3>1, <3>2, MarkedLive DEF RequestAuthorization, history
    <2>3. CASE AuthorizeFailed(h)
      <3>1. completes[h].pc \in Waiting
        BY <2>3 DEF AuthorizeFailed, At, Waiting
      <3>2. completes[h].checkout \in Checkouts
        BY <1>0, <3>1, HeldObject
      <3>. QED BY <1>0, <2>3, <3>2, DeclineResigns, ResignedLive DEF AuthorizeFailed, history
    <2>4. CASE Escalate(h)
      <3>1. CallsKept /\ Marked(completes[h].obj, "requires_escalation")
        BY <1>0, <2>4, EscalateHeap
      <3>2. "requires_escalation" \in Status /\ completes[h].pc \in Waiting
        BY <2>4 DEF Status, Escalate, At, Waiting
      <3>. QED BY <2>4, <3>1, <3>2, MarkedLive DEF Escalate, history
    <2>5. CASE PlaceOrder(h)
      <3>1. completes[h].pc \in Waiting
        BY <2>5 DEF PlaceOrder, At, Waiting
      <3>2. completes[h].checkout \in Checkouts
        BY <1>0, <3>1, HeldObject
      <3>. QED BY <1>0, <2>5, <3>2, OrderResigns, ResignedLive DEF PlaceOrder, history
    <2>6. {"verify", "failed", "capturing", "capture_failed"} \subseteq Pc
      BY DEF Pc
    <2>. QED BY <1>5, <2>1, <2>2, <2>3, <2>4, <2>5, <2>6, MovesAreThese DEF Resume
  <1>6. CASE UNCHANGED vars
    BY <1>0, <1>6, SameLive DEF vars
  <1>. QED BY <1>1, <1>2, <1>3, <1>4, <1>5, <1>6 DEF Next, Sessions, CompleteCheckout

\* Only complete_checkout starts to wait.
LEMMA StepCalls ==
  ASSUME HeapInv, [Next]_vars
  PROVE  CallsKept \/ \E h \in Calls, terms \in offers : StartComplete(h, terms)
  <1>1. ASSUME NEW c \in Checkouts, NEW q \in Quantities, NEW fee \in Fees,
               NEW ready \in BOOLEAN,
               CreateCheckout(c, q, fee, ready) \/ UpdateCheckout(c, q, fee, ready)
        PROVE  CallsKept
    BY <1>1 DEF CallsKept, CreateCheckout, UpdateCheckout
  <1>2. ASSUME NEW c \in Checkouts, CancelCheckout(c)
        PROVE  CallsKept
    BY <1>2 DEF CallsKept, CancelCheckout
  <1>3. ASSUME NEW h \in Calls, Resume(h)
        PROVE  CallsKept
    <2>1. CASE \E pc \in Pc : Moved(h, pc)
      BY <2>1, GotoKeepsCalls DEF Moved
    <2>2. CASE RequestAuthorization(h)
      BY <2>2, RequestHeap
    <2>3. CASE AuthorizeFailed(h)
      BY <2>3, DeclineHeap
    <2>4. CASE Escalate(h)
      BY <2>4, EscalateHeap
    <2>5. CASE PlaceOrder(h)
      BY <2>5, PlaceHeap
    <2>6. {"verify", "failed", "capturing", "capture_failed"} \subseteq Pc
      BY DEF Pc
    <2>. QED BY <1>3, <2>1, <2>2, <2>3, <2>4, <2>5, <2>6, MovesAreThese DEF Resume
  <1>4. CASE UNCHANGED vars
    BY <1>4 DEF vars, CallsKept
  <1>. QED BY <1>1, <1>2, <1>3, <1>4 DEF Next, Sessions, CompleteCheckout

LEMMA StepTotals ==
  ASSUME TotalInv, [Next]_vars
  PROVE  TotalInv'
  <1>1. HeapInv' /\ LiveTotalIsCurrent'
    BY StepHeap, StepLive DEF TotalInv
  <1>2. CASE CallsKept
    <2>1. ASSUME NEW h \in Calls, completes'[h].pc \in Waiting
          PROVE  /\ Created(completes[h].checkout)'
                 /\ completes'[h].checkout = completes[h].checkout
                 /\ completes'[h].checkout \notin disturbed' =>
                      heap'[completes'[h].obj].total =
                        qty'[completes'[h].checkout] + heap'[completes'[h].obj].fee
      <3>. DEFINE c == completes[h].checkout  o == completes[h].obj
      <3>1. /\ completes[h].pc \in Waiting /\ completes'[h].obj = o
            /\ completes'[h].checkout = c
        BY <1>2, <2>1 DEF CallsKept
      <3>2. c \in Checkouts
        BY <3>1, HeldObject DEF TotalInv
      <3>3. Created(c) /\ (c \notin disturbed => heap[o].total = qty[c] + heap[o].fee)
        BY <3>1 DEF TotalInv, HeldInv
      <3>4. HeldKept(h)
        BY <3>1, StepHeld
      <3>5. current[c] # 0 => current'[c] # 0
        BY <3>2, StepLive DEF Created
      <3>6. current'[completes'[h].checkout] # 0
        BY <3>1, <3>3, <3>5 DEF Created
      <3>. QED BY <3>1, <3>3, <3>4, <3>6 DEF HeldKept, Created
    <2>2. HeldInv'
      BY <2>1 DEF HeldInv, Created
    <2>. QED BY <1>1, <2>2 DEF TotalInv
  <1>3. ASSUME NEW h \in Calls, NEW terms \in offers, StartComplete(h, terms)
        PROVE  HeldInv'
    <2>. DEFINE c == terms.checkout
    <2>1. /\ UNCHANGED <<heap, current, qty, disturbed>>
          /\ current[c] # 0 /\ c \in Checkouts
      BY <1>3, StartHeap DEF StartComplete, Created, TotalInv
    <2>2. c \notin disturbed => heap[current[c]].total = qty[c] + heap[current[c]].fee
      BY <2>1 DEF TotalInv, LiveTotalIsCurrent, Live, Created
    <2>3. completes \in [Calls -> CallOf(Len(heap))]
      BY DEF TotalInv, HeapInv, TypeOK, CallOf
    <2>4. /\ completes'[h].checkout = c /\ completes'[h].obj = current[c]
          /\ \A k \in Calls : k # h => completes'[k] = completes[k]
      BY <1>3, <2>3 DEF StartComplete
    <2>. QED BY <2>1, <2>2, <2>4 DEF TotalInv, HeldInv, Created
  <1>. QED BY <1>1, <1>2, <1>3, StepCalls DEF TotalInv

LEMMA InitTotals == Init => TotalInv
  <1>1. Init => LiveTotalIsCurrent
    BY DEF Init, LiveTotalIsCurrent, Created
  <1>2. Init => HeldInv
    BY DEF Init, HeldInv, IdleCall, Waiting
  <1>. QED BY <1>1, <1>2, InitHeap DEF TotalInv

LEMMA TotalsAlways == Spec => []TotalInv
  BY InitTotals, StepTotals, PTL DEF Spec

\* The live object of a session that no update disturbed while a completion waited
\* says what its line items cost: refreshCheckout recomputes before it publishes, and
\* the object a 3DS challenge puts back still has the same total.
THEOREM LiveTotals == Spec => []LiveTotalIsCurrent
  <1>1. TotalInv => LiveTotalIsCurrent
    BY DEF TotalInv
  <1>. QED BY <1>1, TotalsAlways, PTL

-----------------------------------------------------------------------------
(***************************************************************************)
(* Charges and orders.                                                     *)
(***************************************************************************)
ChargeInv ==
  /\ HeapInv
  /\ \A h \in Calls : completes[h].pc # "idle" => completes[h].terms \in offers
  /\ ChargeIsSigned

\* Every step of a call that waits moves it on, and may set its charge once.
LEMMA ResumeShape ==
  ASSUME NEW h \in Calls, Resume(h)
  PROVE  /\ completes[h].pc \in Waiting
         /\ offers \subseteq offers'
         /\ \/ \E pc \in Pc : /\ Goto(h, pc)
                              /\ pc # "idle"
                              /\ pc \in Charged => completes[h].pc \in Charged
            \/ RequestAuthorization(h)
  BY DEF Resume, KyaPassed, KyaRefused, RefuseMandate, RequestAuthorization, AuthorizeFailed,
         Escalate, Authorized, CaptureFailed, PlaceOrder, Publish, At, Waiting, Charged, Pc

LEMMA StepCharge ==
  ASSUME ChargeInv, [Next]_vars
  PROVE  ChargeInv'
  <1>0. HeapInv /\ HeapInv' /\ completes \in [Calls -> CallOf(Len(heap))]
    BY StepHeap DEF ChargeInv, HeapInv, TypeOK, CallOf
  <1>1. CASE completes' = completes /\ offers \subseteq offers'
    BY <1>0, <1>1 DEF ChargeInv, ChargeIsSigned
  <1>2. ASSUME NEW h \in Calls, NEW terms \in offers, StartComplete(h, terms)
        PROVE  ChargeInv'
    <2>1. /\ completes'[h].pc = "kya" /\ completes'[h].terms = terms /\ offers' = offers
          /\ \A k \in Calls : k # h => completes'[k] = completes[k]
      BY <1>0, <1>2 DEF StartComplete
    <2>2. "kya" \notin Charged
      BY DEF Charged
    <2>. QED BY <1>0, <2>1, <2>2 DEF ChargeInv, ChargeIsSigned
  <1>3. ASSUME NEW h \in Calls, Resume(h)
        PROVE  ChargeInv'
    <2>1. completes[h].pc \in Waiting /\ completes[h].pc # "idle" /\ offers \subseteq offers'
      BY <1>3, ResumeShape DEF Waiting
    <2>2. ASSUME NEW pc \in Pc, Goto(h, pc), pc # "idle",
                 pc \in Charged => completes[h].pc \in Charged
          PROVE  ChargeInv'
      <3>1. /\ completes'[h].pc = pc /\ completes'[h].terms = completes[h].terms
            /\ completes'[h].checkout = completes[h].checkout
            /\ completes'[h].charge = completes[h].charge
            /\ \A k \in Calls : k # h => completes'[k] = completes[k]
        BY <1>0, <2>2 DEF Goto, CallOf
      <3>2. \A k \in Calls : completes'[k].pc # "idle" => completes'[k].terms \in offers'
        BY <2>1, <3>1 DEF ChargeInv
      <3>3. ChargeIsSigned'
        BY <2>1, <2>2, <3>1 DEF ChargeInv, ChargeIsSigned
      <3>. QED BY <1>0, <3>2, <3>3 DEF ChargeInv
    <2>3. CASE RequestAuthorization(h)
      <3>1. /\ completes'[h].pc = "authorizing" /\ completes'[h].terms = completes[h].terms
            /\ completes'[h].checkout = completes[h].checkout
            /\ completes'[h].charge = heap[completes[h].obj].total
            /\ \A k \in Calls : k # h => completes'[k] = completes[k]
        BY <1>0, <2>3 DEF RequestAuthorization, CallOf
      <3>2. /\ completes[h].terms.checkout = completes[h].checkout
            /\ completes[h].terms.total = heap[completes[h].obj].total
        BY <2>3 DEF RequestAuthorization, TermsMatch
      <3>3. \A k \in Calls : completes'[k].pc # "idle" => completes'[k].terms \in offers'
        BY <2>1, <3>1 DEF ChargeInv
      <3>4. ChargeIsSigned'
        BY <2>1, <3>1, <3>2, <3>3 DEF ChargeInv, ChargeIsSigned
      <3>. QED BY <1>0, <3>3, <3>4 DEF ChargeInv
    <2>. QED BY <1>3, <2>2, <2>3, ResumeShape
  <1>4. ASSUME NEW c \in Checkouts, NEW q \in Quantities, NEW fee \in Fees,
               NEW ready \in BOOLEAN,
               CreateCheckout(c, q, fee, ready) \/ UpdateCheckout(c, q, fee, ready)
        PROVE  ChargeInv'
    BY <1>1, <1>4 DEF CreateCheckout, UpdateCheckout, Publish
  <1>5. ASSUME NEW c \in Checkouts, CancelCheckout(c)
        PROVE  ChargeInv'
    BY <1>1, <1>5 DEF CancelCheckout, Publish
  <1>6. CASE UNCHANGED vars
    BY <1>1, <1>6 DEF vars
  <1>. QED BY <1>2, <1>3, <1>4, <1>5, <1>6 DEF Next, Sessions, CompleteCheckout

\* Whatever runs between the awaits of complete_checkout, what it sends to the PSP is
\* the total of terms the merchant itself signed for that very session.
THEOREM ChargesAreSigned == Spec => []ChargeIsSigned
  <1>1. Init => ChargeInv
    <2>1. Init => \A h \in Calls : completes[h].pc = "idle"
      BY DEF Init, IdleCall
    <2>2. "idle" \notin Charged
      BY DEF Charged
    <2>. QED BY <2>1, <2>2, InitHeap DEF ChargeInv, ChargeIsSigned
  <1>2. ChargeInv => ChargeIsSigned
    BY DEF ChargeInv
  <1>. QED BY <1>1, <1>2, StepCharge, PTL DEF Spec

\* A call that was charged and waits still holds what it was charged for, and only
\* a call that ended in "completed" has an order.
OrderInv ==
  /\ TotalInv
  /\ \A h \in Calls :
       /\ (completes[h].pc \in {"authorizing", "capturing"}
             /\ completes[h].checkout \notin disturbed) =>
            /\ qty[completes[h].checkout] = completes[h].terms.qty
            /\ heap[completes[h].obj].total = completes[h].charge
       /\ orders[h].placed => completes[h].pc = "completed"
  /\ OrderAsMandated

\* The steps that place no order.
LEMMA OrdersKept ==
  ASSUME [Next]_vars
  PROVE  orders' = orders \/ \E h \in Calls : PlaceOrder(h)
  BY DEF Next, Sessions, CompleteCheckout, CreateCheckout, UpdateCheckout, CancelCheckout,
         StartComplete, Resume, KyaPassed, KyaRefused, RefuseMandate, RequestAuthorization,
         AuthorizeFailed, Escalate, Authorized, CaptureFailed, vars

AtPsp == {"authorizing", "capturing"}

\* A call gets to the PSP by RequestAuthorization and keeps what it holds there; a
\* completed one does not move.
LEMMA PspCalls ==
  ASSUME HeapInv, [Next]_vars, NEW h \in Calls
  PROVE  /\ completes'[h].pc \in AtPsp =>
              \/ RequestAuthorization(h)
              \/ /\ completes[h].pc \in AtPsp
                 /\ completes'[h].obj = completes[h].obj
                 /\ completes'[h].checkout = completes[h].checkout
                 /\ completes'[h].terms = completes[h].terms
                 /\ completes'[h].charge = completes[h].charge
         /\ completes[h].pc = "completed" => completes'[h] = completes[h]
  <1>. DEFINE Goal ==
         /\ completes'[h].pc \in AtPsp =>
              \/ RequestAuthorization(h)
              \/ /\ completes[h].pc \in AtPsp
                 /\ completes'[h].obj = completes[h].obj
                 /\ completes'[h].checkout = completes[h].checkout
                 /\ completes'[h].terms = completes[h].terms
                 /\ completes'[h].charge = completes[h].charge
         /\ completes[h].pc = "completed" => completes'[h] = completes[h]
  <1>0. completes \in [Calls -> CallOf(Len(heap))]
    BY DEF HeapInv, TypeOK, CallOf
  <1>1. CASE completes'[h] = completes[h]
    BY <1>1
  <1>2. ASSUME NEW k \in Calls, NEW terms \in offers, StartComplete(k, terms)
        PROVE  Goal
    <2>1. CASE k # h
      BY <1>0, <1>1, <1>2, <2>1 DEF StartComplete
    <2>2. CASE k = h
      BY <1>0, <1>2, <2>2 DEF StartComplete, At, AtPsp
    <2>. QED BY <2>1, <2>2
  <1>3. ASSUME NEW k \in Calls, NEW pc \in Pc, Goto(k, pc), completes[k].pc # "completed",
               pc \in AtPsp => completes[k].pc \in AtPsp
        PROVE  Goal
    <2>1. CASE k # h
      BY <1>0, <1>1, <1>3, <2>1 DEF Goto
    <2>2. CASE k = h
      BY <1>0, <1>3, <2>2 DEF Goto, CallOf
    <2>. QED BY <2>1, <2>2
  <1>4. ASSUME NEW k \in Calls, RequestAuthorization(k)
        PROVE  Goal
    <2>1. CASE k # h
      BY <1>0, <1>1, <1>4, <2>1 DEF RequestAuthorization
    <2>2. CASE k = h
      BY <1>0, <1>4, <2>2 DEF RequestAuthorization, At, CallOf
    <2>. QED BY <2>1, <2>2
  <1>5. ASSUME NEW k \in Calls, Resume(k)
        PROVE  Goal
    <2>1. RequestAuthorization(k) \/
            \E pc \in Pc : /\ Goto(k, pc) /\ completes[k].pc # "completed"
                           /\ pc \in AtPsp => completes[k].pc \in AtPsp
      BY <1>5 DEF Resume, KyaPassed, KyaRefused, RefuseMandate, AuthorizeFailed, Escalate,
                  Authorized, CaptureFailed, PlaceOrder, At, AtPsp, Pc
    <2>. QED BY <1>3, <1>4, <2>1
  <1>6. CASE completes' = completes
    BY <1>1, <1>6
  <1>. QED BY <1>1, <1>2, <1>5, <1>6
           DEF Next, Sessions, CompleteCheckout, CreateCheckout, UpdateCheckout,
               CancelCheckout, vars

LEMMA StepOrder ==
  ASSUME OrderInv, [Next]_vars
  PROVE  OrderInv'
  <1>0. TotalInv /\ TotalInv' /\ HeapInv
    BY StepTotals DEF OrderInv, TotalInv
  <1>1. completes \in [Calls -> CallOf(Len(heap))]
        /\ orders \in [Calls -> [placed: BOOLEAN, qty: Nat, total: Int]]
    BY <1>0 DEF HeapInv, TypeOK, CallOf
  <1>2. ASSUME NEW h \in Calls, completes'[h].pc \in AtPsp,
               completes'[h].checkout \notin disturbed'
        PROVE  /\ qty'[completes'[h].checkout] = completes'[h].terms.qty
               /\ heap'[completes'[h].obj].total = completes'[h].charge
    <2>1. CASE RequestAuthorization(h)
      <3>1. /\ completes'[h].checkout = completes[h].checkout
            /\ completes'[h].obj = completes[h].obj /\ completes'[h].terms = completes[h].terms
            /\ completes'[h].charge = heap[completes[h].obj].total
        BY <1>1, <2>1 DEF RequestAuthorization, CallOf
      <3>2. completes[h].terms.qty = qty[completes[h].checkout] /\ qty' = qty
        BY <2>1 DEF RequestAuthorization, TermsMatch
      <3>3. completes[h].pc \in Waiting
        BY <2>1 DEF RequestAuthorization, At, Waiting
      <3>4. HeldKept(h)
        BY <1>0, <3>3, StepHeld
      <3>. QED BY <1>2, <3>1, <3>2, <3>4 DEF HeldKept
    <2>2. CASE ~RequestAuthorization(h)
      <3>1. /\ completes[h].pc \in AtPsp
            /\ completes'[h].obj = completes[h].obj
            /\ completes'[h].checkout = completes[h].checkout
            /\ completes'[h].terms = completes[h].terms
            /\ completes'[h].charge = completes[h].charge
        BY <1>0, <1>2, <2>2, PspCalls
      <3>2. HeldKept(h)
        BY <1>0, <3>1, StepHeld DEF AtPsp, Waiting
      <3>. QED BY <1>2, <3>1, <3>2 DEF HeldKept, OrderInv, AtPsp
    <2>. QED BY <2>1, <2>2
  <1>3. disturbed \subseteq disturbed'
    BY DEF Next, Sessions, CompleteCheckout, CreateCheckout, UpdateCheckout, CancelCheckout,
           StartComplete, Resume, KyaPassed, KyaRefused, RefuseMandate, RequestAuthorization,
           AuthorizeFailed, Escalate, Authorized, CaptureFailed, PlaceOrder, history, vars
  <1>4. ASSUME NEW h \in Calls, orders'[h].placed
        PROVE  /\ completes'[h].pc = "completed"
               /\ completes'[h].checkout \notin disturbed' =>
                    /\ orders'[h].total = completes'[h].charge
                    /\ orders'[h].qty = completes'[h].terms.qty
    <2>1. CASE PlaceOrder(h)
      <3>1. /\ completes'[h].pc = "completed" /\ completes'[h].terms = completes[h].terms
            /\ completes'[h].checkout = completes[h].checkout
            /\ completes'[h].charge = completes[h].charge
        BY <1>1, <2>1 DEF PlaceOrder, Goto, CallOf
      <3>2. /\ orders'[h].qty = qty[completes[h].checkout]
            /\ orders'[h].total = heap[completes[h].obj].total
        BY <1>1, <2>1 DEF PlaceOrder
      <3>3. completes[h].pc = "capturing"
        BY <2>1 DEF PlaceOrder, At
      <3>. QED BY <1>3, <3>1, <3>2, <3>3 DEF OrderInv
    <2>2. CASE ~PlaceOrder(h)
      <3>1. orders'[h] = orders[h]
        BY <1>1, <2>2, OrdersKept DEF PlaceOrder
      <3>2. completes[h].pc = "completed"
        BY <1>4, <3>1 DEF OrderInv
      <3>3. completes'[h] = completes[h]
        BY <1>0, <3>2, PspCalls
      <3>. QED BY <1>3, <1>4, <3>1, <3>2, <3>3 DEF OrderInv, OrderAsMandated
    <2>. QED BY <2>1, <2>2
  <1>. QED BY <1>0, <1>2, <1>4 DEF OrderInv, OrderAsMandated, AtPsp

\* An order is for exactly the lines the user mandated and the total the PSP was asked
\* for, unless an update of the session ran while its complete_checkout waited.
THEOREM OrdersAsMandated == Spec => []OrderAsMandated
  <1>1. Init => OrderInv
    <2>1. Init => \A h \in Calls : completes[h].pc = "idle" /\ ~orders[h].placed
      BY DEF Init, IdleCall, NoOrder
    <2>. QED BY <2>1, InitTotals DEF OrderInv, OrderAsMandated
  <1>2. OrderInv => OrderAsMandated
    BY DEF OrderInv
  <1>. QED BY <1>1, <1>2, StepOrder, PTL DEF Spec

-----------------------------------------------------------------------------
(***************************************************************************)
(* The life of a session: what may leave canceled and completed, and how   *)
(* often it is ordered.                                                    *)
(***************************************************************************)
\* A refresh shows in the session it is of, and in no other.
LEMMA ResignedShows ==
  ASSUME HeapInv, NEW c \in Checkouts, NEW o, Resigned(c, o)
  PROVE  /\ Created(c)' /\ Live(c)' = heap'[o]
         /\ \A d \in Checkouts : d # c =>
              /\ Created(d)' <=> Created(d)
              /\ Created(d) => Live(d)' = Live(d)
  <1>1. /\ heap \in Seq(Object) /\ current \in [Checkouts -> 0..Len(heap)]
        /\ Len(heap) \in Nat
    BY DEF HeapInv, TypeOK
  <1>2. /\ Len(heap') = Len(heap) + 1 /\ current' = [current EXCEPT ![c] = Len(heap')]
        /\ heap'[Len(heap')] = heap'[o] /\ heap[o].checkout = c
        /\ \A k \in DOMAIN heap : k # o => heap'[k] = heap[k]
    BY DEF Resigned
  <1>3. current'[c] = Len(heap') /\ Len(heap') # 0
    BY <1>1, <1>2
  <1>4. ASSUME NEW d \in Checkouts, d # c
        PROVE  /\ Created(d)' <=> Created(d)
               /\ Created(d) => Live(d)' = Live(d)
    <2>1. current'[d] = current[d]
      BY <1>1, <1>2, <1>4
    <2>2. current[d] # 0 => current[d] \in DOMAIN heap /\ heap[current[d]].checkout = d
      BY <1>1 DEF HeapInv, RefInv
    <2>3. current[d] # 0 => heap'[current[d]] = heap[current[d]]
      BY <1>2, <1>4, <2>2
    <2>. QED BY <2>1, <2>3 DEF Created, Live
  <1>5. Created(c)' /\ Live(c)' = heap'[o]
    BY <1>2, <1>3 DEF Created, Live
  <1>. QED BY <1>4, <1>5

\* So does a mark.
LEMMA MarkedShows ==
  ASSUME TotalInv, NEW h \in Calls, completes[h].pc \in Waiting,
         NEW s \in Status, Marked(completes[h].obj, s),
         current' \in {current, [current EXCEPT ![completes[h].checkout] = completes[h].obj]},
         NEW c \in Checkouts
  PROVE  /\ Created(c)' <=> Created(c)
         /\ Created(c) => \/ Live(c)'.status = Live(c).status
                          \/ h \in InFlight(c) /\ Live(c)'.status = s
  <1>. DEFINE o == completes[h].obj  d == completes[h].checkout
  <1>1. /\ heap \in Seq(Object) /\ current \in [Checkouts -> 0..Len(heap)]
        /\ o \in DOMAIN heap /\ heap[o].checkout = d /\ d \in Checkouts /\ o # 0
        /\ current[d] # 0
    <2>1. HeapInv /\ current[d] # 0
      BY DEF TotalInv, HeldInv, Created
    <2>2. o \in DOMAIN heap /\ heap[o].checkout = d /\ d \in Checkouts
      BY <2>1, HeldObject
    <2>3. heap \in Seq(Object) /\ current \in [Checkouts -> 0..Len(heap)]
      BY <2>1 DEF HeapInv, TypeOK
    <2>. QED BY <2>1, <2>2, <2>3
  <1>2. heap[o] \in Object
    BY <1>1
  <1>3. /\ heap'[o].status = s
        /\ \A k \in DOMAIN heap : k # o => heap'[k] = heap[k]
    BY <1>1, <1>2 DEF Marked, Object
  <1>4. current'[c] = current[c] \/ (c = d /\ current'[c] = o)
    BY <1>1
  <1>5. CASE c = d /\ current'[c] = o
    BY <1>1, <1>3, <1>5 DEF Created, Live, InFlight
  <1>6. CASE current'[c] = current[c] /\ current[c] = o
    <2>1. c = d
      BY <1>1, <1>6 DEF TotalInv, HeapInv, RefInv
    <2>. QED BY <1>1, <1>3, <1>6, <2>1 DEF Created, Live, InFlight
  <1>7. CASE current'[c] = current[c] /\ current[c] # o
    <2>1. current[c] # 0 => heap'[current[c]] = heap[current[c]]
      BY <1>1, <1>3, <1>7
    <2>. QED BY <1>7, <2>1 DEF Created, Live
  <1>. QED BY <1>4, <1>5, <1>6, <1>7

\* What a step may do to the status of a session c.
StatusStep(c) ==
  /\ Created(c) => Created(c)'
  /\ Created(c)' /\ ~Created(c) => Live(c)'.status \in Open
  /\ Created(c) =>
       \/ Live(c)'.status \in {Live(c).status, "canceled"}
       \/ Live(c).status \notin Kept /\ Live(c)'.status \in Open
       \/ \E h \in InFlight(c) : PlaceOrder(h) \/ Live(c)'.status \notin Kept

LEMMA StepStatus ==
  ASSUME TotalInv, [Next]_vars, NEW c \in Checkouts
  PROVE  StatusStep(c)
  <1>0. HeapInv
    BY DEF TotalInv
  <1>1. ASSUME NEW d \in Checkouts, NEW q \in Quantities, NEW fee \in Fees,
               NEW ready \in BOOLEAN, CreateCheckout(d, q, fee, ready)
        PROVE  StatusStep(c)
    <2>1. /\ heap \in Seq(Object) /\ current \in [Checkouts -> 0..Len(heap)]
          /\ Len(heap) \in Nat
      BY <1>0 DEF HeapInv, TypeOK
    <2>2. /\ Len(heap') = Len(heap) + 1
          /\ \A k \in DOMAIN heap : heap'[k] = heap[k]
          /\ current' = [current EXCEPT ![d] = Len(heap')]
      BY <1>0, <1>1, CreateHeap
    <2>3. heap'[Len(heap')].status \in Open
      BY <1>1, <2>1, <2>2 DEF CreateCheckout, Open
    <2>4. CASE c = d
      BY <1>1, <2>1, <2>2, <2>3, <2>4 DEF StatusStep, Created, Live, CreateCheckout
    <2>5. CASE c # d
      <3>1. current'[c] = current[c] /\ current[c] \in 0..Len(heap)
        BY <2>1, <2>2, <2>5
      <3>2. current[c] # 0 => heap'[current[c]] = heap[current[c]]
        BY <2>1, <2>2, <3>1
      <3>. QED BY <3>1, <3>2 DEF StatusStep, Created, Live
    <2>. QED BY <2>4, <2>5
  <1>2. ASSUME NEW d \in Checkouts, NEW q \in Quantities, NEW fee \in Fees,
               NEW ready \in BOOLEAN, UpdateCheckout(d, q, fee, ready)
        PROVE  StatusStep(c)
    <2>1. /\ Resigned(d, current[d]) /\ Created(d)
          /\ Live(d).status \in Kept => heap'[current[d]].status = Live(d).status
          /\ Live(d).status \notin Kept => heap'[current[d]].status \in Open
      BY <1>0, <1>2, UpdateResigns DEF UpdateCheckout
    <2>. QED BY <1>0, <2>1, ResignedShows DEF StatusStep
  <1>3. ASSUME NEW d \in Checkouts, CancelCheckout(d)
        PROVE  StatusStep(c)
    <2>1. /\ Resigned(d, current[d]) /\ Created(d)
          /\ heap'[current[d]].status = "canceled"
      BY <1>0, <1>3, CancelResigns DEF CancelCheckout
    <2>. QED BY <1>0, <2>1, ResignedShows DEF StatusStep
  <1>4. CASE UNCHANGED <<heap, current>>
    BY <1>4 DEF StatusStep, Created, Live
  <1>5. ASSUME NEW h \in Calls, Resume(h)
        PROVE  StatusStep(c)
    <2>0. completes[h].pc \in Waiting
      BY <1>5, ResumeShape
    <2>7. /\ completes[h].checkout \in Checkouts /\ Created(completes[h].checkout)
           /\ h \in InFlight(completes[h].checkout)
      BY <1>0, <2>0, HeldObject DEF TotalInv, HeldInv, InFlight
    <2>1. CASE RequestAuthorization(h)
      <3>1. Marked(completes[h].obj, "complete_in_progress") /\ current' = current
        BY <1>0, <2>1, RequestHeap DEF RequestAuthorization
      <3>2. "complete_in_progress" \in Status \ Kept
        BY DEF Status, Kept
      <3>. QED BY <2>0, <3>1, <3>2, MarkedShows DEF StatusStep
    <2>2. CASE AuthorizeFailed(h)
      <3>1. /\ Resigned(completes[h].checkout, completes[h].obj)
            /\ heap'[completes[h].obj].status \notin Kept
        BY <1>0, <2>2, DeclineResigns DEF Open, Kept
      <3>. QED BY <1>0, <2>7, <3>1, ResignedShows DEF StatusStep
    <2>3. CASE Escalate(h)
      <3>1. /\ Marked(completes[h].obj, "requires_escalation")
            /\ current' = [current EXCEPT ![completes[h].checkout] = completes[h].obj]
        BY <1>0, <2>3, EscalateHeap DEF Escalate
      <3>2. "requires_escalation" \in Status \ Kept
        BY DEF Status, Kept
      <3>. QED BY <2>0, <3>1, <3>2, MarkedShows DEF StatusStep
    <2>4. CASE PlaceOrder(h)
      <3>1. Resigned(completes[h].checkout, completes[h].obj)
        BY <1>0, <2>4, OrderResigns
      <3>. QED BY <1>0, <2>7, <2>4, <3>1, ResignedShows DEF StatusStep
    <2>5. CASE \E pc \in Pc : Moved(h, pc)
      BY <1>4, <2>5 DEF Moved
    <2>6. {"verify", "failed", "capturing", "capture_failed"} \subseteq Pc
      BY DEF Pc
    <2>. QED BY <1>5, <2>1, <2>2, <2>3, <2>4, <2>5, <2>6, MovesAreThese DEF Resume
  <1>. QED BY <1>1, <1>2, <1>3, <1>4, <1>5
           DEF Next, Sessions, CompleteCheckout, StartComplete, vars

\* Once canceled, or completed, a session no call waits on stays so, but that a
\* completed one can be canceled.
THEOREM TerminalStatesStay == Spec => TerminalStates
  <1>. DEFINE Stays == \A c \in Checkouts : (Created(c) /\ InFlight(c) = {}) =>
         /\ Live(c).status = "canceled" => Live(c)'.status = "canceled"
         /\ Live(c).status = "completed" => Live(c)'.status \in {"completed", "canceled"}
  <1>1. ASSUME TotalInv, [Next]_vars
        PROVE  Stays
    <2>1. ASSUME NEW c \in Checkouts, Created(c), InFlight(c) = {}
          PROVE  /\ Live(c).status = "canceled" => Live(c)'.status = "canceled"
                 /\ Live(c).status = "completed" => Live(c)'.status \in {"completed", "canceled"}
      BY <1>1, <2>1, StepStatus DEF StatusStep, Kept
    <2>. QED BY <2>1
  <1>2. TotalInv /\ [Next]_vars => [Stays]_vars
    BY <1>1
  <1>. QED BY <1>2, TotalsAlways, PTL DEF Spec, TerminalStates

\* One completion at a time orders once: while a call waits there is no order, and
\* with the order the session is completed, or canceled after that.
OneInv(c) ==
  /\ \A h, k \in InFlight(c) : h = k
  /\ \A h, k \in OrdersOf(c) : h = k
  /\ InFlight(c) = {} \/ OrdersOf(c) = {}
  /\ OrdersOf(c) # {} => Created(c) /\ Live(c).status \in Kept
  /\ (Created(c) /\ Live(c).status = "completed") => OrdersOf(c) # {}

OneOrderInv == OrderInv /\ \A c \in Checkouts \ overlapped : OneInv(c)

LEMMA OverlapGrows ==
  ASSUME [Next]_vars
  PROVE  overlapped \subseteq overlapped'
  BY DEF Next, Sessions, CompleteCheckout, CreateCheckout, UpdateCheckout, CancelCheckout,
         StartComplete, Resume, KyaPassed, KyaRefused, RefuseMandate, RequestAuthorization,
         AuthorizeFailed, Escalate, Authorized, CaptureFailed, PlaceOrder, history, vars

\* Orders are placed by PlaceOrder, and stay with the session they were placed for.
LEMMA OrdersStay ==
  ASSUME OrderInv, [Next]_vars, NEW c \in Checkouts,
         NEW h \in Calls, ~PlaceOrder(h)
  PROVE  h \in OrdersOf(c)' <=> h \in OrdersOf(c)
  <1>1. orders \in [Calls -> [placed: BOOLEAN, qty: Nat, total: Int]]
    BY DEF OrderInv, TotalInv, HeapInv, TypeOK
  <1>2. orders'[h] = orders[h]
    BY <1>1, OrdersKept DEF PlaceOrder
  <1>3. CASE orders[h].placed
    <2>1. completes'[h] = completes[h]
      BY <1>3, PspCalls DEF OrderInv, TotalInv
    <2>. QED BY <1>2, <2>1 DEF OrdersOf
  <1>4. CASE ~orders[h].placed
    BY <1>2, <1>4 DEF OrdersOf
  <1>. QED BY <1>3, <1>4

LEMMA PlaceOne ==
  ASSUME OneOrderInv, [Next]_vars, NEW h \in Calls, PlaceOrder(h),
         NEW c \in Checkouts \ overlapped
  PROVE  OneInv(c)'
  <1>. DEFINE d == completes[h].checkout
  <1>0. /\ TotalInv /\ HeapInv /\ OrderInv /\ OneInv(c)
        /\ completes \in [Calls -> CallOf(Len(heap))]
        /\ orders \in [Calls -> [placed: BOOLEAN, qty: Nat, total: Int]]
    BY DEF OneOrderInv, OrderInv, TotalInv, HeapInv, TypeOK, CallOf
  <1>1. completes[h].pc \in Waiting /\ h \in InFlight(d)
    BY DEF PlaceOrder, At, Waiting, InFlight
  <1>2. /\ d \in Checkouts /\ Resigned(d, completes[h].obj)
        /\ heap'[completes[h].obj].status = "completed"
    BY <1>0, <1>1, HeldObject, OrderResigns
  <1>3. /\ orders'[h].placed /\ completes'[h].pc = "completed"
        /\ completes'[h].checkout = d
        /\ \A k \in Calls : k # h => completes'[k] = completes[k] /\ orders'[k] = orders[k]
    BY <1>0 DEF PlaceOrder, Goto, CallOf
  <1>4. InFlight(c)' = InFlight(c) \ {h}
    BY <1>3 DEF InFlight, Waiting
  <1>5. CASE c # d
    <2>1. OrdersOf(c)' = OrdersOf(c) /\ InFlight(c)' = InFlight(c)
      <3>1. ~orders[h].placed
        BY <1>0, <1>1 DEF OrderInv, Waiting
      <3>. QED BY <1>3, <1>4, <1>5, <3>1 DEF OrdersOf, InFlight
    <2>2. (Created(c)' <=> Created(c)) /\ (Created(c) => Live(c)' = Live(c))
      BY <1>0, <1>2, <1>5, ResignedShows
    <2>. QED BY <1>0, <2>1, <2>2 DEF OneInv
  <1>6. CASE c = d
    <2>1. InFlight(c)' = {} /\ OrdersOf(c) = {}
      BY <1>0, <1>1, <1>4, <1>6 DEF OneInv
    <2>2. OrdersOf(c)' = {h}
      BY <1>3, <1>6, <2>1 DEF OrdersOf
    <2>3. Created(c)' /\ Live(c)'.status = "completed" /\ "completed" \in Kept
      BY <1>0, <1>2, <1>6, ResignedShows DEF Kept
    <2>. QED BY <2>1, <2>2, <2>3 DEF OneInv
  <1>. QED BY <1>5, <1>6

LEMMA StartOne ==
  ASSUME OneOrderInv, [Next]_vars, NEW h \in Calls, NEW terms \in offers,
         StartComplete(h, terms), NEW c \in Checkouts \ overlapped'
  PROVE  OneInv(c)'
  <1>. DEFINE d == terms.checkout
  <1>0. /\ HeapInv /\ OrderInv /\ OneInv(c)
        /\ completes \in [Calls -> CallOf(Len(heap))]
    BY OverlapGrows DEF OneOrderInv, OrderInv, TotalInv, HeapInv, TypeOK, CallOf
  <1>1. /\ heap' = heap /\ current' = current /\ orders' = orders
        /\ completes[h].pc = "idle" /\ completes'[h].pc = "kya" /\ completes'[h].checkout = d
        /\ \A k \in Calls : k # h => completes'[k] = completes[k]
    BY <1>0 DEF StartComplete, At
  <1>2. (Created(c)' <=> Created(c)) /\ Live(c)' = Live(c)
    BY <1>1 DEF Created, Live
  <1>3. OrdersOf(c)' = OrdersOf(c)
    BY <1>0, <1>1 DEF OrdersOf, OrderInv
  <1>4. CASE c # d
    <2>1. InFlight(c)' = InFlight(c)
      BY <1>1, <1>4 DEF InFlight, Waiting
    <2>. QED BY <1>0, <1>2, <1>3, <2>1 DEF OneInv
  <1>5. CASE c = d
    <2>1. InFlight(c) = {}
      BY <1>5 DEF StartComplete
    <2>2. InFlight(c)' = {h}
      BY <1>1, <1>5, <2>1 DEF InFlight, Waiting
    <2>3. OrdersOf(c) = {}
      BY <1>0, <1>5 DEF OneInv, StartComplete, Kept
    <2>. QED BY <1>0, <1>2, <1>3, <2>2, <2>3 DEF OneInv
  <1>. QED BY <1>4, <1>5

LEMMA StepOne ==
  ASSUME OneOrderInv, [Next]_vars
  PROVE  OneOrderInv'
  <1>0. TotalInv /\ HeapInv /\ OrderInv /\ OrderInv'
    BY StepOrder DEF OneOrderInv, OrderInv, TotalInv
  <1>1. ASSUME NEW c \in Checkouts \ overlapped'
        PROVE  OneInv(c)'
    <2>0. c \in Checkouts \ overlapped
      BY OverlapGrows
    <2>1. CASE \E h \in Calls : PlaceOrder(h)
      BY <2>0, <2>1, PlaceOne
    <2>2. CASE \E h \in Calls, terms \in offers : StartComplete(h, terms)
      BY <2>2, StartOne
    <2>3. CASE CallsKept /\ ~\E h \in Calls : PlaceOrder(h)
      <3>1. OneInv(c) /\ StatusStep(c)
        BY <1>0, <2>0, StepStatus DEF OneOrderInv
      <3>2. InFlight(c)' \subseteq InFlight(c)
        BY <2>3 DEF InFlight, CallsKept
      <3>3. OrdersOf(c)' = OrdersOf(c)
        <4>1. \A h \in Calls : h \in OrdersOf(c)' <=> h \in OrdersOf(c)
          BY <1>0, <2>3, OrdersStay
        <4>2. OrdersOf(c) \subseteq Calls /\ OrdersOf(c)' \subseteq Calls
          BY DEF OrdersOf
        <4>. QED BY <4>1, <4>2
      <3>4. InFlight(c) \subseteq Calls
        BY DEF InFlight
      <3>5. Created(c) =>
              \/ Live(c)'.status \in {Live(c).status, "canceled"}
              \/ Live(c).status \notin Kept /\ Live(c)'.status \in Open
              \/ InFlight(c) # {} /\ Live(c)'.status \notin Kept
        BY <2>3, <3>1, <3>4 DEF StatusStep
      <3>6. /\ Created(c) => Created(c)'
            /\ Created(c)' /\ ~Created(c) => Live(c)'.status \in Open
        BY <3>1 DEF StatusStep
      <3>7. OrdersOf(c)' # {} => Created(c)' /\ Live(c)'.status \in Kept
        BY <3>1, <3>3, <3>5, <3>6 DEF OneInv, Kept
      <3>8. (Created(c)' /\ Live(c)'.status = "completed") => OrdersOf(c)' # {}
        BY <3>1, <3>3, <3>5, <3>6 DEF OneInv, Kept, Open
      <3>. QED BY <3>1, <3>2, <3>3, <3>7, <3>8 DEF OneInv
    <2>. QED BY <1>0, <2>1, <2>2, <2>3, StepCalls
  <1>. QED BY <1>0, <1>1 DEF OneOrderInv

\* However creations, updates, cancellations and retries follow each other, a session
\* whose completions did not overlap is ordered at most once, and completed if and
\* only if it is ordered, but that it may be canceled afterwards.
THEOREM OneOrder == Spec => []OneOrderPerSession
  <1>1. Init => OneOrderInv
    <2>1. Init => OrderInv
      <3>1. Init => \A h \in Calls : completes[h].pc = "idle" /\ ~orders[h].placed
        BY DEF Init, IdleCall, NoOrder
      <3>. QED BY <3>1, InitTotals DEF OrderInv, OrderAsMandated
    <2>2. ASSUME Init, NEW c \in Checkouts
          PROVE  OneInv(c)
      <3>1. /\ \A h \in Calls : completes[h].pc = "idle" /\ ~orders[h].placed
            /\ ~Created(c)
        BY <2>2 DEF Init, IdleCall, NoOrder, Created
      <3>2. InFlight(c) = {} /\ OrdersOf(c) = {}
        BY <3>1 DEF InFlight, OrdersOf, Waiting
      <3>. QED BY <3>1, <3>2 DEF OneInv
    <2>. QED BY <2>1, <2>2 DEF OneOrderInv
  <1>2. ASSUME OneOrderInv
        PROVE  OneOrderPerSession
    <2>1. ASSUME NEW c \in Checkouts \ overlapped
          PROVE  Cardinality(OrdersOf(c)) <= 1
      <3>1. CASE OrdersOf(c) = {}
        <4>1. Cardinality({}) = 0
          BY FS_EmptySet
        <4>. QED BY <3>1, <4>1
      <3>2. ASSUME NEW h \in OrdersOf(c)
            PROVE  Cardinality(OrdersOf(c)) <= 1
        <4>1. OrdersOf(c) = {h}
          BY <1>2, <2>1 DEF OneOrderInv, OneInv
        <4>2. Cardinality({h}) = 1
          BY FS_Singleton
        <4>. QED BY <4>1, <4>2
      <3>. QED BY <3>1, <3>2
    <2>. QED BY <1>2, <2>1 DEF OneOrderInv, OneInv, OneOrderPerSession, Kept
  <1>. QED BY <1>1, <1>2, StepOne, PTL DEF Spec
-----------------------------------------------------------------------------
(***************************************************************************)
(* What the merchant signs.  Its terms outlive the objects they were taken *)
(* from: a later mandate is compared with what was signed at some time.    *)
(***************************************************************************)
\* All terms ever signed add up: the total is that of the very lines in them.
OffersAddUp ==
  \A offer \in offers :
    offer.qty \in Quantities /\ \E fee \in Fees : offer.total = offer.qty + fee

SignedInv ==
  /\ TotalInv
  /\ \A c \in Checkouts : Created(c) => qty[c] \in Quantities
  /\ OffersAddUp

\* A refresh of a session signs the total of the lines the session then has.
LEMMA ResignedSigned ==
  ASSUME SignedInv, TotalInv', NEW c \in Checkouts, NEW o, Resigned(c, o), qty'[c] \in Quantities,
         \A d \in Checkouts : d # c => qty'[d] = qty[d]
  PROVE  SignedInv'
  <1>1. /\ heap' \in Seq(Object) /\ o \in DOMAIN heap' /\ qty'[c] \in Nat
    <2>1. HeapInv' /\ HeapInv
      BY DEF SignedInv, TotalInv
    <2>2. heap \in Seq(Object) /\ heap' \in Seq(Object) /\ qty'[c] \in Nat
      BY <2>1 DEF HeapInv, TypeOK
    <2>. QED BY <2>2 DEF Resigned
  <1>2. heap'[o].fee \in Fees
    <2>1. heap'[o] \in Object
      BY <1>1
    <2>. QED BY <2>1 DEF Object
  <1>3. heap'[o].total = qty'[c] + heap'[o].fee
    BY DEF Resigned
  <1>4. OffersAddUp'
    <2>1. offers' = offers \cup {[checkout |-> c, qty |-> qty'[c], total |-> heap'[o].total]}
      BY DEF Resigned
    <2>. QED BY <1>2, <1>3, <2>1 DEF OffersAddUp, SignedInv
  <1>5. ASSUME NEW d \in Checkouts, Created(d)'
        PROVE  qty'[d] \in Quantities
    <2>1. CASE d = c
      BY <2>1
    <2>2. CASE d # c
      <3>1. Created(d)
        BY <1>5, <2>2, ResignedShows DEF SignedInv, TotalInv
      <3>. QED BY <2>2, <3>1 DEF SignedInv
    <2>. QED BY <2>1, <2>2
  <1>. QED BY <1>4, <1>5 DEF SignedInv

\* A step that signs nothing leaves the terms, and every session, as they are.
LEMMA SameSigned ==
  ASSUME SignedInv, TotalInv', offers' = offers, qty' = qty,
         \A d \in Checkouts : Created(d)' => Created(d)
  PROVE  SignedInv'
  BY DEF SignedInv, OffersAddUp

LEMMA StepSigned ==
  ASSUME SignedInv, [Next]_vars
  PROVE  SignedInv'
  <1>0. TotalInv /\ HeapInv /\ TotalInv' /\ qty \in [Checkouts -> Nat]
    BY StepTotals DEF SignedInv, TotalInv, HeapInv, TypeOK
  <1>1. ASSUME NEW c \in Checkouts, NEW q \in Quantities, NEW fee \in Fees,
               NEW ready \in BOOLEAN, CreateCheckout(c, q, fee, ready)
        PROVE  SignedInv'
    <2>2. /\ qty' = [qty EXCEPT ![c] = q] /\ heap'[Len(heap')].total = q + fee
          /\ current' = [current EXCEPT ![c] = Len(heap')]
      BY <1>0, <1>1, CreateHeap
    <2>3. OffersAddUp'
      <3>1. offers' = offers \cup {[checkout |-> c, qty |-> qty'[c], total |-> q + fee]}
        BY <1>1, <2>2 DEF CreateCheckout, Publish
      <3>2. qty'[c] = q
        BY <1>0, <2>2
      <3>. QED BY <3>1, <3>2 DEF OffersAddUp, SignedInv
    <2>4. \A d \in Checkouts : Created(d)' => qty'[d] \in Quantities
      <3>1. \A d \in Checkouts : d # c => current'[d] = current[d] /\ qty'[d] = qty[d]
        BY <1>0, <2>2 DEF HeapInv, TypeOK
      <3>2. qty'[c] = q
        BY <1>0, <2>2
      <3>. QED BY <3>1, <3>2 DEF Created, SignedInv
    <2>. QED BY <1>0, <2>3, <2>4 DEF SignedInv
  <1>2. ASSUME NEW c \in Checkouts, NEW q \in Quantities, NEW fee \in Fees,
               NEW ready \in BOOLEAN, UpdateCheckout(c, q, fee, ready)
        PROVE  SignedInv'
    <2>1. Resigned(c, current[c]) /\ qty' = [qty EXCEPT ![c] = q]
      BY <1>0, <1>2, UpdateResigns
    <2>2. q \in Quantities
      BY <1>2
    <2>3. qty'[c] \in Quantities /\ \A d \in Checkouts : d # c => qty'[d] = qty[d]
      BY <1>0, <2>1, <2>2
    <2>. QED BY <1>0, <2>1, <2>3, ResignedSigned
  <1>3. ASSUME NEW c \in Checkouts, CancelCheckout(c)
        PROVE  SignedInv'
    <2>1. Resigned(c, current[c]) /\ qty' = qty
      BY <1>0, <1>3, CancelResigns DEF CancelCheckout
    <2>2. qty'[c] \in Quantities
      BY <1>3, <2>1 DEF CancelCheckout, SignedInv
    <2>. QED BY <1>0, <2>1, <2>2, ResignedSigned
  <1>4. ASSUME NEW h \in Calls, NEW terms \in offers, StartComplete(h, terms)
        PROVE  SignedInv'
    BY <1>0, <1>4, SameSigned DEF StartComplete, Created
  <1>5. ASSUME NEW h \in Calls, Resume(h)
        PROVE  SignedInv'
    <2>0. /\ completes[h].checkout \in Checkouts /\ Created(completes[h].checkout)
          /\ qty[completes[h].checkout] \in Quantities /\ completes[h].obj # 0
          /\ current \in [Checkouts -> 0..Len(heap)]
      <3>1. completes[h].pc \in Waiting
        BY <1>5, ResumeShape
      <3>2. completes[h].checkout \in Checkouts /\ completes[h].obj \in DOMAIN heap
        BY <1>0, <3>1, HeldObject
      <3>3. heap \in Seq(Object) /\ current \in [Checkouts -> 0..Len(heap)]
        BY <1>0 DEF HeapInv, TypeOK
      <3>. QED BY <3>1, <3>2, <3>3 DEF SignedInv, TotalInv, HeldInv
    <2>1. CASE \E pc \in Pc : Moved(h, pc)
      BY <1>0, <2>1, SameSigned DEF Moved, Created
    <2>2. CASE RequestAuthorization(h)
      BY <1>0, <2>2, SameSigned DEF RequestAuthorization, Created
    <2>3. CASE AuthorizeFailed(h)
      <3>1. Resigned(completes[h].checkout, completes[h].obj) /\ qty' = qty
        BY <1>0, <2>3, DeclineResigns DEF AuthorizeFailed
      <3>. QED BY <1>0, <2>0, <3>1, ResignedSigned
    <2>4. CASE Escalate(h)
      <3>1. \A d \in Checkouts : Created(d)' => Created(d)
        BY <2>0, <2>4 DEF Escalate, Created
      <3>. QED BY <1>0, <2>4, <3>1, SameSigned DEF Escalate
    <2>5. CASE PlaceOrder(h)
      <3>1. Resigned(completes[h].checkout, completes[h].obj) /\ qty' = qty
        BY <1>0, <2>5, OrderResigns DEF PlaceOrder
      <3>. QED BY <1>0, <2>0, <3>1, ResignedSigned
    <2>6. {"verify", "failed", "capturing", "capture_failed"} \subseteq Pc
      BY DEF Pc
    <2>. QED BY <1>5, <2>1, <2>2, <2>3, <2>4, <2>5, <2>6, MovesAreThese DEF Resume
  <1>6. CASE UNCHANGED vars
    BY <1>0, <1>6, SameSigned DEF vars, Created
  <1>. QED BY <1>1, <1>2, <1>3, <1>4, <1>5, <1>6 DEF Next, Sessions, CompleteCheckout

LEMMA SignedIsInvariant == Spec => []SignedInv
  <1>1. Init => SignedInv
    BY InitTotals DEF Init, SignedInv, OffersAddUp, Created
  <1>. QED BY <1>1, StepSigned, PTL DEF Spec

\* Even when updates and cancellations ran behind the back of a waiting call, and the
\* call put its own object back, nothing makes the merchant sign a total that is not
\* that of the lines it signs with it.
THEOREM SignedTermsAddUp == Spec => []OffersAddUp
  <1>1. SignedInv => OffersAddUp
    BY DEF SignedInv
  <1>. QED BY <1>1, SignedIsInvariant, PTL
=============================================================================
