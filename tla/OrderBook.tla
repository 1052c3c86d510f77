----------------------------- MODULE OrderBook -----------------------------
(***************************************************************************)
(* What an order promises its buyer, told without calls, answers, timers   *)
(* or webhooks: the provider gives back no more than was paid, the books   *)
(* of the order only grow and hold each credit at most once, its parcel    *)
(* leaves once and arrives once, and what the agent shows is the order as  *)
(* it was at some time.                                                    *)
(***************************************************************************)
EXTENDS Integers, Sequences, Functions

CONSTANTS
  Sources,  \* what the provider may give money back for
  Total     \* what was paid

VARIABLES
  credits,  \* what the provider gave back, and what for
  books,    \* the entries of the order
  parcel,   \* where the parcel has been
  copy      \* what the agent shows

vars == <<credits, books, parcel, copy>>

Init ==
  /\ credits = {}
  /\ books = <<>>
  /\ parcel = <<>>
  /\ copy = [events |-> <<>>, adjustments |-> <<>>]

GivenBack(cs) == SumFunctionOnSet([c \in cs |-> c.amount], cs)

\* Money is given back for each source once.
Credit(source, amount) ==
  /\ \A c \in credits : c.source # source
  /\ GivenBack(credits) + amount <= Total
  /\ credits' = credits \cup {[source |-> source, amount |-> amount]}
  /\ UNCHANGED <<books, parcel, copy>>

Enter(entry) ==
  /\ books' = Append(books, entry)
  /\ UNCHANGED <<credits, parcel, copy>>

\* A credit is entered once, as it was given.
EnterCredit(c) ==
  /\ \A i \in DOMAIN books : books[i].source # c.source
  /\ Enter(c)

EnterComplaint == Enter([source |-> "buyer", amount |-> 0])

Leave ==
  /\ parcel = <<>>
  /\ parcel' = <<"shipped">>
  /\ UNCHANGED <<credits, books, copy>>

Arrive ==
  /\ parcel = <<"shipped">>
  /\ parcel' = <<"shipped", "delivered">>
  /\ UNCHANGED <<credits, books, copy>>

Tell(n, m) ==
  /\ copy' = [events |-> SubSeq(parcel, 1, n), adjustments |-> SubSeq(books, 1, m)]
  /\ UNCHANGED <<credits, books, parcel>>

Next ==
  \/ \E source \in Sources, amount \in 1..Total : Credit(source, amount)
  \/ \E c \in credits : EnterCredit(c)
  \/ EnterComplaint
  \/ Leave
  \/ Arrive
  \/ \E n \in 0..Len(parcel), m \in 0..Len(books) : Tell(n, m)

Spec == Init /\ [][Next]_vars
=============================================================================
