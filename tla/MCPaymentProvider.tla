------------------------- MODULE MCPaymentProvider -------------------------
(* Small instances of PaymentProvider for TLC. *)
EXTENDS PaymentProvider, TLC

\* Call ids are random transaction ids: interchangeable.
CallSymmetry == Permutations(Calls)

Started == {c \in Calls : calls[c].pc # "idle"}

\* Money: concurrent calls of an agent outside the registry, at one instant, under
\* the velocity limit the provider starts with.
Ledger ==
  /\ now = 0
  /\ velocityLimit = InitialLimit
  /\ agentRegistry = [a \in Registered |-> [status |-> "active", reputation |-> InitialScore]]
  /\ \A c \in Started : calls[c].req.agent \notin Registered

\* Trust: two calls that ride no mandate, for the same amount, while scores, limits
\* and the clock move.
Trust ==
  /\ Cardinality(Started) <= 2
  /\ \A c \in Started : /\ calls[c].req.open = NoOpen
                        /\ calls[c].req.amount = 1

\* The two regions of the state space the run explores.
Focus == Ledger \/ Trust
=============================================================================
