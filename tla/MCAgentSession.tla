--------------------------- MODULE MCAgentSession ---------------------------
(* Small instances of AgentSession for TLC. *)
EXTENDS AgentSession, TLC

CONSTANTS c1, c2

Autonomous == {"autonomous", "autonomy/authorize"}
Single == {"intent", "autonomy/prepare", "update", "select", "create", "prepare", "confirm",
           "resolve", "ask", "mode", "add"}

\* One call serves the autonomous runs, the other the single routes.
OneOfEach(c) == IF c = c1 THEN Autonomous ELSE Single

\* The only call there is serves the autonomous runs.
OnlyAutonomous(c) == Autonomous \cup {"autonomy/prepare"}

\* The user wants to be asked above an amount of 1, or every time.
AskAbove(amount) == [autonomy |-> "ask_above", ask_above_amount |-> amount]
AskAboveOneOrAlways == {AskAbove(1), [AskAbove(1) EXCEPT !.autonomy = "always_ask"]}
Relaxed == {AskAbove(2)}

\* Bound of the search: without a cap nothing stops a run, and a user who is asked every
\* time stops every one; they make one request less.
Shortened ==
  \/ policies[1].autonomy = "always_ask"
  \/ s.wish = NoCap \/ \E c \in Calls : call[c].cap = NoCap
ShorterRuns == Shortened => starts < MaxStarts

\* Merchants are interchangeable.
MerchantSymmetry == Permutations(Merchants)
=============================================================================
