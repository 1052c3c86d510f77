-------------------------- MODULE PurchaseContract --------------------------
(***************************************************************************)
(* What the three services promise a user together, told without any of    *)
(* their messages: money is taken for a complete_checkout call only for a  *)
(* checkout and an amount the user consented to, it is captured only once  *)
(* held, and an order is placed only when it was captured.                 *)
(***************************************************************************)
EXTENDS Integers

CONSTANTS
  Calls,      \* complete_checkout calls
  Checkouts

Consent == [checkout: Checkouts, amount: Nat]

VARIABLES
  consents,  \* what the user has signed payment mandates for
  stage,     \* how far the money of each call got
  bought     \* what it was taken for

vars == <<consents, stage, bought>>

Stages == {"none", "held", "captured", "ordered"}
Nothing == [checkout |-> CHOOSE c \in Checkouts : TRUE, amount |-> 0]

Init ==
  /\ consents = {}
  /\ stage = [h \in Calls |-> "none"]
  /\ bought = [h \in Calls |-> Nothing]

Give ==
  /\ \E x \in consents' : consents' = consents \cup {x}
  /\ UNCHANGED <<stage, bought>>

Hold(h) ==
  /\ stage[h] = "none"
  /\ stage' = [stage EXCEPT ![h] = "held"]
  /\ \E x \in consents : bought' = [bought EXCEPT ![h] = x]
  /\ UNCHANGED consents

Capture(h) ==
  /\ stage[h] = "held"
  /\ stage' = [stage EXCEPT ![h] = "captured"]
  /\ UNCHANGED <<consents, bought>>

PlaceOrder(h) ==
  /\ stage[h] = "captured"
  /\ stage' = [stage EXCEPT ![h] = "ordered"]
  /\ UNCHANGED <<consents, bought>>

Next == Give \/ \E h \in Calls : Hold(h) \/ Capture(h) \/ PlaceOrder(h)

Spec == Init /\ [][Next]_vars
=============================================================================
