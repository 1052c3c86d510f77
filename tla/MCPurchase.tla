----------------------------- MODULE MCPurchase -----------------------------
(* Small instances of Purchase for TLC. *)
EXTENDS Purchase, TLC

\* The complete_checkout calls are interchangeable.
CallSymmetry == Permutations(Calls)

\* One discount, as large as the cheapest item.
Discount == {-1}
=============================================================================
