-------------------------- MODULE MCCheckoutSession --------------------------
(* Small instances of CheckoutSession for TLC. *)
EXTENDS CheckoutSession, TLC

\* The callers are interchangeable.
CallSymmetry == Permutations(Calls)

\* Discounts that take a total to 0 and below, and let two carts cost the same.
Discounts == {-2, -1}
=============================================================================
