------------------------------ MODULE MCOrders ------------------------------
(* Small instances of Orders for TLC. *)
EXTENDS Orders, TLC

\* The refund_order calls are interchangeable.
RefundSymmetry == Permutations(RefundCalls)
=============================================================================
