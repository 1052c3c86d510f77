------------------------------ MODULE MCWallet ------------------------------
(* Small instances of Wallet for TLC. *)
EXTENDS Wallet, TLC

\* Every checkout is a session at the first merchant of the instance.
OneMerchant == [c \in Checkouts |-> CHOOSE m \in Merchants : TRUE]

Settings(autonomy, cap, budget) ==
  [autonomy |-> autonomy, askAbove |-> 1, perTxCap |-> cap, budget |-> budget,
   allowed |-> Merchants, validUntil |-> 1]

Cautious == Settings("ask_above", 2, 3)
Frozen == Settings("always_ask", 2, 2)
SomePolicies == {Cautious, Frozen}
OnlyCautious == {Cautious}

\* Token values are random ids: interchangeable.
TokenSymmetry == Permutations(Tokens)
=============================================================================
