--------------------------- MODULE MCAsyncDelivery ---------------------------
(* Instances of AsyncDelivery for TLC. *)
EXTENDS AsyncDelivery, TLC

CONSTANT b2 \* one of the bodies

\* Every body asks for a conclusion; or b2 asks for qualified data.
Conclusions == [b \in Bodies |-> "composed_conclusion"]
Mixed == [b \in Bodies |-> IF b = b2 THEN "qualified_data" ELSE "composed_conclusion"]

Symmetry == Permutations(Posts) \cup Permutations(Workers) \cup Permutations(Cancels)
=============================================================================
