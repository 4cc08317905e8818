---------------------------- MODULE MCOperatorWizard ----------------------------
(* The operator wizard with the model values TLC needs: requests are alike. *)
EXTENDS OperatorWizard, TLC

Symmetry == Permutations(Handlers)
=============================================================================
