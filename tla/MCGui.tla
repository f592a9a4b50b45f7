---- MODULE MCGui ----
(***************************************************************************)
(* Instances of Gui for TLC: two providers, one of them gated.              *)
(***************************************************************************)
EXTENDS Gui, TLC

\* The async functions of the page are interchangeable.
Symmetry == Permutations(Jobs)

=============================================================================
