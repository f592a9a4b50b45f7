---- MODULE MCController ----
(***************************************************************************)
(* Instances of Controller for TLC.                                         *)
(***************************************************************************)
EXTENDS Controller, TLC

\* Tasks are interchangeable, and so are upstreams and surfaces.
Symmetry == Permutations(Tasks) \cup Permutations(Upstreams) \cup Permutations(Surfaces)
=============================================================================
