---------------------- MODULE MCServiceBindingController ----------------------
(* Instances of ServiceBindingController for TLC. *)
EXTENDS ServiceBindingController, TLC

\* Ids are interchangeable: SM assigns them.
Symmetry == Permutations(IDs)
=============================================================================
