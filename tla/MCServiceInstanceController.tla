--------------------- MODULE MCServiceInstanceController ---------------------
(* Instances of ServiceInstanceController for TLC. *)
EXTENDS ServiceInstanceController, TLC

\* Ids are interchangeable: SM assigns them.
Symmetry == Permutations(IDs)
=============================================================================
