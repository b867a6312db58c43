--------------------------- MODULE ManagedResource ---------------------------
(***************************************************************************)
(* What the operator promises about one resource: the thing it stands for  *)
(* (a service instance, a service binding) exists in the Service Manager   *)
(* only under the protection of the resource's finalizer, there is at most *)
(* one, and it is removed only after the resource was deleted.             *)
(***************************************************************************)
CONSTANT IDs

VARIABLES
  resource,   \* absent, open (no finalizer), guarded, or leaving (marked deleted)
  things      \* ids of the things the Service Manager has

vars == <<resource, things>>

Init == resource = "absent" /\ things = {}

Create == resource = "absent" /\ resource' = "open" /\ UNCHANGED things

Guard == resource = "open" /\ resource' = "guarded" /\ UNCHANGED things

\* A resource without the finalizer goes at once, another one is marked.
Delete ==
  /\ \/ resource = "open" /\ resource' = "absent"
     \/ resource = "guarded" /\ resource' = "leaving"
  /\ UNCHANGED things

\* The request may be on its way when the resource is deleted.
Provision ==
  /\ resource \in {"guarded", "leaving"} /\ things = {}
  /\ \E i \in IDs : things' = {i}
  /\ UNCHANGED resource

Deprovision ==
  /\ resource = "leaving"
  /\ things' = {}
  /\ UNCHANGED resource

Release ==
  /\ resource = "leaving" /\ things = {}
  /\ resource' = "absent"
  /\ UNCHANGED things

Next == Deprovision \/ Provision \/ Create \/ Guard \/ Delete \/ Release

Spec == Init /\ [][Next]_vars
=============================================================================
