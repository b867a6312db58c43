----------------------------- MODULE InstanceLife -----------------------------
(***************************************************************************)
(* What a binding may expect of the service instance it names: the         *)
(* instance comes, takes on any state in any order, and goes, and another  *)
(* one of the same name may come.  One that is being deleted only goes.    *)
(*                                                                         *)
(* ServiceBindingController takes this for its environment, and            *)
(* ServiceInstanceController implements it, so what is shown of a binding  *)
(* holds whatever the controller of its instance, the user and SM do.      *)
(*                                                                         *)
(* Not even a status with conditions is lasting: the retry of a status     *)
(* write may put back the empty one of a copy that was behind.             *)
(***************************************************************************)
EXTENDS Naturals

CONSTANT MaxInstances   \* bound: incarnations of the instance

VARIABLE inst   \* the instance as the informer shows it

\* What Reconcile of a binding decides by.  new: without conditions; ready: created,
\* whatever became of updates since, and though the status may have lost the id.
States == {"absent", "new", "inProgress", "ready", "createFailed", "deleting"}

Instances == [uid: 0..MaxInstances, state: States]

Init == inst = [uid |-> 0, state |-> "absent"]

\* The informer need not show what an instance was like first, nor each of them.
Created ==
  /\ \E uid \in inst.uid + 1 .. MaxInstances, state \in States :
       inst' = [uid |-> uid, state |-> state]

Changed ==
  /\ inst.state \notin {"absent", "deleting"}
  /\ \E state \in States \ {inst.state} : inst' = [inst EXCEPT !.state = state]

Gone ==
  /\ inst.state = "deleting"
  /\ inst' = [inst EXCEPT !.state = "absent"]

Next == Created \/ Changed \/ Gone

Spec == Init /\ [][Next]_inst
=============================================================================
