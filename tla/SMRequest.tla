------------------------------ MODULE SMRequest ------------------------------
(***************************************************************************)
(* What a controller may rely on when it makes a request through the SM    *)
(* client: SM acts at most once for it, and the answer, when it is not a   *)
(* failure, says truly what SM did.  After a failure, a transient one too, *)
(* SM may have acted or not.  These are the outcomes that the actions of   *)
(* the controllers' modules choose between.                                *)
(***************************************************************************)
CONSTANTS Kinds,      \* kinds of request
          Reading,    \* those that change nothing
          Deleting    \* those that are content when there is nothing

VARIABLES
  kind,     \* of the request made last, "none" before the first
  effect,   \* what SM did for it: none, done, started, nothing (to be done), read
  answer    \* what the controller was told, "none" as long as it waits

requestVars == <<kind, effect, answer>>

Init == kind = "none" /\ effect = "none" /\ answer = "none"

Pending == kind # "none" /\ answer = "none"

Ask ==
  /\ ~Pending
  /\ kind' \in Kinds
  /\ effect' = "none" /\ answer' = "none"

Effects ==
  IF kind \in Reading THEN {"read"}
  ELSE {"done", "started"} \cup (IF kind \in Deleting THEN {"nothing"} ELSE {})

Act ==
  /\ Pending /\ effect = "none"
  /\ effect' \in Effects
  /\ UNCHANGED <<kind, answer>>

Answer ==
  /\ Pending
  /\ \/ effect \in {"done", "nothing", "read"} /\ answer' = "success"
     \/ effect = "started" /\ answer' = "accepted"
     \/ answer' \in {"transient", "failed"}
  /\ UNCHANGED <<kind, effect>>

\* The controller is done with this client.
Forget ==
  /\ ~Pending
  /\ kind' = "none" /\ effect' = "none" /\ answer' = "none"

Next == Ask \/ Act \/ Answer \/ Forget

Spec == Init /\ [][Next]_requestVars
=============================================================================
