------------------ MODULE ServiceInstanceController_proofs ------------------
(***************************************************************************)
(* Proofs about ServiceInstanceController, for every value of its          *)
(* constants.                                                              *)
(*                                                                         *)
(* What the worker computes between two calls is a function of one copy of *)
(* the resource: the copy it held, the cached one, or the one a write      *)
(* returned.  Continues(x, o) says of a next worker state x all that the   *)
(* invariant needs to know about that function, and the first group of     *)
(* lemmas establishes it once for each place Reconcile can come to.  The   *)
(* proofs of the actions then only look at the variables.                  *)
(***************************************************************************)
EXTENDS ServiceInstanceController, ManagedResource_proofs

Continues(x, o) ==
  /\ x \in Workers
  /\ x.obj = NoObject \/ Same(x.obj, o)
  /\ x.pc = "poll" => Polling(x.obj)
  /\ x.pc = "deprovision" => x.obj.deleting
  /\ x.pc \in {"update", "deprovision"} => x.obj.status.id # NoId

------------------------------------------------------------------------------
(* Values *)

\* The worker between two runs of Reconcile is of the right type.
LEMMA IdleType == Idle \in Workers /\ Idle.obj = NoObject /\ Idle.pc = "idle"
  BY NoObjectType DEF Idle, Workers, PCs, Nexts

------------------------------------------------------------------------------
(* Where Reconcile goes on *)

\* Being idle continues from any copy.
LEMMA IdleContinues ==
  ASSUME NEW o
  PROVE  Continues(Idle, o)
  BY IdleType DEF Continues

\* Setting out for a call that needs nothing of the copy.
LEMMA AtContinues ==
  ASSUME NEW o \in Objects, NEW p \in Objects, Same(p, o), NEW f \in BOOLEAN,
         NEW pc \in PCs, pc = "poll" => Polling(p), pc = "deprovision" => p.deleting,
         pc \in {"update", "deprovision"} => p.status.id # NoId
  PROVE  Continues(At(pc, p, f), o)
  BY DEF Continues, At, Workers, Nexts

\* Setting out for a status update.
LEMMA SavingContinues ==
  ASSUME NEW o \in Objects, NEW p \in Objects, Same(p, o), NEW f \in BOOLEAN,
         NEW next \in Nexts
  PROVE  Continues(Saving(p, f, next), o)
  BY DEF Continues, Saving, Workers, PCs

\* What follows init.
LEMMA ObserveSpecContinues ==
  ASSUME NEW o \in Objects, NEW f \in BOOLEAN
  PROVE  Continues(ObserveSpec(o, f), o)
<1>1. observe(o) \in Objects /\ Same(observe(o), o)
  BY ObserveType
<1>2. ASSUME NEW pc \in {"recover", "update"}, pc = "update" => o.status.id # NoId
      PROVE  Continues(At(pc, observe(o), f), o)
  <2>1. pc \in PCs /\ pc # "poll" /\ pc # "deprovision"
    BY DEF PCs
  <2>2. observe(o).status.id = o.status.id
    BY DEF observe, Objects, Statuses
  <2> QED
    BY <1>1, <1>2, <2>1, <2>2, AtContinues
<1> QED
  BY <1>2, IdleContinues DEF ObserveSpec

\* What follows the check for an SM client.
LEMMA DispatchContinues ==
  ASSUME NEW o \in Objects, NEW f \in BOOLEAN
  PROVE  Continues(Dispatch(o, f), o)
<1>1. Same(o, o)
  BY DEF Same
<1>2. {"poll", "recoverForDelete", "deprovision", "addFinalizer"} \subseteq PCs
  BY DEF PCs
<1>3. Polling(o) => Continues(At("poll", o, f), o)
  BY <1>1, <1>2, AtContinues
<1>4. isDelete(o) => Continues(At(DeleteCall(o), o, f), o)
  <2>1. ASSUME isDelete(o), NEW pc \in {"recoverForDelete", "deprovision"},
               pc = "deprovision" => o.status.id # NoId
        PROVE  Continues(At(pc, o, f), o)
    BY <1>1, <1>2, <2>1, AtContinues DEF isDelete
  <2> QED
    BY <2>1 DEF DeleteCall
<1>5. Continues(At("addFinalizer", o, f), o)
  BY <1>1, <1>2, AtContinues
<1> QED
  BY <1>3, <1>4, <1>5, IdleContinues, ObserveSpecContinues DEF Dispatch

\* What follows a status update.
LEMMA ContinueContinues ==
  ASSUME NEW o \in Objects, NEW f \in BOOLEAN, NEW next \in Nexts
  PROVE  Continues(Continue(o, f, next), o) /\ Continues(GiveUp(o, f, next), o)
<1>1. Continues(At("removeFinalizer", o, f), o)
  BY AtContinues DEF PCs, Same
<1>2. Continues(Saving(setFailureConditions("CREATE", o), f, "requeue"), o)
  <2>1. "CREATE" \in OperationCategories /\ "requeue" \in Nexts
    BY DEF OperationCategories, Nexts
  <2> QED
    BY <2>1, SettersType, SavingContinues
<1>3. Continues(Continue(o, f, next), o)
  BY <1>1, <1>2, ObserveSpecContinues, IdleContinues DEF Continue, NoClient
<1> QED
  BY <1>3, <1>2, IdleContinues DEF GiveUp, NoClient

------------------------------------------------------------------------------
(* Steps of the worker *)

\* The invariant is that of the resource and of SM, and what the worker keeps besides.
LEMMA Parts ==
  /\ IInv <=> BaseInv /\ w \in Workers /\ CallsAreMeant
  /\ IInv' <=> BaseInv' /\ w' \in Workers /\ CallsAreMeant'
<1>1. \A x \in Workers : x.obj \in Objects
  BY DEF Workers
<1> QED
  BY <1>1 DEF IInv, BaseInv, TypeOK, BaseTypes

\* What holds of a state the worker continues in.
LEMMA ContinuesMeant ==
  ASSUME NEW o, Continues(w', o)
  PROVE  /\ w' \in Workers /\ CallsAreMeant'
         /\ w'.obj \in Objects /\ (w'.obj = NoObject \/ Same(w'.obj, o))
  BY DEF Continues, Workers, CallsAreMeant, Polling, NoOp

\* A step of the worker that writes nothing to the API server.
LEMMA LocalStep ==
  ASSUME IInv, NEW o \in Copies, Continues(w', o),
         UNCHANGED <<apiObj, cache, watch, lives>>,
         queued' \in BOOLEAN, sm' \in [IDs -> Things], LiveIsRecorded'
  PROVE  IInv'
  BY Parts, ContinuesMeant, QuietStep

\* A step of the worker that writes p, the same incarnation or none at all.
LEMMA WriteStep ==
  ASSUME IInv, NEW p \in Objects, Write(p), p = NoObject \/ Same(p, apiObj),
         NEW o \in Copies, Continues(w', o),
         UNCHANGED <<cache, sm, lives>>, queued' \in BOOLEAN
  PROVE  IInv'
  BY Parts, ContinuesMeant, WritingStep

\* A step of somebody else, who may take away the worker's resource version.
LEMMA OthersStep ==
  ASSUME IInv, BaseInv', UNCHANGED w \/ Outdated
  PROVE  IInv'
<1>1. w' \in Workers /\ w'.pc = w.pc /\ w'.obj = w.obj
  BY DEF IInv, TypeOK, Outdated, Workers
<1>2. CallsAreMeant'
  BY <1>1 DEF IInv, CallsAreMeant, Polling, NoOp
<1> QED
  BY <1>1, <1>2, Parts

\* A call of the worker after which it is idle or about to write a status.
LEMMA PausedStep ==
  ASSUME BaseInv', NEW next \in Nexts, Paused(next)
  PROVE  IInv'
<1>1. w' \in Workers /\ w'.pc \in {"idle", "status"}
  <2>1. ASSUME NEW p \in Objects, NEW f \in BOOLEAN, w' = Saving(p, f, next)
        PROVE  w' \in Workers /\ w'.pc \in {"idle", "status"}
    BY <2>1 DEF Saving, Workers, PCs
  <2> QED
    BY <2>1, IdleType DEF Paused
<1>2. CallsAreMeant'
  BY <1>1 DEF CallsAreMeant
<1> QED
  BY <1>1, <1>2, Parts

------------------------------------------------------------------------------
(* The actions of the worker *)

\* The copies a Reconcile starts from or goes on with are resources.
LEMMA HeldType ==
  ASSUME TypeOK
  PROVE  /\ apiObj \in Copies /\ cache \in Copies /\ w.obj \in Copies
         /\ \A o \in Copies : o \in Objects
         /\ w.fresh \in BOOLEAN /\ w.next \in Nexts /\ w.pc \in PCs /\ w.try \in 0..3
  BY DEF TypeOK, Copies, Workers

\* Reconcile keeps the invariant.
LEMMA ReconcileStep == IInv /\ Reconcile => IInv'
<1> SUFFICES ASSUME IInv, Reconcile PROVE IInv'
  OBVIOUS
<1>1. TypeOK /\ cache \in Copies /\ cache \in Objects /\ w.obj \in Copies
  BY HeldType DEF IInv
<1>2. queued' \in BOOLEAN /\ sm' \in [IDs -> Things] /\ LiveIsRecorded'
  BY DEF IInv, TypeOK, LiveIsRecorded, Reconcile, ReconcileWith
<1>3. UNCHANGED <<apiObj, cache, watch, lives>>
  BY DEF Reconcile, ReconcileWith
<1>4. CASE UNCHANGED w
  <2>1. Continues(w', w.obj)
    BY <1>4 DEF IInv, TypeOK, Continues, CallsAreMeant, Same
  <2> QED
    BY <1>1, <1>2, <1>3, <2>1, LocalStep
<1>5. CASE w' = Dispatch(cache, watch = <<>>)
  BY <1>1, <1>2, <1>3, <1>5, DispatchContinues, LocalStep
<1>6. CASE w' = Saving(setBlockedCondition(cache), watch = <<>>, "noClient")
  <2>1. setBlockedCondition(cache) \in Objects /\ Same(setBlockedCondition(cache), cache)
    BY <1>1, SettersType DEF OperationCategories
  <2>2. "noClient" \in Nexts
    BY DEF Nexts
  <2>3. Continues(w', cache)
    BY <1>1, <1>6, <2>1, <2>2, SavingContinues
  <2> QED
    BY <1>1, <1>2, <1>3, <2>3, LocalStep
<1> QED
  BY <1>4, <1>5, <1>6 DEF Reconcile, ReconcileWith

\* The first attempt to write the status keeps the invariant.
LEMMA StatusUpdateStep == IInv /\ StatusUpdate => IInv'
<1> SUFFICES ASSUME IInv, StatusUpdate PROVE IInv'
  OBVIOUS
<1>1. /\ TypeOK /\ apiObj \in Copies /\ w.obj \in Copies
      /\ apiObj \in Objects /\ w.obj \in Objects /\ w.next \in Nexts
  BY HeldType DEF IInv
<1>2. CASE /\ Write([apiObj EXCEPT !.status = w.obj.status])
           /\ w' = Continue(apiObj', TRUE, w.next)
           /\ queued' = (queued \/ w.next = "requeue")
           /\ UNCHANGED <<cache, sm, lives>>
  <2> DEFINE p == [apiObj EXCEPT !.status = w.obj.status]
  <2>1. p \in Objects /\ Same(p, apiObj)
    BY <1>1, StatusType DEF Objects
  <2>2. apiObj' = p
    BY <1>2 DEF Write
  <2>3. Continues(w', p)
    BY <1>1, <1>2, <2>1, <2>2, ContinueContinues
  <2>4. Continues(w', apiObj)
    BY <2>1, <2>3 DEF Continues, Same
  <2>5. queued' \in BOOLEAN
    BY <1>2 DEF IInv, TypeOK
  <2> HIDE DEF p
  <2>6. Write(p)
    BY <1>2 DEF p
  <2> QED
    BY <1>1, <1>2, <2>1, <2>4, <2>5, <2>6, WriteStep
<1>3. CASE /\ w' = [w EXCEPT !.try = 2]
           /\ UNCHANGED <<apiObj, watch, queued, cache, sm, lives>>
  <2>1. Continues(w', w.obj)
    BY <1>3 DEF IInv, TypeOK, Workers, Continues, CallsAreMeant, Same
  <2>2. queued' \in BOOLEAN /\ sm' \in [IDs -> Things] /\ LiveIsRecorded'
    BY <1>3 DEF IInv, TypeOK, LiveIsRecorded
  <2> QED
    BY <1>1, <1>3, <2>1, <2>2, LocalStep
<1> QED
  BY <1>2, <1>3 DEF StatusUpdate, StatusUpdateThen

\* A later attempt to write the status keeps the invariant.
LEMMA StatusRetryStep == IInv /\ StatusRetry => IInv'
<1> SUFFICES ASSUME IInv, StatusRetry PROVE IInv'
  OBVIOUS
<1>1. /\ TypeOK /\ cache \in Copies /\ w.obj \in Copies
      /\ cache \in Objects /\ w.obj \in Objects /\ w.next \in Nexts /\ w.try \in 0..3
  BY HeldType DEF IInv
<1>2. CASE /\ watch = <<>>
           /\ Write([cache EXCEPT !.status = w.obj.status])
           /\ w' = Continue(cache, cache.status = w.obj.status, w.next)
           /\ queued' = (queued \/ w.next = "requeue")
           /\ UNCHANGED <<cache, sm, lives>>
  <2> DEFINE p == [cache EXCEPT !.status = w.obj.status]
  <2>1. p \in Objects /\ Same(p, cache)
    BY <1>1, StatusType DEF Objects
  <2>2. cache = apiObj
    BY <1>2 DEF IInv, CacheFollows
  <2>3. Continues(w', cache)
    BY <1>1, <1>2, ContinueContinues
  <2>4. queued' \in BOOLEAN
    BY <1>2 DEF IInv, TypeOK
  <2>5. Write(p)
    BY <1>2
  <2> HIDE DEF p
  <2> QED
    BY <1>1, <1>2, <2>1, <2>2, <2>3, <2>4, <2>5, WriteStep
<1>3. CASE UNCHANGED <<apiObj, watch, cache, sm, lives>>
  <2> DEFINE o == IF Exists(cache) THEN cache ELSE w.obj
             f == Exists(cache) /\ watch = <<>>
  <2>1. CASE w.try < Attempts /\ w' = [w EXCEPT !.obj = o, !.fresh = f, !.try = @ + 1]
                /\ UNCHANGED queued
    <3>1. w.pc = "status" /\ w \in Workers
      BY DEF StatusRetry, StatusRetryThen, IInv, TypeOK
    <3>2. o \in Objects /\ o \in Copies /\ f \in BOOLEAN
      BY <1>1
    <3> HIDE DEF o, f
    <3>3. w.try + 1 \in 0..3
      BY <1>1, <2>1 DEF Attempts
    <3>4. w' \in Workers /\ w'.pc = "status" /\ w'.obj = o
      BY <2>1, <3>1, <3>2, <3>3 DEF Workers
    <3>5. Continues(w', o)
      BY <3>4 DEF Continues, Same
    <3>6. queued' \in BOOLEAN /\ sm' \in [IDs -> Things] /\ LiveIsRecorded'
      BY <1>3, <2>1 DEF IInv, TypeOK, LiveIsRecorded
    <3> QED
      BY <1>3, <3>2, <3>5, <3>6, LocalStep
  <2>2. CASE w' = GiveUp(o, f, w.next) /\ queued' = (queued \/ w.next # "noClient")
    <3>1. Continues(w', o) /\ o \in Copies
      BY <1>1, <2>2, ContinueContinues
    <3>2. queued' \in BOOLEAN /\ sm' \in [IDs -> Things] /\ LiveIsRecorded'
      BY <1>3, <2>2 DEF IInv, TypeOK, LiveIsRecorded
    <3> HIDE DEF o, f
    <3> QED
      BY <1>3, <3>1, <3>2, LocalStep
  <2>3. w.try < Attempts \/ w.try >= Attempts
    BY <1>1 DEF Attempts
  <2>4. \/ /\ Exists(cache) /\ watch = <<>>
           /\ Write([cache EXCEPT !.status = w.obj.status])
           /\ w' = Continue(cache, cache.status = w.obj.status, w.next)
           /\ queued' = (queued \/ w.next = "requeue")
        \/ /\ w.try < Attempts
           /\ w' = [w EXCEPT !.obj = o, !.fresh = f, !.try = @ + 1]
           /\ UNCHANGED queued
        \/ /\ w' = GiveUp(o, f, w.next)
           /\ queued' = (queued \/ w.next # "noClient")
    BY <2>3 DEF StatusRetry, StatusRetryThen
  <2> QED
    BY <1>2, <1>3, <2>1, <2>2, <2>4
<1> QED
  BY <1>2, <1>3 DEF StatusRetry, StatusRetryThen

\* Adding the finalizer keeps the invariant.
LEMMA AddFinalizerStep == IInv /\ AddFinalizer => IInv'
<1>1. IInv => BaseInv /\ w.fresh \in BOOLEAN
  BY Parts DEF Workers
<1>2. "init" \in Nexts
  BY DEF Nexts
<1> QED
  BY <1>1, <1>2, AddFinalizerKeeps, PausedStep

\* Removing the finalizer keeps the invariant.
LEMMA RemoveFinalizerStep == IInv /\ RemoveFinalizer => IInv'
<1>1. IInv => BaseInv /\ w.fresh \in BOOLEAN
  BY Parts DEF Workers
<1>2. "done" \in Nexts
  BY DEF Nexts
<1> QED
  BY <1>1, <1>2, RemoveFinalizerKeeps, PausedStep

\* Returning after a computed status, and coming back later, continue.
LEMMA SaveContinues ==
  ASSUME TypeOK, NEW p \in Objects, Same(p, w.obj), NEW next \in Nexts, Save(p, next)
  PROVE  Continues(w', w.obj) /\ queued' \in BOOLEAN
<1>1. w.obj \in Objects /\ w.fresh \in BOOLEAN
  BY HeldType
<1> QED
  BY <1>1, SavingContinues DEF Save, TypeOK

\* A step that only moves the worker keeps the invariant.
LEMMA MoveStep ==
  ASSUME IInv, Continues(w', w.obj), queued' \in BOOLEAN,
         UNCHANGED <<apiObj, cache, watch, lives, sm>>
  PROVE  IInv'
<1>1. sm' \in [IDs -> Things] /\ LiveIsRecorded' /\ w.obj \in Copies
  BY DEF IInv, TypeOK, LiveIsRecorded, Copies
<1> QED
  BY <1>1, LocalStep

\* The answers to a refused request continue.
LEMMA AnswersContinue ==
  ASSUME TypeOK, NEW type \in OperationCategories, Transient(type) \/ NonTransient(type)
  PROVE  Continues(w', w.obj) /\ queued' \in BOOLEAN
<1>1. w.obj \in Objects
  BY HeldType
<1>2. "done" \in Nexts /\ "requeue" \in Nexts
  BY DEF Nexts
<1>3. CASE Transient(type)
  BY <1>1, <1>2, <1>3, SettersType, SaveContinues DEF Transient
<1>4. CASE NonTransient(type)
  BY <1>1, <1>2, <1>4, ObserveType, SaveContinues DEF NonTransient
<1> QED
  BY <1>3, <1>4

\* Polling an operation keeps the invariant.
LEMMA PollStep == IInv /\ Poll => IInv'
<1> SUFFICES ASSUME IInv, Poll PROVE IInv'
  OBVIOUS
<1> DEFINE op == w.obj.status.op
           failed == setFailureConditions(op.type, w.obj)
           succeeded == setSuccessConditions(op.type, w.obj)
           unread == [w.obj EXCEPT !.status = freshStatus(w.obj, failed.status.cond)]
<1>1. TypeOK /\ w.obj \in Objects /\ w.fresh \in BOOLEAN
  BY HeldType DEF IInv
<1>2. op.type \in OperationCategories
  BY <1>1 DEF Poll, IInv, CallsAreMeant, Polling, Objects, Statuses, OpRefs
<1>3. /\ failed \in Objects /\ Same(failed, w.obj)
      /\ succeeded \in Objects /\ Same(succeeded, w.obj)
  BY <1>1, <1>2, SettersType
<1>4. \A o \in Objects : ClearOp(o) \in Objects /\ Same(ClearOp(o), o)
  BY DEF Objects, Same, ClearOp, Statuses, OpRefs
<1>5. unread \in Objects /\ Same(unread, w.obj)
  <2>1. failed.status.cond \in Conditions /\ w.obj.status.id \in IDs \cup {NoId}
    BY <1>1, <1>3 DEF Objects, Statuses
  <2>2. freshStatus(w.obj, failed.status.cond) \in Statuses
    BY <2>1 DEF freshStatus, EmptyStatus, Statuses, OpRefs
  <2> QED
    BY <1>1, <2>2, StatusType
<1>6. {"done", "requeue", "clearOp"} \subseteq Nexts
  BY DEF Nexts
<1> HIDE DEF failed, succeeded, unread
<1> DEFINE Goal == Continues(w', w.obj) /\ queued' \in BOOLEAN
<1>7. Save(unread, "requeue") \/ Requeue => Goal
  BY <1>1, <1>5, <1>6, SaveContinues, IdleContinues DEF Requeue
<1>8. ASSUME NEW o \in Objects, Same(o, w.obj), NEW next \in {"done", "requeue"},
             Save(ClearOp(o), next)
      PROVE  Goal
  <2>1. ClearOp(o) \in Objects /\ Same(ClearOp(o), w.obj)
    BY <1>4, <1>8 DEF Same
  <2> QED
    BY <1>1, <1>6, <1>8, <2>1, SaveContinues
<1>9. ASSUME w' = [At("removeFinalizer", succeeded, w.fresh) EXCEPT !.next = "clearOp"],
             UNCHANGED queued
      PROVE  Goal
  <2>1. w' = [pc |-> "removeFinalizer", obj |-> succeeded, fresh |-> w.fresh,
              try |-> 0, next |-> "clearOp"]
    BY <1>9 DEF At
  <2>2. w' \in Workers
    BY <1>1, <1>3, <1>6, <2>1 DEF Workers, PCs
  <2> QED
    BY <1>1, <1>3, <1>9, <2>1, <2>2 DEF Continues, TypeOK
<1> HIDE DEF Goal
<1>10. Goal
  <2>1. \/ Save(unread, "requeue")
        \/ Requeue
        \/ Save(ClearOp(failed), IF op.type = "DELETE" THEN "requeue" ELSE "done")
        \/ Save(ClearOp(succeeded), "done")
        \/ /\ w' = [At("removeFinalizer", succeeded, w.fresh) EXCEPT !.next = "clearOp"]
           /\ UNCHANGED queued
    BY DEF Poll, failed, succeeded, unread
  <2>2. Save(ClearOp(failed), IF op.type = "DELETE" THEN "requeue" ELSE "done") => Goal
    BY <1>3, <1>8
  <2>3. Save(ClearOp(succeeded), "done") => Goal
    BY <1>3, <1>8
  <2> QED
    BY <1>7, <1>9, <2>1, <2>2, <2>3
<1>11. UNCHANGED <<apiObj, cache, watch, lives, sm>>
  BY DEF Poll
<1> QED
  BY <1>10, <1>11, MoveStep DEF Goal

\* A step in which the worker calls SM keeps the invariant.
LEMMA RequestStep ==
  ASSUME IInv, Continues(w', w.obj), queued' \in BOOLEAN,
         UNCHANGED <<apiObj, cache, watch, lives>>,
         sm' \in [IDs -> Things], LiveIsRecorded'
  PROVE  IInv'
<1>1. w.obj \in Copies
  BY DEF Copies
<1> QED
  BY <1>1, LocalStep

\* Taking over what SM says about an instance is a change of the status.
LEMMA ResyncType ==
  ASSUME TypeOK, LiveIsRecorded, NEW o \in Objects, NEW i \in IDs, sm[i].alive
  PROVE  resyncInstanceStatus(o, i) \in Objects /\ Same(resyncInstanceStatus(o, i), o)
<1> DEFINE found == [o EXCEPT !.status.id = i, !.status.op = NoOp,
                              !.status.obs = ResyncedGeneration(o)]
<1>1. Last(i) \in Operations /\ Len(sm[i].ops) \in Nat
  <2>1. sm[i].ops \in Seq(Operations) /\ sm[i].ops # <<>>
    BY DEF TypeOK, Things, LiveIsRecorded
  <2> QED
    BY <2>1 DEF Last
<1>2. Last(i).type \in OperationCategories /\ Last(i).state \in OperationStates
  BY <1>1 DEF Operations
<1>3. found \in Objects /\ Same(found, o)
  BY DEF Objects, Statuses, OpRefs, Same, ResyncedGeneration
<1> HIDE DEF found
<1>4. /\ InOperation(Last(i).type, i, Len(sm[i].ops), found) \in Objects
      /\ Same(InOperation(Last(i).type, i, Len(sm[i].ops), found), o)
  BY <1>1, <1>2, <1>3, InOperationType DEF Same
<1>5. /\ setSuccessConditions(Last(i).type, found) \in Objects
      /\ Same(setSuccessConditions(Last(i).type, found), o)
      /\ setFailureConditions(Last(i).type, found) \in Objects
      /\ Same(setFailureConditions(Last(i).type, found), o)
  BY <1>2, <1>3, SettersType DEF Same
<1> QED
  BY <1>2, <1>4, <1>5 DEF resyncInstanceStatus, OperationStates, found

\* Recovery before a creation keeps the invariant.
LEMMA RecoverStep == IInv /\ Recover => IInv'
<1> SUFFICES ASSUME IInv, Recover PROVE IInv'
  OBVIOUS
<1> DEFINE Goal == Continues(w', w.obj) /\ queued' \in BOOLEAN
<1>1. TypeOK /\ LiveIsRecorded /\ w.obj \in Objects /\ w.fresh \in BOOLEAN
  BY HeldType DEF IInv
<1>2. "requeue" \in Nexts /\ "done" \in Nexts
  BY DEF Nexts
<1>3. Save(setFailureConditions("CREATE", w.obj), "requeue") => Goal
  <2>1. "CREATE" \in OperationCategories
    BY DEF OperationCategories
  <2> QED
    BY <1>1, <1>2, <2>1, SettersType, SaveContinues
<1>4. ASSUME NEW i \in Matches(w.obj.name), Save(resyncInstanceStatus(w.obj, i), "done")
      PROVE  Goal
  <2>1. i \in IDs /\ sm[i].alive
    BY DEF Matches
  <2> QED
    BY <1>1, <1>2, <1>4, <2>1, ResyncType, SaveContinues
<1>5. Goto("provision", w.obj) => Goal
  BY <1>1, AtContinues DEF Goto, PCs, Same, TypeOK
<1>6. UNCHANGED <<apiObj, cache, watch, sm, lives>>
  BY DEF Recover
<1> HIDE DEF Goal
<1>7. Goal
  BY <1>3, <1>4, <1>5 DEF Recover
<1> QED
  BY <1>6, <1>7, MoveStep DEF Goal

\* Recovery before a deletion keeps the invariant.
LEMMA RecoverForDeleteStep == IInv /\ RecoverForDelete => IInv'
<1> SUFFICES ASSUME IInv, RecoverForDelete PROVE IInv'
  OBVIOUS
<1> DEFINE Goal == Continues(w', w.obj) /\ queued' \in BOOLEAN
<1>1. TypeOK /\ w.obj \in Objects /\ w.fresh \in BOOLEAN
  BY HeldType DEF IInv
<1>2. Requeue => Goal
  BY IdleContinues DEF Requeue
<1>3. ASSUME NEW i \in Matches(w.obj.name),
             Save(setInProgressCondition("DELETE", [w.obj EXCEPT !.status.id = i]), "done")
      PROVE  Goal
  <2> DEFINE p == [w.obj EXCEPT !.status.id = i]
  <2>1. p \in Objects /\ Same(p, w.obj)
    BY <1>1 DEF Matches, Objects, Statuses, Same
  <2>2. "done" \in Nexts /\ "DELETE" \in OperationCategories
    BY DEF Nexts, OperationCategories
  <2> HIDE DEF p
  <2>3. /\ setInProgressCondition("DELETE", p) \in Objects
        /\ Same(setInProgressCondition("DELETE", p), w.obj)
    BY <2>1, <2>2, SettersType DEF Same
  <2> QED
    BY <1>1, <1>3, <2>2, <2>3, SaveContinues DEF p
<1>4. Goto("removeFinalizer", w.obj) => Goal
  BY <1>1, AtContinues DEF Goto, PCs, Same, TypeOK
<1>5. UNCHANGED <<apiObj, cache, watch, sm, lives>>
  BY DEF RecoverForDelete
<1> HIDE DEF Goal
<1>6. Goal
  BY <1>2, <1>3, <1>4 DEF RecoverForDelete
<1> QED
  BY <1>5, <1>6, MoveStep DEF Goal

\* Accepted synchronously, accepted asynchronously: the two answers that carry
\* an id continue.
LEMMA AcceptedContinues ==
  ASSUME TypeOK, NEW type \in OperationCategories, NEW i \in IDs \cup {NoId},
         NEW n \in Nat, NEW next \in Nexts,
         \/ Save(setSuccessConditions(type, [w.obj EXCEPT !.status.id = i]), next)
         \/ i \in IDs /\ Save(InOperation(type, i, n, w.obj), next)
  PROVE  Continues(w', w.obj) /\ queued' \in BOOLEAN
<1> DEFINE p == [w.obj EXCEPT !.status.id = i]
<1>1. w.obj \in Objects
  BY HeldType
<1>2. p \in Objects /\ Same(p, w.obj)
  BY <1>1 DEF Objects, Statuses, Same
<1> HIDE DEF p
<1>3. setSuccessConditions(type, p) \in Objects /\ Same(setSuccessConditions(type, p), w.obj)
  BY <1>2, SettersType DEF Same
<1>4. i \in IDs => /\ InOperation(type, i, n, w.obj) \in Objects
                  /\ Same(InOperation(type, i, n, w.obj), w.obj)
  BY <1>1, InOperationType
<1> QED
  BY <1>3, <1>4, SaveContinues DEF p

\* Creating an instance keeps the invariant.
LEMMA createInstanceStep == IInv /\ createInstance => IInv'
<1> SUFFICES ASSUME IInv, createInstance PROVE IInv'
  OBVIOUS
<1> DEFINE Goal == Continues(w', w.obj) /\ queued' \in BOOLEAN
           SMGoal == sm' \in [IDs -> Things] /\ LiveIsRecorded'
<1>1. TypeOK /\ LiveIsRecorded /\ w.obj \in Objects /\ RequestOf(w.obj) \in Requests
  BY HeldType, SpecType DEF IInv
<1>2. "CREATE" \in OperationCategories /\ {"done", "requeue"} \subseteq Nexts
  BY DEF OperationCategories, Nexts
<1>3. ASSUME NEW i \in FreeIDs, NEW state \in {"SUCCEEDED", "IN_PROGRESS"},
             SMCreate(i, RequestOf(w.obj), state)
      PROVE  SMGoal
  BY <1>1, <1>2, <1>3, SMTypes DEF FreeIDs, TypeOK
<1>4. UNCHANGED sm => SMGoal
  BY <1>1 DEF TypeOK, LiveIsRecorded
<1>5. ASSUME NEW i \in FreeIDs,
             \/ Save(setSuccessConditions("CREATE", [w.obj EXCEPT !.status.id = i]), "done")
             \/ Save(InOperation("CREATE", i, 1, w.obj), "requeue")
      PROVE  Goal
  BY <1>1, <1>2, <1>5, AcceptedContinues DEF FreeIDs
<1>6. Transient("CREATE") \/ NonTransient("CREATE") => Goal
  BY <1>1, <1>2, AnswersContinue
<1> HIDE DEF Goal, SMGoal
<1>7. Goal /\ SMGoal
  BY <1>3, <1>4, <1>5, <1>6 DEF createInstance, Unanswered
<1>8. UNCHANGED <<apiObj, cache, watch, lives>>
  BY DEF createInstance
<1> QED
  BY <1>7, <1>8, RequestStep DEF Goal, SMGoal

\* Updating an instance keeps the invariant.
LEMMA updateInstanceStep == IInv /\ updateInstance => IInv'
<1> SUFFICES ASSUME IInv, updateInstance PROVE IInv'
  OBVIOUS
<1> DEFINE Goal == Continues(w', w.obj) /\ queued' \in BOOLEAN
           SMGoal == sm' \in [IDs -> Things] /\ LiveIsRecorded'
           i == w.obj.status.id
<1>1. TypeOK /\ LiveIsRecorded /\ w.obj \in Objects /\ RequestOf(w.obj) \in Requests
  BY HeldType, SpecType DEF IInv
<1>2. "UPDATE" \in OperationCategories /\ {"done", "requeue"} \subseteq Nexts
  BY DEF OperationCategories, Nexts
<1>3. i \in IDs /\ Len(sm[i].ops) + 1 \in Nat
  <2>1. i \in IDs
    BY <1>1 DEF updateInstance, IInv, CallsAreMeant, Objects, Statuses
  <2>2. \A s \in Seq(Operations) : Len(s) + 1 \in Nat
    OBVIOUS
  <2>3. sm[i].ops \in Seq(Operations)
    BY <1>1, <2>1 DEF TypeOK, Things
  <2> QED
    BY <2>1, <2>2, <2>3
<1>4. ASSUME NEW state \in {"SUCCEEDED", "IN_PROGRESS"}, SMPatch(i, RequestOf(w.obj), state)
      PROVE  SMGoal
  BY <1>1, <1>3, <1>4, SMTypes DEF TypeOK
<1>5. UNCHANGED sm => SMGoal
  BY <1>1 DEF TypeOK, LiveIsRecorded
<1>6. Save(setSuccessConditions("UPDATE", w.obj), "done") => Goal
  BY <1>1, <1>2, SettersType, SaveContinues
<1>7. Save(InOperation("UPDATE", i, Len(sm[i].ops) + 1, w.obj), "requeue") => Goal
  BY <1>1, <1>2, <1>3, AcceptedContinues
<1>8. Transient("UPDATE") \/ NonTransient("UPDATE") => Goal
  BY <1>1, <1>2, AnswersContinue
<1> HIDE DEF Goal, SMGoal
<1>9. Goal /\ SMGoal
  BY <1>4, <1>5, <1>6, <1>7, <1>8 DEF updateInstance, Unanswered
<1>10. UNCHANGED <<apiObj, cache, watch, lives>>
  BY DEF updateInstance
<1> QED
  BY <1>9, <1>10, RequestStep DEF Goal, SMGoal

\* Deleting an instance keeps the invariant.
LEMMA DeprovisionStep == IInv /\ Deprovision => IInv'
<1> SUFFICES ASSUME IInv, Deprovision PROVE IInv'
  OBVIOUS
<1> DEFINE Goal == Continues(w', w.obj) /\ queued' \in BOOLEAN
           SMGoal == sm' \in [IDs -> Things] /\ LiveIsRecorded'
           i == w.obj.status.id
<1>1. TypeOK /\ LiveIsRecorded /\ w.obj \in Objects /\ RequestOf(w.obj) \in Requests
  BY HeldType, SpecType DEF IInv
<1>2. "DELETE" \in OperationCategories /\ {"done", "requeue", "finalize"} \subseteq Nexts
  BY DEF OperationCategories, Nexts
<1>3. i \in IDs /\ Len(sm[i].ops) + 1 \in Nat
  <2>1. i \in IDs
    BY <1>1 DEF Deprovision, IInv, CallsAreMeant, Objects, Statuses
  <2>2. \A s \in Seq(Operations) : Len(s) + 1 \in Nat
    OBVIOUS
  <2>3. sm[i].ops \in Seq(Operations)
    BY <1>1, <2>1 DEF TypeOK, Things
  <2> QED
    BY <2>1, <2>2, <2>3
<1>4. SMDeleteNow(i) \/ SMDeleteAsync(i) => SMGoal
  BY <1>1, <1>3, SMTypes DEF TypeOK
<1>5. UNCHANGED sm => SMGoal
  BY <1>1 DEF TypeOK, LiveIsRecorded
<1>6. Save(setSuccessConditions("DELETE", [w.obj EXCEPT !.status.id = NoId]), "finalize")
        => Goal
  <2>1. 0 \in Nat /\ NoId \in IDs \cup {NoId}
    OBVIOUS
  <2> QED
    BY <1>1, <1>2, <2>1, AcceptedContinues
<1>7. Save(InOperation("DELETE", i, Len(sm[i].ops) + 1, w.obj), "requeue") => Goal
  BY <1>1, <1>2, <1>3, AcceptedContinues
<1>8. Transient("DELETE") => Goal
  BY <1>1, <1>2, AnswersContinue
<1>9. Save(setFailureConditions("DELETE", w.obj), "requeue") => Goal
  BY <1>1, <1>2, SettersType, SaveContinues
<1> HIDE DEF Goal, SMGoal
<1>10. Goal /\ SMGoal
  BY <1>4, <1>5, <1>6, <1>7, <1>8, <1>9 DEF Deprovision, UnansweredDelete
<1>11. UNCHANGED <<apiObj, cache, watch, lives>>
  BY DEF Deprovision
<1> QED
  BY <1>10, <1>11, RequestStep DEF Goal, SMGoal
------------------------------------------------------------------------------
(* The actions of the others *)

\* SM finishing an operation keeps the invariant.
LEMMA SMCompleteStep == ASSUME NEW i \in IDs PROVE IInv /\ SMComplete(i) => IInv'
  BY Parts, SMCompleteKeeps, OthersStep DEF SMComplete

\* What the user does keeps the invariant.
LEMMA UserKeeps == IInv /\ User => IInv'
<1> SUFFICES ASSUME IInv, User PROVE IInv'
  OBVIOUS
<1>1. Outdated /\ w'.obj = w.obj
  BY DEF IInv, TypeOK, Workers, User, UserDelete, UserCreate, UserEdit, Outdated
<1>2. BaseInv
  BY Parts
<1>3. BaseInv'
  BY <1>1, <1>2, DefaultType, UserDeleteKeeps, UserCreateKeeps, UserEditKeeps DEF User
<1> QED
  BY <1>1, <1>3, OthersStep

\* The informer applying a version keeps the invariant.
LEMMA DeliverStep == IInv /\ Deliver => IInv'
  BY Parts, DeliverKeeps, OthersStep DEF Deliver

\* A resync keeps the invariant.
LEMMA ResyncStep == IInv /\ Resync => IInv'
  BY Parts, ResyncKeeps, OthersStep DEF Resync

\* A restart keeps the invariant: the copies that are left are the API server's.
LEMMA RestartStep == IInv /\ Restart => IInv'
<1>1. Restart => Paused("done") /\ "done" \in Nexts
  BY DEF Restart, Paused, Nexts
<1> QED
  BY <1>1, Parts, RestartKeeps, PausedStep

------------------------------------------------------------------------------
(* The theorems *)

\* The invariant holds to begin with.
LEMMA InitIInv == Init => IInv
<1> SUFFICES ASSUME Init PROVE IInv
  OBVIOUS
<1>1. BaseInv
  BY InitBase DEF Init
<1>2. w \in Workers /\ CallsAreMeant
  BY IdleType DEF Init, CallsAreMeant
<1> QED
  BY <1>1, <1>2, Parts

\* Every step keeps the invariant.
LEMMA NextIInv == IInv /\ [Next]_vars => IInv'
<1>1. IInv /\ Worker => IInv'
  BY ReconcileStep, StatusUpdateStep, StatusRetryStep, AddFinalizerStep, RemoveFinalizerStep,
     PollStep, RecoverStep, createInstanceStep, updateInstanceStep, RecoverForDeleteStep,
     DeprovisionStep DEF Worker
<1>2. IInv /\ ServiceManager => IInv'
  BY SMCompleteStep DEF ServiceManager
<1>3. IInv /\ UNCHANGED vars => IInv'
  BY DEF vars, baseVars, IInv, TypeOK, CacheFollows, DeletionIsFinal, Copies, CallsAreMeant, Polling,
         LiveIsRecorded
<1> QED
  BY <1>1, <1>2, <1>3, UserKeeps, DeliverStep, ResyncStep, RestartStep DEF Next

\* The invariant of the controller: types; the informer's backlog ends in what
\* the API server has; no copy of the resource the controller works on is ahead
\* of it or marked for deletion when it is not; calls to SM are made as meant.
THEOREM Invariant == Spec => []IInv
  BY InitIInv, NextIInv, PTL DEF Spec

\* Every variable of the controller keeps its type.
THEOREM TypeCorrect == Spec => []TypeOK
<1>1. IInv => TypeOK
  BY DEF IInv
<1> QED
  BY <1>1, Invariant, PTL

\* Only Deprovision, among the steps from "deprovision", changes SM from the
\* worker; SM itself is the other actor that can.
LEMMA DeprovisionIsMeant ==
  IInv /\ w.pc = "deprovision" => ~Exists(apiObj) \/ apiObj.uid # w.obj.uid \/ apiObj.deleting
<1> SUFFICES ASSUME IInv, w.pc = "deprovision", apiObj.uid = w.obj.uid PROVE apiObj.deleting
  OBVIOUS
<1>1. w.obj.deleting /\ w.obj \in Copies
  BY DEF IInv, CallsAreMeant, Copies
<1> QED
  BY <1>1 DEF IInv, DeletionIsFinal

\* deleteInstance asks SM to delete an instance only for an incarnation of the
\* resource that the user has deleted, however old the copy Reconcile works on.
THEOREM DeletionAsked == Spec => DeleteOnlyWhenAsked
<1>1. IInv => (w.pc = "deprovision" /\ sm' # sm
                 => ~Exists(apiObj) \/ apiObj.uid # w.obj.uid \/ apiObj.deleting)
  BY DeprovisionIsMeant
<1> QED
  BY <1>1, Invariant, PTL DEF DeleteOnlyWhenAsked

------------------------------------------------------------------------------
(* What the informer shows *)

\* The worker writes a status, at its first attempt ...
LEMMA StatusUpdateKind == IInv /\ StatusUpdate => Kinds
<1> SUFFICES ASSUME IInv, StatusUpdate PROVE Kinds
  OBVIOUS
<1>1. UNCHANGED <<cache, lives>> /\ apiObj \in Objects /\ w.obj \in Objects
  BY HeldType DEF StatusUpdate, StatusUpdateThen, IInv
<1>2. CASE Write([apiObj EXCEPT !.status = w.obj.status])
  <2>1. w.obj.status \in Statuses
    BY <1>1 DEF Objects
  <2> QED
    BY <1>1, <1>2, <2>1, StatusType, RewritesSame, Parts DEF Kinds
<1>3. CASE UNCHANGED <<apiObj, watch>>
  BY <1>1, <1>3 DEF Kinds, Undisturbed
<1> QED
  BY <1>2, <1>3 DEF StatusUpdate, StatusUpdateThen

\* ... or at a later one.
LEMMA StatusRetryKind == IInv /\ StatusRetry => Kinds
<1> SUFFICES ASSUME IInv, StatusRetry PROVE Kinds
  OBVIOUS
<1>1. UNCHANGED <<cache, lives>> /\ apiObj \in Objects /\ w.obj \in Objects
  BY HeldType DEF StatusRetry, StatusRetryThen, IInv
<1>2. CASE watch = <<>> /\ Write([cache EXCEPT !.status = w.obj.status])
  <2>1. w.obj.status \in Statuses
    BY <1>1 DEF Objects
  <2> QED
    BY <1>1, <1>2, <2>1, CacheIsCurrent, StatusType, RewritesSame, Parts DEF Kinds, IInv
<1>3. CASE UNCHANGED <<apiObj, watch>>
  BY <1>1, <1>3 DEF Kinds, Undisturbed
<1> QED
  BY <1>2, <1>3 DEF StatusRetry, StatusRetryThen

\* The user edits and deletes what is there, and creates what is not.
LEMMA UserKind == IInv /\ User => Kinds
<1> SUFFICES ASSUME IInv, User PROVE Kinds
  OBVIOUS
<1>1. BaseInv
  BY Parts
<1>2. NoName \in SecretNames \cup {NoName}
  OBVIOUS
<1> QED
  BY <1>1, <1>2, DefaultType, UserDeleteKind, UserCreateKind, UserEditKind DEF User

\* The informer, and what it follows, know no other steps.
LEMMA KindsOfSteps == IInv /\ [Next]_vars => Kinds
<1> SUFFICES ASSUME IInv, [Next]_vars PROVE Kinds
  OBVIOUS
<1>1. CASE Reconcile \/ Poll \/ Recover \/ createInstance \/ updateInstance
           \/ RecoverForDelete \/ Deprovision
  BY <1>1 DEF Kinds, Undisturbed, Reconcile, ReconcileWith, Poll, Recover, createInstance,
              updateInstance, RecoverForDelete, Deprovision
<1>2. CASE ServiceManager \/ Resync \/ UNCHANGED vars
  BY <1>2 DEF Kinds, Undisturbed, ServiceManager, SMComplete, Resync, vars, baseVars
<1>3. CASE Deliver \/ Restart
  BY <1>3 DEF Kinds
<1> QED
  BY <1>1, <1>2, <1>3, StatusUpdateKind, StatusRetryKind, AddFinalizerKind,
     RemoveFinalizerKind, UserKind, Parts DEF Next, Worker

\* The CHOOSE of SeenUid has one candidate.
LEMMA OneCandidate ==
  ASSUME NEW n \in Nat, NEW C \in SUBSET Nat, NEW uid \in 0..n,
         uid + 1 \in C, \A u \in C : uid < u
  PROVE  (CHOOSE x \in 0..n : x + 1 \in C /\ \A u \in C : x < u) = uid
<1> DEFINE P(x) == x + 1 \in C /\ \A u \in C : x < u
<1>1. P(uid)
  OBVIOUS
<1>2. ASSUME NEW x \in 0..n, P(x) PROVE x = uid
  <2>1. uid < x + 1 /\ x < uid + 1
    BY <1>1, <1>2
  <2> QED
    BY <2>1
<1> HIDE DEF P
<1>3. (CHOOSE x \in 0..n : P(x)) = uid
  BY <1>1, <1>2
<1> QED
  BY <1>3 DEF P

\* SeenUid is the incarnation that LastShown speaks of.
LEMMA SeenUidIs == ASSUME NEW uid PROVE TypeOK /\ LastShown(uid) => SeenUid = uid
<1> SUFFICES ASSUME TypeOK, LastShown(uid) PROVE SeenUid = uid
  OBVIOUS
<1>1. lives \in Nat /\ uid \in 0..lives
  BY DEF TypeOK, LastShown
<1>2. CASE Exists(cache)
  BY <1>2 DEF SeenUid, LastShown
<1>3. CASE ~Exists(cache)
  <2>1. uid + 1 \in Coming /\ \A u \in Coming : uid < u
    <3>1. uid + 1 \in uid + 1 .. lives + 1
      BY <1>1
    <3> QED
      BY <1>3, <3>1 DEF LastShown
  <2> QED
    BY <1>1, <1>3, <2>1, ComingType, OneCandidate, Parts DEF SeenUid
<1> QED
  BY <1>2, <1>3

\* So it is after a step.
LEMMA SeenUidNext == ASSUME NEW uid PROVE TypeOK' /\ LastShown(uid)' => SeenUid' = uid
<1> DEFINE Is == TypeOK /\ LastShown(uid) => SeenUid = uid
<1>1. Is
  BY SeenUidIs
<1> HIDE DEF Is
<1>2. Is'
  BY <1>1, PTL
<1> QED
  BY <1>2 DEF Is

\* Nothing is there to begin with, and nothing is shown.
LEMMA InitBacklog == Init => Backlog /\ SeenInstance = [uid |-> 0, state |-> "absent"]
<1> SUFFICES ASSUME Init PROVE Backlog /\ SeenInstance = [uid |-> 0, state |-> "absent"]
  OBVIOUS
<1>1. Backlog /\ LastShown(0) /\ cache = NoObject /\ ~Exists(NoObject)
  BY BacklogToBegin DEF Init, Exists, NoObject
<1>2. TypeOK
  BY InitIInv DEF IInv
<1>3. SeenUid = 0
  BY <1>1, <1>2, SeenUidIs
<1> QED
  BY <1>1, <1>3 DEF SeenInstance, SeenState

\* The invariant of what the informer is yet to show.
THEOREM BacklogInvariant == Spec => [](IInv /\ Backlog)
<1>1. Init => IInv /\ Backlog
  BY InitIInv, InitBacklog
<1>2. IInv /\ Backlog /\ [Next]_vars => (IInv /\ Backlog)'
  BY Parts, KindsOfSteps, BacklogKept, NextIInv
<1> QED
  BY <1>1, <1>2, PTL DEF Spec

\* A step onward is one InstanceLife allows.
LEMMA OnwardIsLife ==
  ASSUME NEW uid \in Nat, NEW seen \in 0..MaxLives, Onward(uid, seen),
         SeenUid = uid, SeenUid' = seen
  PROVE  [Seen!Next]_SeenInstance
<1> DEFINE s == SeenState(cache)
           t == SeenState(cache')
<1>1. s \in Seen!States /\ t \in Seen!States
  BY DEF SeenState, Seen!States
<1>2. /\ ~Exists(cache') => t = "absent"
      /\ Exists(cache) => s # "absent"
      /\ ~Exists(cache) => s = "absent"
      /\ Exists(cache) => (s = "deleting" <=> cache.deleting)
      /\ Exists(cache') => (t = "deleting" <=> cache'.deleting)
  BY DEF SeenState, isDelete
<1>3. SeenInstance = [uid |-> uid, state |-> s] /\ SeenInstance' = [uid |-> seen, state |-> t]
  BY DEF SeenInstance
<1> HIDE DEF s, t
<1>4. CASE uid < seen
  <2>1. seen \in uid + 1 .. MaxLives
    BY <1>4, ConstantsAssumption
  <2>2. Seen!Created
    BY <1>1, <1>3, <2>1 DEF Seen!Created
  <2> QED
    BY <2>2 DEF Seen!Next
<1>5. CASE uid = seen /\ s = t
  BY <1>3, <1>5
<1>6. CASE uid = seen /\ s # t
  <2>1. s # "absent" /\ (s = "deleting" => t = "absent")
    BY <1>2, <1>6 DEF Onward
  <2>2. SeenInstance' = [SeenInstance EXCEPT !.state = t]
    BY <1>3, <1>6
  <2>3. SeenInstance.state = s
    BY <1>3
  <2>4. CASE s = "deleting"
    BY <2>1, <2>2, <2>3, <2>4 DEF Seen!Gone, Seen!Next
  <2>5. CASE s # "deleting"
    BY <1>1, <1>6, <2>1, <2>2, <2>3, <2>5 DEF Seen!Changed, Seen!Next
  <2> QED
    BY <2>4, <2>5
<1> QED
  BY <1>4, <1>5, <1>6 DEF Onward

\* ServiceInstanceController shows a binding that reads the informer's cache what
\* InstanceLife says: each incarnation of the instance after the one before it,
\* and one that is being deleted until it is gone.
THEOREM SeenAsAssumed == Spec => ImplementsInstanceLife
<1>1. Init => Seen!Init
  BY InitBacklog DEF Seen!Init
<1>2. IInv /\ Backlog /\ [Next]_vars /\ (IInv /\ Backlog)' => [Seen!Next]_SeenInstance
  <2> SUFFICES ASSUME IInv, Backlog, [Next]_vars, IInv', Backlog'
               PROVE  [Seen!Next]_SeenInstance
    OBVIOUS
  <2>1. PICK uid \in Nat : LastShown(uid)
    BY DEF Backlog, IInv, TypeOK
  <2>2. GoesOn(uid)
    BY <2>1, Parts, KindsOfSteps, StepGoesOn
  <2>3. PICK v \in Nat : LastShown(v)' /\ Onward(uid, v)
    BY <2>2 DEF GoesOn
  <2>4. SeenUid = uid /\ SeenUid' = v
    BY <2>1, <2>3, SeenUidIs, SeenUidNext DEF IInv
  <2>5. v \in 0..MaxLives
    BY <2>3, ConstantsAssumption DEF LastShown, Backlog, IInv, TypeOK
  <2> QED
    BY <2>3, <2>4, <2>5, OnwardIsLife
<1> QED
  BY <1>1, <1>2, BacklogInvariant, PTL
     DEF Spec, ImplementsInstanceLife, Seen!Spec
=============================================================================
