---------------------- MODULE ServiceInstanceController ----------------------
(***************************************************************************)
(* The ServiceInstance controller (controllers/serviceinstance_controller) *)
(* reconciling one ServiceInstance resource against the Service Manager    *)
(* (SM).  Its state is that of BaseReconciler.                             *)
(***************************************************************************)
EXTENDS BaseReconciler

vars == baseVars

------------------------------------------------------------------------------
(* Steps of Reconcile that call nobody: what the worker does next with o *)

\* After init: a spec already observed is ignored unless Ready is False alone.
ObserveSpec(o, fresh) ==
  IF o.gen = o.status.obs /\ ~isInProgress(o) THEN Idle
  ELSE At(IF o.status.id = NoId THEN "recover" ELSE "update", observe(o), fresh)

\* The first call of deleteInstance: without an id SM is asked for one.
DeleteCall_noRecovery(o) == IF o.status.id = NoId THEN "removeFinalizer" ELSE "deprovision"
DeleteCall(o) == IF o.status.id = NoId THEN "recoverForDelete" ELSE "deprovision"

NeedsInit_onceOnly(o) == ~o.finalizer /\ o.status.cond = NoConditions
NeedsInit(o) == ~o.finalizer

\* Reconcile once it has an SM client.
Dispatch(o, fresh) ==
  IF Polling(o) THEN At("poll", o, fresh)
  ELSE IF isDelete(o) THEN
    IF o.finalizer THEN At(DeleteCall(o), o, fresh) ELSE Idle
  ELSE IF NeedsInit(o) THEN At("addFinalizer", o, fresh)
  ELSE ObserveSpec(o, fresh)

\* What follows a status update, by its place in the code.
Continue(o, fresh, next) ==
  CASE next = "init" -> ObserveSpec(o, fresh)
    [] next = "finalize" -> At("removeFinalizer", o, fresh)
    [] next = "noClient" -> NoClient(o, fresh)
    [] OTHER -> Idle

Reconcile == ReconcileWith(Dispatch)
StatusUpdate == StatusUpdateThen(Continue)
StatusRetry == StatusRetryThen(Continue)

------------------------------------------------------------------------------
(* The worker: requests to SM *)

Poll ==
  /\ w.pc = "poll"
  /\ LET op == w.obj.status.op
         state == sm[op.id].ops[op.n].state
         failed == setFailureConditions(op.type, w.obj)
         succeeded == setSuccessConditions(op.type, w.obj)
     IN \/ /\ "poll" \in SMFaults
           /\ Save([w.obj EXCEPT !.status = freshStatus(w.obj, failed.status.cond)], "requeue")
        \/ state = "IN_PROGRESS" /\ Requeue
        \/ state = "FAILED"
           /\ Save(ClearOp(failed), IF op.type = "DELETE" THEN "requeue" ELSE "done")
        \/ state = "SUCCEEDED" /\ op.type # "DELETE" /\ Save(ClearOp(succeeded), "done")
        \/ state = "SUCCEEDED" /\ op.type = "DELETE"
           /\ w' = [At("removeFinalizer", succeeded, w.fresh) EXCEPT !.next = "clearOp"]
           /\ UNCHANGED queued
  /\ UNCHANGED <<apiObj, cache, watch, sm, lives>>

\* SM does not say which generation it has, except that there was only one.
ResyncedGeneration_current(o) == o.gen
ResyncedGeneration(o) == IF o.gen = 1 THEN 1 ELSE 0

resyncInstanceStatus(o, i) ==
  LET type == Last(i).type
      found == [o EXCEPT !.status.id = i, !.status.op = NoOp,
                         !.status.obs = ResyncedGeneration(o)]
  IN CASE Last(i).state = "IN_PROGRESS" -> InOperation(type, i, Len(sm[i].ops), found)
       [] Last(i).state = "SUCCEEDED" -> setSuccessConditions(type, found)
       [] Last(i).state = "FAILED" -> setFailureConditions(type, found)

\* getInstanceForRecovery, called by Reconcile before it creates an instance.
Recover ==
  /\ w.pc = "recover"
  /\ \/ "list" \in SMFaults /\ Save(setFailureConditions("CREATE", w.obj), "requeue")
     \/ \E i \in Matches(w.obj.name) : Save(resyncInstanceStatus(w.obj, i), "done")
     \/ Matches(w.obj.name) = {} /\ Goto("provision", w.obj)
  /\ UNCHANGED <<apiObj, cache, watch, sm, lives>>

\* A request may be executed although a gateway answers 504 for SM, which is tried
\* again, or the reply is lost, which is final.
createInstance ==
  /\ w.pc = "provision"
  /\ \/ \E i \in FreeIDs :
          /\ SMCreate(i, RequestOf(w.obj), "SUCCEEDED")
          /\ Save(setSuccessConditions("CREATE", [w.obj EXCEPT !.status.id = i]), "done")
     \/ \E i \in FreeIDs :
          /\ SMCreate(i, RequestOf(w.obj), "IN_PROGRESS")
          /\ Save(InOperation("CREATE", i, 1, w.obj), "requeue")
     \/ ("transient" \in SMFaults \/ FreeIDs = {}) /\ Transient("CREATE") /\ UNCHANGED sm
     \/ "refused" \in SMFaults /\ NonTransient("CREATE") /\ UNCHANGED sm
     \/ /\ "lost" \in SMFaults
        /\ \E i \in FreeIDs, state \in {"SUCCEEDED", "IN_PROGRESS"} :
             SMCreate(i, RequestOf(w.obj), state)
        /\ Unanswered("CREATE")
  /\ UNCHANGED <<apiObj, cache, watch, lives>>

updateInstance ==
  /\ w.pc = "update"
  /\ LET i == w.obj.status.id
         accepts == sm[i].alive /\ ~Busy(i) /\ Len(sm[i].ops) < MaxOps
     IN \/ /\ SMPatch(i, RequestOf(w.obj), "SUCCEEDED")
           /\ Save(setSuccessConditions("UPDATE", w.obj), "done")
        \/ /\ SMPatch(i, RequestOf(w.obj), "IN_PROGRESS")
           /\ Save(InOperation("UPDATE", i, Len(sm[i].ops) + 1, w.obj), "requeue")
        \/ "transient" \in SMFaults /\ Transient("UPDATE") /\ UNCHANGED sm
        \/ ("refused" \in SMFaults \/ ~accepts) /\ NonTransient("UPDATE") /\ UNCHANGED sm
        \/ /\ "lost" \in SMFaults
           /\ \E state \in {"SUCCEEDED", "IN_PROGRESS"} : SMPatch(i, RequestOf(w.obj), state)
           /\ Unanswered("UPDATE")
  /\ UNCHANGED <<apiObj, cache, watch, lives>>

\* deleteInstance when the status names no instance.
RecoverForDelete ==
  /\ w.pc = "recoverForDelete"
  /\ \/ "list" \in SMFaults /\ Requeue
     \/ \E i \in Matches(w.obj.name) :
          Save(setInProgressCondition("DELETE", [w.obj EXCEPT !.status.id = i]), "done")
     \/ Matches(w.obj.name) = {} /\ Goto("removeFinalizer", w.obj)
  /\ UNCHANGED <<apiObj, cache, watch, sm, lives>>

\* deleteInstance when it does.  SM's 404 and 410 count as a deletion.
Deprovision ==
  /\ w.pc = "deprovision"
  /\ LET i == w.obj.status.id
     IN \/ /\ SMDeleteNow(i)
           /\ Save(setSuccessConditions("DELETE", [w.obj EXCEPT !.status.id = NoId]), "finalize")
        \/ /\ SMDeleteAsync(i)
           /\ Save(InOperation("DELETE", i, Len(sm[i].ops) + 1, w.obj), "requeue")
        \/ "transient" \in SMFaults /\ Transient("DELETE") /\ UNCHANGED sm
        \/ /\ "refused" \in SMFaults /\ UNCHANGED sm
           /\ Save(setFailureConditions("DELETE", w.obj), "requeue")
        \/ /\ "lost" \in SMFaults /\ (SMDeleteNow(i) \/ SMDeleteAsync(i))
           /\ UnansweredDelete
  /\ UNCHANGED <<apiObj, cache, watch, lives>>

------------------------------------------------------------------------------

Init ==
  /\ apiObj = NoObject /\ cache = NoObject /\ watch = <<>>
  /\ queued = FALSE
  /\ w = Idle
  /\ sm = [i \in IDs |-> Unused]
  /\ lives = 0

User ==
  \/ UserDelete
  \/ \E name \in Names \cup {NoName} :
       UserCreate(Default(name), NoName) \/ UserEdit(Default(name), NoName)

Worker == \/ Reconcile \/ StatusUpdate \/ StatusRetry
          \/ AddFinalizer \/ RemoveFinalizer
          \/ Poll \/ Recover \/ createInstance \/ updateInstance
          \/ RecoverForDelete \/ Deprovision

ServiceManager == \E i \in IDs : SMComplete(i)

Next == User \/ Deliver \/ Resync \/ Restart \/ Worker \/ ServiceManager

Spec == Init /\ [][Next]_vars

\* No Reconcile begins with a copy from before init once the resource has been through
\* it.  (The retry of addFinalizer would take up the resource as it is now and init
\* would go on to mark what was created long ago as being created.)
Prompt == \/ User \/ Deliver \/ Resync \/ Restart \/ ServiceManager
          \/ Worker /\ (Reconcile => FinalizerSeen)

PromptSpec == Init /\ [][Prompt]_vars

\* From some point on the process keeps running, nothing is resynced (so that
\* progress is the controller's own), and a key waits in the workqueue, behind
\* its timer or its growing back-off, until the informer has caught up.
Steady == \/ User \/ Deliver \/ ServiceManager
          \/ Worker /\ (Reconcile => watch = <<>>)

\* The workqueue hands out its keys, the informer applies what it got, SM ends
\* every operation.
Fairness == /\ WF_vars(Worker) /\ WF_vars(Deliver)
            /\ \A i \in IDs : WF_vars(SMComplete(i))
            /\ <>[][Steady]_vars

FairSpec == Spec /\ Fairness

------------------------------------------------------------------------------
(* Safety *)

PCs == {"idle", "status", "addFinalizer", "removeFinalizer", "poll", "recover",
        "provision", "update", "recoverForDelete", "deprovision"}
Workers == [pc: PCs, obj: Objects, fresh: BOOLEAN, try: 0..3, next: Nexts]

\* Every variable has the type its comment says.
TypeOK ==
  /\ apiObj \in Objects /\ cache \in Objects /\ watch \in Seq(Objects)
  /\ queued \in BOOLEAN
  /\ w \in Workers
  /\ sm \in [IDs -> Things]
  /\ lives \in Nat

\* The finalizer does its job: as long as SM has an instance the controller
\* created, the resource exists and the finalizer keeps it.
FinalizerGuardsInstance == Live # {} => Exists(apiObj) /\ apiObj.finalizer

\* The controller never has two instances for one resource: createInstance runs
\* only after recovery found none.
AtMostOneInstance == Cardinality(Live) <= 1

\* The instance named in the status was created for this incarnation of the
\* resource, not for a deleted one of the same name.
StatusNamesOwnInstance ==
  apiObj.status.id # NoId => sm[apiObj.status.id].ops[1].spec.uid = apiObj.uid

\* A resource that says it was created or updated at its current generation
\* has an instance in SM with the spec of that generation.
ReadyMeansSynced ==
  LET st == apiObj.status
  IN ~apiObj.deleting /\ st.cond.reason \in {"Created", "Updated"} /\ st.obs = apiObj.gen
     => st.id # NoId /\ (sm[st.id].alive => sm[st.id].spec = RequestOf(apiObj))

Settled(o) ==
  /\ ~(o.deleting /\ o.finalizer)
  /\ ~Polling(o) /\ ~isInProgress(o)
  /\ o.status.obs = o.gen

\* Nothing is left undone when nothing is going to run.
NoLostWakeup == Quiescent /\ Exists(apiObj) => Settled(apiObj)

\* The id of an instance SM has ends up in the status.
InstanceIDFilled ==
  Quiescent /\ Exists(apiObj) /\ ~apiObj.deleting /\ Live # {} => apiObj.status.id \in Live

\* A resource comes to rest as failed only if SM refused something or failed.
Refusals == {"refused", "lost", "operation"}
FailedIsFinal ==
  Quiescent /\ Exists(apiObj) /\ SMFaults \cap Refusals = {} => ~apiObj.status.cond.failed

\* init has done its job before anything is created: whenever the controller is
\* about to create or change an instance, the finalizer is on the resource.
FinalizerBeforeProvision ==
  w.pc \in {"recover", "provision", "update"} => Exists(apiObj) /\ apiObj.finalizer

\* The controller deletes an instance only on behalf of an incarnation of the
\* resource that the user deleted, whatever copy of it the controller holds.
DeleteOnlyWhenAsked ==
  [][w.pc = "deprovision" /\ sm' # sm
       => ~Exists(apiObj) \/ apiObj.uid # w.obj.uid \/ apiObj.deleting]_vars

------------------------------------------------------------------------------
(* The inductive invariant *)

\* The worker calls SM only when its copy says so.
CallsAreMeant ==
  /\ w.pc = "poll" => Polling(w.obj)
  /\ w.pc = "deprovision" => w.obj.deleting
  /\ w.pc \in {"update", "deprovision"} => w.obj.status.id # NoId

IInv == TypeOK /\ CacheFollows /\ DeletionIsFinal /\ CallsAreMeant /\ LiveIsRecorded

\* What the copies say is true, and SM is asked for an id only to delete it.
TInv == IInv /\ Truthful /\ Held /\ (w.pc = "recoverForDelete" => w.obj.deleting)

\* There is one name: the instance that recovery did not find does not exist.
Single == (w.pc = "provision" => Live = {}) /\ \A i, j \in Live : i = j

\* The calls before an instance is created or changed, and after it is gone.
Creates == {"recover", "provision", "update"}
Removes == {"removeFinalizer"}

GInv == TInv /\ Single /\ OneLife(Creates, Removes) /\ Backlog

------------------------------------------------------------------------------
(* Refinement *)

\* What serviceNotUsable and isInProgress see in o.
SeenState(o) ==
  IF ~Exists(o) THEN "absent"
  ELSE IF isDelete(o) THEN "deleting"
  ELSE IF o.status.cond = NoConditions THEN "new"
  ELSE IF o.status.cond.reason = "CreateFailed" THEN "createFailed"
  ELSE IF isInProgress(o) THEN "inProgress" ELSE "ready"

\* The incarnation in the cache, or the last one that was there or went unseen.
SeenUid ==
  IF Exists(cache) THEN cache.uid
  ELSE CHOOSE uid \in 0..lives : uid + 1 \in Coming /\ \A u \in Coming : uid < u

SeenInstance == [uid |-> SeenUid, state |-> SeenState(cache)]

Seen == INSTANCE InstanceLife WITH inst <- SeenInstance, MaxInstances <- MaxLives

\* A binding that reads the cache sees of its instance what InstanceLife says.
ImplementsInstanceLife == Seen!Spec

------------------------------------------------------------------------------
(* Liveness *)

\* A deleted resource goes away.
DeletionCompletes == apiObj.deleting ~> ~Exists(apiObj)

\* The user's last word is acted upon, and the controller comes to rest.
EventuallySettled == <>[](Exists(apiObj) => Settled(apiObj))
=============================================================================
