---------------------- MODULE ServiceBindingController ----------------------
(***************************************************************************)
(* The ServiceBinding controller (controllers/servicebinding_controller)   *)
(* reconciling one ServiceBinding resource against the Service Manager     *)
(* (SM), with the webhook that validates its edits.  To the state of       *)
(* BaseReconciler it adds the service instance the binding refers to, the  *)
(* secrets of the namespace, and what the worker got from both and from SM *)
(* in the course of a Reconcile.                                           *)
(*                                                                         *)
(* The instance has always the same name, so only whether a resource of    *)
(* that name exists and in which state counts; everything that happens to  *)
(* it is somebody else's doing.  Reads of secrets come from a cache of     *)
(* their own, which lags behind too.                                       *)
(***************************************************************************)
EXTENDS BaseReconciler

CONSTANTS
  MaxInstances,  \* bound: incarnations of the service instance
  Intruders      \* may somebody else create secrets in the namespace

ASSUME BindingAssumption ==
  K8sName \in SecretNames /\ MaxInstances \in Nat /\ Intruders \in BOOLEAN

VARIABLES
  inst,         \* the service instance, as the informer shows it
  secrets,      \* the secrets of the namespace, by name
  secretCache,  \* the informer's copy of them
  found         \* what the worker read: the owner to be, the binding of SM

Life == INSTANCE InstanceLife

ownVars == <<inst, secrets, secretCache, found>>
vars == <<baseVars, ownVars>>

------------------------------------------------------------------------------
(* Instance, secrets, and what the worker found *)

\* label: whose name the label "binding" of a secret carries; cred: the binding
\* of SM whose credentials it holds; owner: uid of the resource that owns it.
NoSecret == [label |-> "none", cred |-> NoId, owner |-> 0]
ForeignSecret == [NoSecret EXCEPT !.label = "other"]
BindingSecret(o, id) == [label |-> "this", cred |-> id, owner |-> o.uid]

\* owner: uid of the instance read; named: whether its status has an id; id: the
\* binding got from SM; op and state: its last operation when it was listed, NoOp
\* for one just created or fetched.
Nothing == [owner |-> 0, named |-> FALSE, id |-> NoId, op |-> NoOp, state |-> "none"]

------------------------------------------------------------------------------
(* Steps of Reconcile that call nobody: what the worker does next with o *)

\* A binding is never updated: once observed, it is done unless in progress.
Proceed_once(o, fresh) ==
  IF o.status.obs > 0 THEN Idle
  ELSE At("instance", observe(o), fresh)
Proceed(o, fresh) ==
  IF o.status.obs > 0 /\ ~isInProgress(o) THEN Idle
  ELSE At("instance", observe(o), fresh)

DeleteCall_noRecovery(o) == IF o.status.id = NoId THEN "deleteSecret" ELSE "unbind"
DeleteCall(o) == IF o.status.id = NoId THEN "recoverForDelete" ELSE "unbind"

\* Reconcile once it has an SM client.
Dispatch(o, fresh) ==
  IF Polling(o) THEN At("poll", o, fresh)
  ELSE IF isDelete(o) THEN
    IF o.finalizer THEN At(DeleteCall(o), o, fresh) ELSE Idle
  ELSE IF ~o.finalizer THEN At("addFinalizer", o, fresh)
  ELSE Proceed(o, fresh)

\* What follows a status update, by its place in the code.
Continue(o, fresh, next) ==
  CASE next = "init" -> Proceed(o, fresh)
    [] next = "finalize" -> At("deleteSecret", o, fresh)
    [] next = "noClient" -> NoClient(o, fresh)
    [] OTHER -> Idle

Reconcile == ReconcileWith(Dispatch) /\ UNCHANGED ownVars
StatusUpdate == StatusUpdateThen(Continue) /\ UNCHANGED ownVars
StatusRetry == StatusRetryThen(Continue) /\ UNCHANGED ownVars
InitFinalizer == AddFinalizer /\ UNCHANGED ownVars
DropFinalizer == RemoveFinalizer /\ UNCHANGED ownVars

\* A Reconcile that returns forgets what it found.
Return(step) == step /\ found' = Nothing

------------------------------------------------------------------------------
(* The worker: before a binding is created *)

\* bindingAlreadyOwnedByInstance compares names, and there is one name only.
Owned_byDefault(o) == TRUE
Owned(o) == o.owner # 0

\* getServiceInstanceForBinding, serviceNotUsable and isInProgress of the instance,
\* validateSecretNameIsAvailable.  Without conditions in the instance's status
\* the index expression of serviceNotUsable panics, and the process ends.
ReadInstance ==
  /\ w.pc = "instance"
  /\ \/ /\ inst.state \in {"absent", "deleting", "createFailed"}
        /\ Save(setBlockedCondition(w.obj), "requeue")
        /\ UNCHANGED <<apiObj, cache, watch, lives, sm, ownVars>>
     \/ /\ inst.state = "inProgress"
        /\ Save(setInProgressCondition("CREATE", w.obj), "requeue")
        /\ UNCHANGED <<apiObj, cache, watch, lives, sm, ownVars>>
     \/ /\ inst.state = "ready" /\ w.obj.status.id # NoId
        /\ w' = Idle       \* "this line should not be reached"
        /\ UNCHANGED <<apiObj, cache, watch, queued, lives, sm, ownVars>>
     \/ /\ inst.state = "ready" /\ w.obj.status.id = NoId
        /\ IF secretCache[w.obj.secretName].label = "other"
           THEN Save(setBlockedCondition(w.obj), "done") /\ UNCHANGED found
           ELSE /\ Goto("recover", w.obj)
                /\ \E named \in BOOLEAN :
                     found' = [Nothing EXCEPT !.owner = inst.uid, !.named = named]
        /\ UNCHANGED <<apiObj, cache, watch, lives, sm, inst, secrets, secretCache>>
     \/ /\ inst.state = "new"
        /\ Restart
        /\ found' = Nothing /\ secretCache' = secrets
        /\ UNCHANGED <<inst, secrets>>

resyncBindingStatus(o, f) ==
  LET r == [o EXCEPT !.status.obs = o.gen, !.status.id = f.id, !.status.op = NoOp]
  IN CASE f.state = "IN_PROGRESS" -> InOperation(f.op.type, f.id, f.op.n, r)
       [] f.state = "SUCCEEDED" -> setSuccessConditions(f.op.type, r)
       [] f.state = "FAILED" -> setFailureConditions(f.op.type, r)

\* After SetOwner: a new binding is created; one that was found gives its
\* credentials unless it is still being created or could not be.
AfterOwner_swapped(o, fresh, f) ==
  IF f.id = NoId THEN At("bind", o, fresh)
  ELSE IF f.op.type # "CREATE" /\ f.state = "SUCCEEDED" THEN At("store", o, fresh)
  ELSE Saving(resyncBindingStatus(o, f), fresh, "done")
AfterOwner(o, fresh, f) ==
  IF f.id = NoId THEN At("bind", o, fresh)
  ELSE IF f.op.type # "CREATE" \/ f.state = "SUCCEEDED" THEN At("store", o, fresh)
  ELSE Saving(resyncBindingStatus(o, f), fresh, "done")

\* getBindingForRecovery finds a binding when the listing has exactly one.  Here
\* an error is logged and then ignored.
Recovered(i) ==
  [found EXCEPT !.id = i, !.state = Last(i).state,
                !.op = [type |-> Last(i).type, id |-> i, n |-> Len(sm[i].ops)]]

Recover ==
  /\ w.pc = "recover"
  /\ \/ \E i \in IDs : Matches(w.obj.name) = {i} /\ found' = Recovered(i)
     \/ ("list" \in SMFaults \/ Cardinality(Matches(w.obj.name)) # 1) /\ UNCHANGED found
  /\ w' = IF Owned(w.obj) THEN AfterOwner(w.obj, w.fresh, found')
          ELSE At("own", w.obj, w.fresh)
  /\ UNCHANGED <<apiObj, cache, watch, queued, lives, sm, inst, secrets, secretCache>>

\* A successful update gives back what the API server has: the status too, in
\* which only an observedGeneration of 0 is absent and leaves the worker's alone.
Returned(o) ==
  IF o.status.obs = 0 THEN [o EXCEPT !.status.obs = w.obj.status.obs] ELSE o

SetOwner ==
  /\ w.pc = "own"
  /\ \/ /\ w.fresh
        /\ Write([apiObj EXCEPT !.owner = found.owner])
        /\ w' = AfterOwner(Returned(apiObj'), TRUE, found)
        /\ UNCHANGED <<queued, found>>
     \/ /\ ~w.fresh \/ ApiFaults
        /\ Return(IF found.id = NoId
                  THEN Save(setFailureConditions("CREATE", w.obj), "requeue")
                  ELSE Requeue)
        /\ UNCHANGED <<apiObj, watch>>
  /\ UNCHANGED <<cache, lives, sm, inst, secrets, secretCache>>

------------------------------------------------------------------------------
(* The worker: creating a binding, storing its credentials *)

\* createBinding.  A reply is also lost when no id can be read from its URL.  SM
\* refuses a binding that names no instance.
Bind ==
  /\ w.pc = "bind"
  /\ \/ \E i \in FreeIDs :
          /\ found.named /\ SMCreate(i, RequestOf(w.obj), "SUCCEEDED")
          /\ Goto("store", w.obj)
          /\ found' = [found EXCEPT !.id = i]
     \/ \E i \in FreeIDs :
          /\ found.named /\ SMCreate(i, RequestOf(w.obj), "IN_PROGRESS")
          /\ Return(Save(InOperation("CREATE", i, 1, w.obj), "requeue"))
     \/ /\ "transient" \in SMFaults \/ FreeIDs = {}
        /\ Return(Transient("CREATE")) /\ UNCHANGED sm
     \/ /\ "refused" \in SMFaults \/ ~found.named
        /\ Return(NonTransient("CREATE")) /\ UNCHANGED sm
     \/ /\ "lost" \in SMFaults /\ found.named
        /\ \E i \in FreeIDs, state \in {"SUCCEEDED", "IN_PROGRESS"} :
             SMCreate(i, RequestOf(w.obj), state)
        /\ Return(Unanswered("CREATE"))
  /\ UNCHANGED <<apiObj, cache, watch, lives, inst, secrets, secretCache>>

\* The end of the three ways to storeBindingSecret: from poll, with a binding
\* found by recovery, with one just created.
AfterStore ==
  \/ Polling(w.obj) /\ Save(ClearOp(w.obj), "done")
  \/ ~Polling(w.obj) /\ found.op # NoOp /\ Save(resyncBindingStatus(w.obj, found), "done")
  \/ /\ ~Polling(w.obj) /\ found.op = NoOp
     /\ Save(setSuccessConditions("CREATE", [w.obj EXCEPT !.status.id = found.id]), "done")

NotStored ==
  \/ Polling(w.obj) /\ Requeue
  \/ /\ ~Polling(w.obj)
     /\ LET type == IF found.op # NoOp THEN found.op.type ELSE "CREATE"
        IN Save(setFailureConditions(type, w.obj), "requeue")

\* A secret that exists already is taken for the one to be stored.
storeBindingSecret ==
  /\ w.pc = "store"
  /\ \/ /\ secrets' = IF secrets[w.obj.secretName] # NoSecret THEN secrets
                      ELSE [secrets EXCEPT ![w.obj.secretName] = BindingSecret(w.obj, found.id)]
        /\ Return(AfterStore)
     \/ ApiFaults /\ Return(NotStored) /\ UNCHANGED secrets
  /\ UNCHANGED <<apiObj, cache, watch, lives, sm, inst, secretCache>>

------------------------------------------------------------------------------
(* The worker: polling, deleting *)

\* removeBindingFromKubernetes: status, secret and finalizer, in this order.
removeBindingFromKubernetes(o) ==
  Save(setSuccessConditions("DELETE", [o EXCEPT !.status.id = NoId]), "finalize")

Poll ==
  /\ w.pc = "poll"
  /\ LET op == w.obj.status.op
         state == sm[op.id].ops[op.n].state
         failed == setFailureConditions(op.type, w.obj)
         succeeded == setSuccessConditions(op.type, w.obj)
     IN \/ /\ "poll" \in SMFaults
           /\ Save([w.obj EXCEPT !.status = freshStatus(w.obj, failed.status.cond)], "requeue")
        \/ state = "IN_PROGRESS" /\ Requeue
        \/ state = "FAILED"
           /\ Save(ClearOp(failed), IF op.type = "DELETE" THEN "requeue" ELSE "done")
        \/ state = "SUCCEEDED" /\ op.type = "CREATE" /\ Goto("fetch", succeeded)
        \/ state = "SUCCEEDED" /\ op.type = "DELETE" /\ removeBindingFromKubernetes(w.obj)
  /\ UNCHANGED <<apiObj, cache, watch, lives, sm, ownVars>>

\* poll reads the credentials of the binding whose creation succeeded.
GetBindingByID ==
  /\ w.pc = "fetch"
  /\ LET id == w.obj.status.id
     IN \/ /\ id \in Live
           /\ Goto("store", w.obj)
           /\ found' = [Nothing EXCEPT !.id = id]
        \/ /\ "poll" \in SMFaults \/ id \notin Live
           /\ Requeue /\ UNCHANGED found
  /\ UNCHANGED <<apiObj, cache, watch, lives, sm, inst, secrets, secretCache>>

\* delete when the status names no binding.
RecoverForDelete ==
  /\ w.pc = "recoverForDelete"
  /\ \/ "list" \in SMFaults /\ Requeue
     \/ \E i \in IDs :
          /\ Matches(w.obj.name) = {i}
          /\ Save(setInProgressCondition("DELETE", [w.obj EXCEPT !.status.id = i]), "done")
     \/ Cardinality(Matches(w.obj.name)) # 1 /\ Goto("deleteSecret", w.obj)
  /\ UNCHANGED <<apiObj, cache, watch, lives, sm, ownVars>>

\* delete when it does.  SM's 404 and 410 count as a deletion.
Unbind ==
  /\ w.pc = "unbind"
  /\ LET i == w.obj.status.id
     IN \/ SMDeleteNow(i) /\ removeBindingFromKubernetes(w.obj)
        \/ /\ SMDeleteAsync(i)
           /\ Save(InOperation("DELETE", i, Len(sm[i].ops) + 1, w.obj), "requeue")
        \/ "transient" \in SMFaults /\ Transient("DELETE") /\ UNCHANGED sm
        \/ /\ "refused" \in SMFaults /\ UNCHANGED sm
           /\ Save(setFailureConditions("DELETE", w.obj), "requeue")
        \/ /\ "lost" \in SMFaults /\ (SMDeleteNow(i) \/ SMDeleteAsync(i))
           /\ UnansweredDelete
  /\ UNCHANGED <<apiObj, cache, watch, lives, ownVars>>

\* The secret is looked up in the cache and deleted by its name.
deleteBindingSecret ==
  /\ w.pc = "deleteSecret"
  /\ LET name == w.obj.secretName
     IN \/ secretCache[name] = NoSecret /\ Goto("removeFinalizer", w.obj) /\ UNCHANGED secrets
        \/ /\ secretCache[name] # NoSecret /\ secrets[name] # NoSecret
           /\ secrets' = [secrets EXCEPT ![name] = NoSecret]
           /\ Goto("removeFinalizer", w.obj)
        \/ /\ secretCache[name] # NoSecret /\ (secrets[name] = NoSecret \/ ApiFaults)
           /\ Requeue /\ UNCHANGED secrets
  /\ UNCHANGED <<apiObj, cache, watch, lives, sm, inst, secretCache, found>>

------------------------------------------------------------------------------
(* Everybody else *)

\* ValidateUpdate: of the spec of a binding that exists only the name of its secret
\* may change.
ValidateUpdate(name, secretName) ==
  apiObj.status.id # NoId => name = apiObj.name /\ secretName # apiObj.secretName

User ==
  /\ \/ UserDelete
     \/ \E n \in Names \cup {NoName}, s \in SecretNames \cup {NoName} :
          LET name == Default(n)
              secretName == Default(s)
          IN \/ UserCreate(name, secretName)
             \/ ValidateUpdate(name, secretName) /\ UserEdit(name, secretName)
  /\ UNCHANGED ownVars

\* The garbage collector deletes what an owner that is gone has left.
OwnerGone == apiObj.owner # 0 /\ (inst.state = "absent" \/ inst.uid # apiObj.owner)
CollectBinding == OwnerGone /\ UserDelete /\ UNCHANGED ownVars

CollectSecret(name) ==
  /\ secrets[name].owner \notin {0, apiObj.uid}
  /\ secrets' = [secrets EXCEPT ![name] = NoSecret]
  /\ UNCHANGED <<baseVars, inst, secretCache, found>>

Intrude(name) ==
  /\ Intruders /\ secrets[name] = NoSecret
  /\ secrets' = [secrets EXCEPT ![name] = ForeignSecret]
  /\ UNCHANGED <<baseVars, inst, secretCache, found>>

SyncSecrets ==
  /\ secretCache # secrets
  /\ secretCache' = secrets
  /\ UNCHANGED <<baseVars, inst, secrets, found>>

InstanceStep(A) == A /\ UNCHANGED <<baseVars, secrets, secretCache, found>>

Informer == (Deliver \/ Resync) /\ UNCHANGED ownVars

Stop ==
  /\ Restart
  /\ found' = Nothing /\ secretCache' = secrets
  /\ UNCHANGED <<inst, secrets>>

Finish(i) == SMComplete(i) /\ UNCHANGED ownVars

------------------------------------------------------------------------------

Init ==
  /\ apiObj = NoObject /\ cache = NoObject /\ watch = <<>>
  /\ queued = FALSE
  /\ w = Idle
  /\ sm = [i \in IDs |-> Unused]
  /\ lives = 0
  /\ Life!Init
  /\ secrets = [name \in SecretNames |-> NoSecret]
  /\ secretCache = secrets
  /\ found = Nothing

Worker == \/ Reconcile \/ StatusUpdate \/ StatusRetry \/ InitFinalizer \/ DropFinalizer
          \/ ReadInstance \/ Recover \/ SetOwner \/ Bind \/ storeBindingSecret
          \/ Poll \/ GetBindingByID \/ RecoverForDelete \/ Unbind \/ deleteBindingSecret

Secrets == SyncSecrets \/ \E name \in SecretNames : CollectSecret(name) \/ Intrude(name)
Instance ==
  InstanceStep(Life!Created) \/ InstanceStep(Life!Changed) \/ InstanceStep(Life!Gone)
ServiceManagerStep == \E i \in IDs : Finish(i)

Next == \/ User \/ CollectBinding \/ Secrets \/ Instance
        \/ Informer \/ Stop \/ Worker \/ ServiceManagerStep

Spec == Init /\ [][Next]_vars

\* As for an instance: no Reconcile begins with a copy from before init.
Prompt == \/ User \/ CollectBinding \/ Secrets \/ Instance
          \/ Informer \/ Stop \/ ServiceManagerStep
          \/ Worker /\ (Reconcile => FinalizerSeen)

PromptSpec == Init /\ [][Prompt]_vars

\* As for an instance: the process keeps running, nothing is resynced, and a key
\* waits in the workqueue until the informers have caught up.
Steady == \/ User \/ CollectBinding \/ Secrets \/ Instance \/ ServiceManagerStep
          \/ Deliver /\ UNCHANGED ownVars
          \/ Worker /\ (Reconcile => watch = <<>> /\ secretCache = secrets)

\* The garbage collector does its work too.
Fairness == /\ WF_vars(Worker) /\ WF_vars(Deliver /\ UNCHANGED ownVars)
            /\ WF_vars(SyncSecrets) /\ WF_vars(CollectBinding)
            /\ \A i \in IDs : WF_vars(Finish(i))

\* In the end everything is steady; or it is from the start.
FairSpec == Spec /\ Fairness /\ <>[][Steady]_vars
SteadySpec == Init /\ [][Steady]_vars /\ Fairness

------------------------------------------------------------------------------
(* Safety *)

PCs == {"idle", "status", "addFinalizer", "removeFinalizer", "instance", "recover", "own",
        "bind", "store", "poll", "fetch", "recoverForDelete", "unbind", "deleteSecret"}
Workers == [pc: PCs, obj: Objects, fresh: BOOLEAN, try: 0..3, next: Nexts]
SecretTypes == [label: {"none", "this", "other"}, cred: IDs \cup {NoId}, owner: Nat]
FoundTypes == [owner: Nat, named: BOOLEAN, id: IDs \cup {NoId}, op: OpRefs,
               state: OperationStates \cup {"none"}]

\* Every variable has the type its comment says.
TypeOK ==
  /\ apiObj \in Objects /\ cache \in Objects /\ watch \in Seq(Objects)
  /\ queued \in BOOLEAN
  /\ w \in Workers
  /\ sm \in [IDs -> Things]
  /\ lives \in Nat
  /\ inst \in Life!Instances
  /\ secrets \in [SecretNames -> SecretTypes] /\ secretCache \in [SecretNames -> SecretTypes]
  /\ found \in FoundTypes

\* As long as SM has a binding the controller created, the resource exists and
\* the finalizer keeps it.
FinalizerGuardsBinding == Live # {} => Exists(apiObj) /\ apiObj.finalizer

\* The controller never has two bindings for one resource.
AtMostOneBinding == Cardinality(Live) <= 1

\* SetOwner comes before Bind: while SM has a binding, the garbage collector knows
\* which instance the resource belongs to.
OwnedBeforeBound == Live # {} => apiObj.owner # 0

\* The end of Reconcile, where an existing binding would be updated, is not reached.
UpdateLineUnreached == ~(w.pc = "instance" /\ w.obj.status.id # NoId)

\* A binding that came to rest as created has its credentials in its secret.
SecretDelivered ==
  Quiescent /\ apiObj.status.cond.reason = "Created" /\ ~apiObj.deleting
    => secrets[apiObj.secretName].cred = apiObj.status.id

\* The controller unbinds only on behalf of an incarnation of the resource that
\* was deleted, whatever copy of it the controller holds.
UnbindOnlyWhenAsked ==
  [][w.pc = "unbind" /\ sm' # sm
       => ~Exists(apiObj) \/ apiObj.uid # w.obj.uid \/ apiObj.deleting]_vars

\* A binding comes to rest only when it is done, failed, or blocked by a secret.
Settled(o) ==
  /\ ~(o.deleting /\ o.finalizer)
  /\ ~Polling(o) /\ o.status.obs > 0
  /\ isInProgress(o) => o.status.cond.reason = "Blocked"

\* Nothing is left undone when nothing is going to run.
NoLostWakeup == Quiescent /\ Exists(apiObj) => Settled(apiObj)

------------------------------------------------------------------------------
(* The inductive invariant *)

\* The worker calls SM only when its copy says so, and asks for a binding only when
\* recovery found none; what recovery found it knows the last operation of.
CallsAreMeant ==
  /\ w.pc = "poll" => Polling(w.obj)
  /\ w.pc = "unbind" => w.obj.deleting /\ w.obj.status.id # NoId
  /\ w.pc \in {"recover", "own"} /\ found.id # NoId => found.op # NoOp
  /\ w.pc = "bind" => found.id = NoId

\* What the worker found is one of SM's bindings and an operation on it.
FoundIsTrue ==
  /\ Recorded(sm, found)
  /\ found.op # NoOp => found.op.id = found.id /\ found.state \in OperationStates

IInv == /\ TypeOK /\ CacheFollows /\ DeletionIsFinal /\ LiveIsRecorded
        /\ Truthful /\ Held /\ CallsAreMeant /\ FoundIsTrue

\* There is one name and every listing is answered: when recovery found no binding
\* there is none, nor when the owner has been set meanwhile.
Single ==
  /\ w.pc = "bind" \/ (w.pc = "own" /\ found.id = NoId) => Live = {}
  /\ \A i, j \in Live : i = j

\* The worker knows the instance before it sets the owner, which is set for good
\* before it creates the binding.
Owning ==
  /\ inst.state # "absent" => inst.uid # 0
  /\ w.pc \in {"recover", "own"} => found.owner # 0
  /\ \A o \in Copies : Owned(o) => Exists(o) /\ (~Exists(apiObj) \/ Owned(apiObj))
  /\ w.pc = "bind" => Owned(apiObj)
  /\ OwnedBeforeBound

\* The calls before a binding is created, and after it is gone.
Creates == {"instance", "recover", "own", "bind"}
Removes == {"deleteSecret", "removeFinalizer"}

\* What is true while there is one incarnation.
GInv == /\ IInv /\ Single /\ OneLife(Creates, Removes) /\ Backlog /\ Owning
        /\ (w.pc = "recoverForDelete" => w.obj.deleting)

------------------------------------------------------------------------------
(* Liveness *)

\* A deleted binding goes away, whatever happens to its instance and its secret.
DeletionCompletes == apiObj.deleting ~> ~Exists(apiObj)

\* Once its instance stays ready a binding is created or fails, or waits for a
\* secret of somebody else that has its name.
BlockedBySecret ==
  apiObj.status.cond.reason = "Blocked" /\ secrets[apiObj.secretName].label = "other"

ReadyInstanceIsBound ==
  <>[](inst.state = "ready" /\ Exists(apiObj) /\ ~apiObj.deleting)
    => <>(apiObj.status.cond.reason \in {"Created", "CreateFailed"} \/ BlockedBySecret)
=============================================================================
