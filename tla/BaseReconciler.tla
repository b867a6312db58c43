--------------------------- MODULE BaseReconciler ---------------------------
(***************************************************************************)
(* What the controllers share (controllers/base_controller.go), and the    *)
(* world every controller lives in: one custom resource at the API server, *)
(* the informer that follows it, the workqueue, the worker that runs       *)
(* Reconcile, the user, and the Service Manager.                           *)
(*                                                                         *)
(* One action of the worker is one call that leaves the process (a write   *)
(* to the API server or a request to SM); everything computed between two  *)
(* such calls belongs to the earlier one.  What a controller does after a  *)
(* shared call is a parameter of the action.  Reads of the resource come   *)
(* from the manager's informer cache, which lags behind the API server.    *)
(* The operator process may stop at any point and start again.             *)
(*                                                                         *)
(* The condition list of a resource is a record.  Every setter writes the  *)
(* Ready condition first and only setFailureConditions adds a second one,  *)
(* Failed with status True, so the list is empty, <<Ready>> or             *)
(* <<Ready, Failed>>, and Failed repeats the reason of Ready.              *)
(*                                                                         *)
(* Left out: the content of a spec (its generation stands for it, beside   *)
(* the names the controllers read), messages, time, and the labels of a    *)
(* request, which are the same for every incarnation of a resource of one  *)
(* namespace and name.                                                     *)
(***************************************************************************)
EXTENDS ServiceManager, FiniteSets

CONSTANTS
  K8sName,       \* the name of the resource
  SecretNames,   \* values of a binding's spec.secretName (none for an instance)
  MaxGen,        \* bound: generations of one incarnation of the resource
  MaxLives,      \* bound: incarnations of the resource (create, delete, create)
  MaxLag,        \* bound: versions the informer cache may be behind
  ApiFaults,     \* may a write to the API server fail other than by conflict
  ClientFaults   \* may the SM credentials secret be missing

ASSUME ConstantsAssumption ==
  /\ K8sName \in Names /\ NoName \notin SecretNames
  /\ MaxGen \in Nat /\ MaxLives \in Nat /\ MaxLag \in Nat
  /\ {ApiFaults, ClientFaults} \subseteq BOOLEAN

VARIABLES
  apiObj,   \* the resource as the API server stores it
  cache,    \* the informer's copy
  watch,    \* versions sent to the informer and not yet applied
  queued,   \* the key is in the workqueue, or a timer will put it there
  w,        \* the worker, in the middle of a Reconcile or idle
  lives     \* incarnations of the resource so far

baseVars == <<apiObj, cache, watch, queued, w, lives, sm>>

------------------------------------------------------------------------------
(* Conditions *)

Reasons == {"Created", "Updated", "Deleted",
            "CreateInProgress", "UpdateInProgress", "DeleteInProgress",
            "CreateFailed", "UpdateFailed", "DeleteFailed", "Blocked"}

Conditions == [ready: {"none", "True", "False"},
               reason: Reasons \cup {"none"},
               failed: BOOLEAN]

NoConditions == [ready |-> "none", reason |-> "none", failed |-> FALSE]

\* PENDING is treated by the code exactly as IN_PROGRESS.
getConditionReason(opType, state) ==
  CASE state = "SUCCEEDED" ->
         [CREATE |-> "Created", UPDATE |-> "Updated", DELETE |-> "Deleted"][opType]
    [] state = "IN_PROGRESS" ->
         [CREATE |-> "CreateInProgress", UPDATE |-> "UpdateInProgress",
          DELETE |-> "DeleteInProgress"][opType]
    [] state = "FAILED" ->
         [CREATE |-> "CreateFailed", UPDATE |-> "UpdateFailed",
          DELETE |-> "DeleteFailed"][opType]

WithConditions(o, c) == [o EXCEPT !.status.cond = c]

setInProgressCondition(opType, o) ==
  WithConditions(o, [ready |-> "False", failed |-> FALSE,
                     reason |-> getConditionReason(opType, "IN_PROGRESS")])

setSuccessConditions(opType, o) ==
  WithConditions(o, [ready |-> "True", failed |-> FALSE,
                     reason |-> getConditionReason(opType, "SUCCEEDED")])

setFailureConditions(opType, o) ==
  WithConditions(o, [ready |-> "False", failed |-> TRUE,
                     reason |-> getConditionReason(opType, "FAILED")])

setBlockedCondition(o) ==
  WithConditions(o, [ready |-> "False", failed |-> FALSE, reason |-> "Blocked"])

\* A single condition, and it is Ready=False.
isInProgress(o) == o.status.cond.ready = "False" /\ ~o.status.cond.failed

observe(o) == [o EXCEPT !.status.obs = o.gen]

\* The status computed by markAsNonTransientError before it is written.
markAsNonTransientError(opType, o) == observe(setFailureConditions(opType, o))

------------------------------------------------------------------------------
(* The resource *)

NoOp == [type |-> "none", id |-> NoId, n |-> 0]

\* OperationURL and OperationType are always set and cleared together: op is
\* the type, the id and the number of the operation in SM's record of the id.
EmptyStatus == [id |-> NoId, op |-> NoOp, cond |-> NoConditions, obs |-> 0]

\* owner: the uid of the instance that owns a binding.
NoObject == [uid |-> 0, gen |-> 0, name |-> NoName, secretName |-> NoName,
             owner |-> 0, deleting |-> FALSE, finalizer |-> FALSE,
             status |-> EmptyStatus]

OpRefs == {NoOp} \cup [type: OperationCategories, id: IDs, n: Nat]
Statuses == [id: IDs \cup {NoId}, op: OpRefs, cond: Conditions, obs: Nat]
Objects == [uid: Nat, gen: Nat, name: Names \cup {NoName},
            secretName: SecretNames \cup {NoName}, owner: Nat,
            deleting: BOOLEAN, finalizer: BOOLEAN, status: Statuses]

Exists(o) == o.uid # 0
RequestOf(o) == [uid |-> o.uid, gen |-> o.gen, name |-> o.name]
isDelete_onFailure(o) == o.deleting \/ o.status.cond.reason = "CreateFailed"
isDelete(o) == o.deleting
Polling(o) == o.status.op # NoOp

ClearOp_forgotten(o) == o
ClearOp(o) == [o EXCEPT !.status.op = NoOp]

\* SM accepted an asynchronous operation: its URL goes to the status.
InOperation(type, i, n, o) ==
  setInProgressCondition(type, [o EXCEPT !.status.id = i,
                                         !.status.op = [type |-> type, id |-> i, n |-> n]])

\* What poll keeps of the status when the operation cannot be read: the rest is
\* to be found out from SM again.
freshStatus_observed(o, cond) ==
  [EmptyStatus EXCEPT !.cond = cond, !.obs = o.status.obs,
                      !.id = IF isDelete(o) THEN o.status.id ELSE @]
freshStatus_identified(o, cond) == [EmptyStatus EXCEPT !.cond = cond, !.id = o.status.id]
freshStatus(o, cond) ==
  [EmptyStatus EXCEPT !.cond = cond, !.id = IF isDelete(o) THEN o.status.id ELSE @]

------------------------------------------------------------------------------
(* The worker *)

\* updateStatusWithRetries tries so often.
Attempts_offByOne == 4
Attempts == 3

Idle == [pc |-> "idle", obj |-> NoObject, fresh |-> FALSE, try |-> 0, next |-> "done"]

\* The worker is about to make the call pc, holding the copy o; fresh says that
\* the copy carries the resource version the API server has.
At(pc, o, fresh) == [pc |-> pc, obj |-> o, fresh |-> fresh, try |-> 0, next |-> "done"]

\* updateStatusWithRetries is about to be called.  next is what follows it:
\*   done, requeue:  Reconcile returns, without and with a requeue or an error
\*   init:           Reconcile goes on after init
\*   finalize:       the deletion goes on, SM having nothing any more
\*   noClient:       Reconcile handles the error of getSMClient
Saving(o, fresh, next) ==
  [pc |-> "status", obj |-> o, fresh |-> fresh, try |-> 1, next |-> next]

Nexts == {"done", "requeue", "init", "finalize", "noClient", "clearOp"}

\* Reconcile returns with an error or with a request to be called again.
Requeue_forgotten == w' = Idle /\ UNCHANGED queued
Requeue == w' = Idle /\ queued' = TRUE

Goto(pc, o) == w' = At(pc, o, w.fresh) /\ UNCHANGED queued
Save(o, next) == w' = Saving(o, w.fresh, next) /\ UNCHANGED queued

\* A 429, 503 or 504 is tried again, every other error is final.
NonTransient(type) == Save(markAsNonTransientError(type, w.obj), "done")
Transient(type) == Save(setInProgressCondition(type, w.obj), "requeue")

\* What a request leads to that SM executed and whose reply did not arrive: a 504 of
\* a gateway, or an error of the connection.
Unanswered(type) ==
  \/ NonTransient(type)
  \/ "transient" \in SMFaults /\ Transient(type)
UnansweredDelete ==
  \/ Save(setFailureConditions("DELETE", w.obj), "requeue")
  \/ "transient" \in SMFaults /\ Transient("DELETE")

------------------------------------------------------------------------------
(* The API server, the user, the informer, the process *)

\* A write that changes nothing produces no version and no event.
Write(o) ==
  /\ o # apiObj => Len(watch) < MaxLag
  /\ apiObj' = o
  /\ watch' = IF o = apiObj THEN watch ELSE Append(watch, o)

\* Every write by somebody else makes the worker's copy stale.
Outdated == w' = [w EXCEPT !.fresh = FALSE]

\* The webhook of both resources: a name that is left out is the resource's own.
Default(name) == IF name = NoName THEN K8sName ELSE name

UserCreate(name, secretName) ==
  /\ ~Exists(apiObj) /\ lives < MaxLives
  /\ Write([NoObject EXCEPT !.uid = lives + 1, !.gen = 1, !.name = name,
                            !.secretName = secretName])
  /\ lives' = lives + 1
  /\ Outdated
  /\ UNCHANGED <<cache, queued, sm>>

UserEdit(name, secretName) ==
  /\ Exists(apiObj) /\ apiObj.gen < MaxGen
  /\ Write([apiObj EXCEPT !.gen = @ + 1, !.name = name, !.secretName = secretName])
  /\ Outdated
  /\ UNCHANGED <<cache, queued, sm, lives>>

\* The API server keeps a resource that has a finalizer and marks it.  (It also
\* increments the generation, which is left out: the deletion does not use it, and a
\* Reconcile compares the generation of a resource being deleted only if the retry of
\* init's status write read it again, marked by then; the event of the mark follows.)
UserDelete ==
  /\ Exists(apiObj) /\ ~apiObj.deleting
  /\ Write(IF apiObj.finalizer THEN [apiObj EXCEPT !.deleting = TRUE] ELSE NoObject)
  /\ Outdated
  /\ UNCHANGED <<cache, queued, sm, lives>>

Deliver ==
  /\ watch # <<>>
  /\ cache' = Head(watch)
  /\ watch' = Tail(watch)
  /\ queued' = TRUE
  /\ UNCHANGED <<apiObj, w, sm, lives>>

\* The informer's periodic resync asks for a Reconcile nothing else asked for.
Resync ==
  /\ Exists(cache) /\ ~queued
  /\ queued' = TRUE
  /\ UNCHANGED <<apiObj, cache, watch, w, sm, lives>>

\* The process stops anywhere; the next one lists the resources and queues them.
Restart ==
  /\ w' = Idle
  /\ cache' = apiObj
  /\ watch' = <<>>
  /\ queued' = Exists(apiObj)
  /\ UNCHANGED <<apiObj, sm, lives>>

SMComplete(i) == SMFinish(i) /\ UNCHANGED <<apiObj, cache, watch, queued, w, lives>>

------------------------------------------------------------------------------
(* The worker: calls every Reconcile makes *)

\* Dispatch(o, fresh) is the worker once it has an SM client.
ReconcileWith(Dispatch(_, _)) ==
  /\ w.pc = "idle" /\ queued
  /\ queued' = FALSE
  /\ \/ ~Exists(cache) /\ UNCHANGED w
     \/ Exists(cache) /\ w' = Dispatch(cache, watch = <<>>)
     \/ Exists(cache) /\ ClientFaults
        /\ w' = Saving(setBlockedCondition(cache), watch = <<>>, "noClient")
  /\ UNCHANGED <<apiObj, cache, watch, sm, lives>>

\* Reconcile makes a failure of a missing client, saved or not.
NoClient(o, fresh) == Saving(setFailureConditions("CREATE", o), fresh, "requeue")

\* Continue(o, fresh, next) is the worker after a status was written; when all
\* attempts failed the error is returned, except by getSMClient, whose caller
\* treats every error alike.
GiveUp(o, fresh, next) == IF next = "noClient" THEN NoClient(o, fresh) ELSE Idle

\* The first Status().Update of updateStatusWithRetries.
StatusUpdateThen(Continue(_, _, _)) ==
  /\ w.pc = "status" /\ w.try = 1
  /\ \/ /\ w.fresh
        /\ Write([apiObj EXCEPT !.status = w.obj.status])
        /\ w' = Continue(apiObj', TRUE, w.next)
        /\ queued' = (queued \/ w.next = "requeue")
     \/ /\ ~w.fresh \/ ApiFaults
        /\ w' = [w EXCEPT !.try = 2]
        /\ UNCHANGED <<apiObj, watch, queued>>
  /\ UNCHANGED <<cache, sm, lives>>

\* updateStatus, the second and third attempt: it reads the resource into the
\* worker's copy and writes the status that copy had before.  When the write
\* fails, the status the worker computed is gone.
StatusRetryThen(Continue(_, _, _)) ==
  /\ w.pc = "status" /\ w.try > 1
  /\ \/ /\ Exists(cache) /\ watch = <<>>
        /\ Write([cache EXCEPT !.status = w.obj.status])
        /\ w' = Continue(cache, cache.status = w.obj.status, w.next)
        /\ queued' = (queued \/ w.next = "requeue")
     \/ /\ ~Exists(cache) \/ watch # <<>> \/ ApiFaults
        /\ LET o == IF Exists(cache) THEN cache ELSE w.obj
               f == Exists(cache) /\ watch = <<>>
           IN IF w.try < Attempts
              THEN w' = [w EXCEPT !.obj = o, !.fresh = f, !.try = @ + 1] /\ UNCHANGED queued
              ELSE /\ w' = GiveUp(o, f, w.next)
                   /\ queued' = (queued \/ w.next # "noClient")
        /\ UNCHANGED <<apiObj, watch>>
  /\ UNCHANGED <<cache, sm, lives>>

\* addFinalizer and the condition init sets after it.  A conflict is retried
\* once on the cached resource; when the cache has none, the error is ignored.
AddFinalizer ==
  /\ w.pc = "addFinalizer"
  /\ LET Pending(o, f) ==
           w' = Saving(setInProgressCondition("CREATE", o), f, "init") /\ UNCHANGED queued
     IN \/ /\ w.fresh
           /\ Write([apiObj EXCEPT !.finalizer = TRUE])
           /\ Pending(apiObj', TRUE)
        \/ /\ ~w.fresh \/ ApiFaults
           /\ \/ /\ ~Exists(cache)
                 /\ Pending([w.obj EXCEPT !.finalizer = TRUE], FALSE)
                 /\ UNCHANGED <<apiObj, watch>>
              \/ /\ Exists(cache) /\ watch = <<>>
                 /\ Write([cache EXCEPT !.finalizer = TRUE])
                 /\ Pending(apiObj', TRUE)
              \/ /\ Exists(cache) /\ (watch # <<>> \/ ApiFaults)
                 /\ Requeue
                 /\ UNCHANGED <<apiObj, watch>>
  /\ UNCHANGED <<cache, sm, lives>>

\* A resource marked for deletion goes with its last finalizer.
Released(o) == IF o.deleting THEN NoObject ELSE [o EXCEPT !.finalizer = FALSE]

\* removeFinalizer, and the return of the Reconcile that called it.
RemoveFinalizer ==
  /\ w.pc = "removeFinalizer"
  /\ LET Without(o) == [o EXCEPT !.finalizer = FALSE]
         Return(o, f) ==     \* poll of an instance goes on and clears the operation
           /\ w' = IF w.next = "clearOp" THEN Saving(ClearOp(o), f, "done") ELSE Idle
           /\ UNCHANGED queued
     IN \/ /\ ~w.obj.finalizer
           /\ Return(w.obj, w.fresh)
           /\ UNCHANGED <<apiObj, watch>>
        \/ /\ w.obj.finalizer /\ w.fresh
           /\ Write(Released(apiObj))
           /\ Return(Without(apiObj), Exists(apiObj'))
        \/ /\ w.obj.finalizer /\ (~w.fresh \/ ApiFaults)
           /\ \/ /\ ~Exists(cache)
                 /\ Return(Without(w.obj), FALSE)
                 /\ UNCHANGED <<apiObj, watch>>
              \/ /\ Exists(cache) /\ watch = <<>>
                 /\ Write(Released(cache))
                 /\ Return(Without(cache), Exists(apiObj'))
              \/ /\ Exists(cache) /\ (watch # <<>> \/ ApiFaults)
                 /\ Requeue
                 /\ UNCHANGED <<apiObj, watch>>
  /\ UNCHANGED <<cache, sm, lives>>

------------------------------------------------------------------------------
(* What every controller's proofs need of this part *)

\* The informer ends up with what the API server has.
CacheFollows == apiObj = IF watch = <<>> THEN cache ELSE watch[Len(watch)]

\* Every copy of the resource somebody holds, the API server's included.
Copies == {apiObj, cache, w.obj} \cup {watch[k] : k \in DOMAIN watch}

\* A copy of the current incarnation is marked for deletion only if the
\* resource is, and nobody holds a copy of an incarnation yet to come.
DeletionIsFinal ==
  \A o \in Copies : /\ o.uid <= lives
                    /\ o.deleting => Exists(o)
                    /\ o.deleting /\ o.uid = apiObj.uid => apiObj.deleting

\* The worker holds a resource, and a fresh copy is the API server's but for its status.
Held ==
  /\ w.pc # "idle" => Exists(w.obj)
  /\ w.fresh => w.obj = [apiObj EXCEPT !.status = w.obj.status]

\* A status names what SM assigned, and an operation that it recorded.
Recorded(things, st) ==
  /\ st.id # NoId => things[st.id].ops # <<>>
  /\ st.op # NoOp => /\ st.op.n \in DOMAIN things[st.op.id].ops
                     /\ things[st.op.id].ops[st.op.n].type = st.op.type

\* What the copies say is true of SM, which has what was asked for by name.
Truthful ==
  /\ \A o \in Copies : (Exists(o) => o.name \in Names) /\ Recorded(sm, o.status)
  /\ RequestsNamed /\ RemovedIsGone

\* The versions of the resource in the order in which the informer shows them.
Version(k) == IF k = 0 THEN cache ELSE watch[k]

\* Incarnations come one after the other, and one marked for deletion stays so.
InOrder ==
  \A j, k \in 0..Len(watch) :
    j < k /\ Exists(Version(j)) /\ Exists(Version(k)) =>
      /\ Version(j).uid <= Version(k).uid
      /\ Version(j).uid = Version(k).uid =>
           /\ Version(j).deleting => Version(k).deleting
           /\ \A i \in j..k : Exists(Version(i))

\* The incarnations the informer is yet to show, the next one to be created included.
Coming == {lives + 1} \cup {watch[k].uid : k \in {j \in DOMAIN watch : Exists(watch[j])}}

\* uid is the last incarnation the informer has shown, or passed over: none is
\* missing of those after it.
LastShown(uid) ==
  /\ uid \in 0..lives
  /\ IF Exists(cache) THEN uid = cache.uid ELSE \A u \in Coming : uid < u
  /\ uid + 1 .. lives + 1 \subseteq Coming

Backlog ==
  /\ lives <= MaxLives
  /\ Exists(apiObj) => apiObj.uid = lives
  /\ InOrder
  /\ \E uid \in 0..lives : LastShown(uid)

\* The informer has shown the finalizer that the resource has.
FinalizerSeen == Exists(apiObj) /\ apiObj.finalizer => cache.finalizer

\* The finalizer keeps the resource.
Guarded == Exists(apiObj) /\ apiObj.finalizer

\* Every version there still is to see is marked for deletion; there is none.
Doomed == lives > 0 /\ \A k \in 0..Len(watch) : Exists(Version(k)) => Version(k).deleting
Vanished == lives > 0 /\ \A k \in 0..Len(watch) : ~Exists(Version(k))

\* Between the start of an incarnation and its end; creates are the calls on the way
\* to a request that creates or changes something, removes those after the last one.
Setting == w.pc = "status" /\ w.next = "init"
Creating(creates) == Setting \/ w.pc \in {"addFinalizer"} \cup creates
Removing(removes) == w.pc \in removes \/ (w.pc = "status" /\ w.next = "finalize")

\* There is one incarnation, and SM did not lose what it failed to create: a thing
\* is created once, and only for lack of one and under the finalizer; when it is gone,
\* or going, the resource goes as well, and the last step of all is to take the
\* finalizer away.
OneLife(creates, removes) ==
  /\ \A i, j \in Used : i = j
  /\ Dismantled => Doomed /\ ~Creating(creates)
  /\ w.obj.deleting => Doomed
  /\ Exists(w.obj) /\ ~Exists(cache) => Vanished
  /\ Removing(removes) => Live = {} /\ Doomed
  /\ Setting => Guarded \/ (~w.fresh /\ Vanished)
  /\ \A k \in 0..Len(watch) :
       Exists(Version(k)) /\ ~Version(k).deleting /\ Version(k).finalizer => Guarded
  /\ w.pc \in creates \/ Live # {} => Guarded

\* Nothing is under way and nothing is going to happen by itself.
Quiescent == w.pc = "idle" /\ ~queued /\ watch = <<>>

------------------------------------------------------------------------------
(* Refinement *)

\* How far a resource has come.
Stage(o) == IF ~Exists(o) THEN "absent"
            ELSE IF o.deleting THEN "leaving"
            ELSE IF o.finalizer THEN "guarded" ELSE "open"

Promise == INSTANCE ManagedResource WITH resource <- Stage(apiObj), things <- Live

\* A controller keeps what ManagedResource promises.
ImplementsManagedResource == Promise!Spec
=============================================================================
