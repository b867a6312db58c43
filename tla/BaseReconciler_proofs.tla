------------------------ MODULE BaseReconciler_proofs ------------------------
(***************************************************************************)
(* What the proofs about the controllers share: facts about resources and  *)
(* their statuses, and the part of the invariant that is about the         *)
(* resource, its copies, and SM.                                           *)
(***************************************************************************)
EXTENDS BaseReconciler, ServiceManager_proofs

\* The same incarnation of the resource, as far as deletion goes.
Same(p, o) == p.uid = o.uid /\ p.deleting = o.deleting

\* What both controllers keep of the resource and of SM.
BaseTypes ==
  /\ apiObj \in Objects /\ cache \in Objects /\ watch \in Seq(Objects) /\ w.obj \in Objects
  /\ queued \in BOOLEAN
  /\ sm \in [IDs -> Things]
  /\ lives \in Nat
BaseInv == BaseTypes /\ CacheFollows /\ DeletionIsFinal /\ LiveIsRecorded

------------------------------------------------------------------------------
(* Values *)

\* A resource that does not exist is a value of the right type.
LEMMA NoObjectType == NoObject \in Objects
  BY DEF NoObject, Objects, EmptyStatus, Statuses, OpRefs, NoOp, NoConditions, Conditions

\* Every state of every kind of operation has a reason.
LEMMA ReasonType ==
  ASSUME NEW type \in OperationCategories, NEW state \in OperationStates
  PROVE  getConditionReason(type, state) \in Reasons
  BY DEF OperationCategories, OperationStates, getConditionReason, Reasons

\* A new status leaves a resource what it was otherwise.
LEMMA StatusType ==
  ASSUME NEW o \in Objects, NEW st \in Statuses
  PROVE  [o EXCEPT !.status = st] \in Objects /\ Same([o EXCEPT !.status = st], o)
  BY DEF Objects, Same

\* So do new conditions.
LEMMA ConditionsType ==
  ASSUME NEW o \in Objects, NEW c \in Conditions
  PROVE  WithConditions(o, c) \in Objects /\ Same(WithConditions(o, c), o)
  BY DEF Objects, Statuses, WithConditions, Same

\* The condition setters change the conditions of a resource only.
LEMMA SettersType ==
  ASSUME NEW o \in Objects, NEW type \in OperationCategories
  PROVE  /\ setInProgressCondition(type, o) \in Objects
         /\ Same(setInProgressCondition(type, o), o)
         /\ setSuccessConditions(type, o) \in Objects
         /\ Same(setSuccessConditions(type, o), o)
         /\ setFailureConditions(type, o) \in Objects
         /\ Same(setFailureConditions(type, o), o)
         /\ setBlockedCondition(o) \in Objects
         /\ Same(setBlockedCondition(o), o)
<1>1. /\ getConditionReason(type, "IN_PROGRESS") \in Reasons
      /\ getConditionReason(type, "SUCCEEDED") \in Reasons
      /\ getConditionReason(type, "FAILED") \in Reasons
  BY ReasonType DEF OperationStates
<1>2. ASSUME NEW r \in Reasons, NEW ready \in {"True", "False"}, NEW f \in BOOLEAN
      PROVE  [ready |-> ready, failed |-> f, reason |-> r] \in Conditions
  BY DEF Conditions
<1>3. "Blocked" \in Reasons
  BY DEF Reasons
<1> QED
  BY <1>1, <1>2, <1>3, ConditionsType
     DEF setInProgressCondition, setSuccessConditions, setFailureConditions,
         setBlockedCondition

\* observe and markAsNonTransientError do not touch anything but the status.
LEMMA ObserveType ==
  ASSUME NEW o \in Objects
  PROVE  /\ observe(o) \in Objects /\ Same(observe(o), o)
         /\ \A type \in OperationCategories :
              /\ markAsNonTransientError(type, o) \in Objects
              /\ Same(markAsNonTransientError(type, o), o)
<1>1. \A p \in Objects : observe(p) \in Objects /\ Same(observe(p), p)
  BY DEF Objects, Statuses, observe, Same
<1> QED
  BY <1>1, SettersType DEF markAsNonTransientError, Same

\* Storing the URL of an operation of a known type is a change of the status.
LEMMA InOperationType ==
  ASSUME NEW o \in Objects, NEW type \in OperationCategories, NEW i \in IDs, NEW n \in Nat
  PROVE  InOperation(type, i, n, o) \in Objects /\ Same(InOperation(type, i, n, o), o)
<1> DEFINE p == [o EXCEPT !.status.id = i,
                      !.status.op = [type |-> type, id |-> i, n |-> n]]
<1>1. [type |-> type, id |-> i, n |-> n] \in OpRefs
  BY DEF OpRefs
<1>2. p \in Objects /\ Same(p, o)
  BY <1>1 DEF Objects, Statuses, Same
<1> HIDE DEF p
<1>3. setInProgressCondition(type, p) \in Objects /\ Same(setInProgressCondition(type, p), p)
  BY <1>2, SettersType
<1> QED
  BY <1>2, <1>3 DEF InOperation, p, Same

\* The spec of a resource is a spec.
LEMMA SpecType == ASSUME NEW o \in Objects PROVE RequestOf(o) \in Requests
  BY DEF Objects, RequestOf, Requests

------------------------------------------------------------------------------
(* Steps *)

\* No step forgets a deletion that neither changes which incarnation there is,
\* except to none, nor makes up a copy.
LEMMA DeletionKept ==
  ASSUME DeletionIsFinal, lives' = lives,
         apiObj' = NoObject \/ Same(apiObj', apiObj),
         \A o \in Copies' : o = NoObject \/ \E p \in Copies : Same(o, p),
         lives \in Nat
  PROVE  DeletionIsFinal'
<1> SUFFICES ASSUME NEW o \in Copies'
             PROVE  /\ o.uid <= lives
                    /\ o.deleting => Exists(o)
                    /\ o.deleting /\ o.uid = apiObj'.uid => apiObj'.deleting
  BY DEF DeletionIsFinal, Exists
<1>1. CASE o = NoObject
  BY <1>1 DEF NoObject
<1>2. CASE \E p \in Copies : Same(o, p)
  <2>1. PICK p \in Copies : Same(o, p)
    BY <1>2
  <2>2. /\ p.uid <= lives
        /\ p.deleting => Exists(p)
        /\ p.deleting /\ p.uid = apiObj.uid => apiObj.deleting
    BY DEF DeletionIsFinal
  <2> QED
    BY <2>1, <2>2 DEF Same, Exists, NoObject
<1> QED
  BY <1>1, <1>2

\* A write extends what is on its way to the informer by what it wrote.
LEMMA WriteFollows ==
  ASSUME BaseTypes, CacheFollows, NEW o \in Objects, Write(o), cache' = cache
  PROVE  /\ apiObj' = o
         /\ watch' \in Seq(Objects)
         /\ CacheFollows'
         /\ \A k \in DOMAIN watch' : watch'[k] = o \/ \E j \in DOMAIN watch : watch'[k] = watch[j]
<1>1. apiObj' = o /\ watch \in Seq(Objects)
  BY DEF BaseTypes, Write
<1>2. CASE o = apiObj
  BY <1>1, <1>2 DEF Write, CacheFollows
<1>3. CASE o # apiObj
  <2>1. watch' = Append(watch, o)
    BY <1>3 DEF Write
  <2>2. watch' # <<>> /\ watch' \in Seq(Objects) /\ Len(watch') = Len(watch) + 1
    BY <1>1, <2>1
  <2>3. watch'[Len(watch')] = o
    BY <1>1, <2>1, <2>2
  <2>4. \A k \in DOMAIN watch' : watch'[k] = o \/ \E j \in DOMAIN watch : watch'[k] = watch[j]
    BY <1>1, <2>1
  <2> QED
    BY <1>1, <2>2, <2>3, <2>4 DEF CacheFollows
<1> QED
  BY <1>2, <1>3

\* The copies a Reconcile starts from or goes on with are resources.
LEMMA CopiesType ==
  ASSUME BaseTypes
  PROVE  /\ apiObj \in Copies /\ cache \in Copies /\ w.obj \in Copies
         /\ \A o \in Copies : o \in Objects
  BY DEF BaseTypes, Copies

\* A step that writes nothing to the API server, after which the worker holds a copy
\* there was before, or none.
LEMMA QuietStep ==
  ASSUME BaseInv, NEW o \in Copies, w'.obj \in Objects, w'.obj = NoObject \/ Same(w'.obj, o),
         UNCHANGED <<apiObj, cache, watch, lives>>,
         queued' \in BOOLEAN, sm' \in [IDs -> Things], LiveIsRecorded'
  PROVE  BaseInv'
<1>1. BaseTypes' /\ CacheFollows'
  BY DEF BaseInv, BaseTypes, CacheFollows
<1>2. \A p \in Copies' : p = NoObject \/ \E q \in Copies : Same(p, q)
  <2>1. Copies' \subseteq Copies \cup {w'.obj}
    BY DEF Copies
  <2> QED
    BY <2>1 DEF Same
<1>3. DeletionIsFinal'
  BY <1>2, DeletionKept DEF BaseInv, BaseTypes, Same
<1> QED
  BY <1>1, <1>3 DEF BaseInv

\* A step of the worker that writes p, the same incarnation or none at all.
LEMMA WritingStep ==
  ASSUME BaseInv, NEW p \in Objects, Write(p), p = NoObject \/ Same(p, apiObj),
         NEW o \in Copies, w'.obj \in Objects, w'.obj = NoObject \/ Same(w'.obj, o),
         UNCHANGED <<cache, sm, lives>>, queued' \in BOOLEAN
  PROVE  BaseInv'
<1>1. /\ apiObj' = p /\ watch' \in Seq(Objects) /\ CacheFollows'
      /\ \A k \in DOMAIN watch' : watch'[k] = p \/ \E j \in DOMAIN watch : watch'[k] = watch[j]
  BY WriteFollows DEF BaseInv
<1>2. BaseTypes' /\ LiveIsRecorded'
  BY <1>1 DEF BaseInv, BaseTypes, LiveIsRecorded
<1>3. \A q \in Copies' : q = NoObject \/ \E r \in Copies : Same(q, r)
  <2>1. apiObj \in Copies /\ cache \in Copies /\ \A j \in DOMAIN watch : watch[j] \in Copies
    BY DEF Copies
  <2>2. \A q \in Copies' : q = p \/ q = w'.obj \/ q \in Copies
    BY <1>1 DEF Copies
  <2> QED
    BY <2>1, <2>2 DEF Same
<1>4. DeletionIsFinal'
  BY <1>1, <1>3, DeletionKept DEF BaseInv, BaseTypes
<1> QED
  BY <1>1, <1>2, <1>4 DEF BaseInv

\* What the cache has is what the API server has, once nothing is on its way.
LEMMA CacheIsCurrent == CacheFollows /\ watch = <<>> => cache = apiObj
  BY DEF CacheFollows

------------------------------------------------------------------------------
(* Calls that both controllers make *)

\* Where addFinalizer leads to, and removeFinalizer.
Paused(next) ==
  \/ w' = Idle
  \/ \E p \in Objects, f \in BOOLEAN : w' = Saving(p, f, next)

\* Adding the finalizer keeps the invariant; it is followed by a status update.
LEMMA AddFinalizerKeeps ==
  ASSUME BaseInv, w.fresh \in BOOLEAN, AddFinalizer
  PROVE  BaseInv' /\ Paused("init")
<1> DEFINE Pending(o, f) ==
      w' = Saving(setInProgressCondition("CREATE", o), f, "init") /\ UNCHANGED queued
<1>1. /\ BaseTypes /\ apiObj \in Copies /\ cache \in Copies /\ w.obj \in Copies
      /\ apiObj \in Objects /\ cache \in Objects /\ w.obj \in Objects /\ queued \in BOOLEAN
  BY CopiesType DEF BaseInv, BaseTypes
<1>2. \A o \in Objects : [o EXCEPT !.finalizer = TRUE] \in Objects
                         /\ Same([o EXCEPT !.finalizer = TRUE], o)
  BY DEF Objects, Same
<1>3. ASSUME NEW o \in Objects, NEW f \in BOOLEAN, Pending(o, f)
      PROVE  /\ w'.obj \in Objects /\ Same(w'.obj, o) /\ Paused("init")
             /\ queued' \in BOOLEAN
  <2>1. /\ setInProgressCondition("CREATE", o) \in Objects
        /\ Same(setInProgressCondition("CREATE", o), o)
    BY SettersType DEF OperationCategories
  <2>2. w'.obj = setInProgressCondition("CREATE", o)
    BY <1>3 DEF Saving
  <2>3. Paused("init")
    BY <1>3, <2>1 DEF Paused
  <2> QED
    BY <1>1, <1>3, <2>1, <2>2, <2>3
<1> HIDE DEF Pending
<1>4. UNCHANGED <<cache, sm, lives>>
  BY DEF AddFinalizer
<1>5. ASSUME NEW o \in {apiObj, cache}, o = apiObj, Write([o EXCEPT !.finalizer = TRUE]),
             Pending(apiObj', TRUE)
      PROVE  BaseInv' /\ Paused("init")
  <2> DEFINE p == [o EXCEPT !.finalizer = TRUE]
  <2>1. p \in Objects /\ Same(p, apiObj)
    BY <1>1, <1>2, <1>5
  <2>2. Write(p) /\ apiObj' = p
    BY <1>5 DEF Write
  <2> HIDE DEF p
  <2>3. w'.obj \in Objects /\ Same(w'.obj, p) /\ Paused("init") /\ queued' \in BOOLEAN
    BY <1>3, <1>5, <2>1, <2>2
  <2>4. Same(w'.obj, apiObj)
    BY <2>1, <2>3 DEF Same
  <2> QED
    BY <1>1, <1>4, <2>1, <2>2, <2>3, <2>4, WritingStep
<1>6. ASSUME UNCHANGED <<apiObj, watch>>, queued' \in BOOLEAN, w'.obj \in Objects,
             w'.obj = NoObject \/ Same(w'.obj, w.obj)
      PROVE  BaseInv'
  <2>1. sm' \in [IDs -> Things] /\ LiveIsRecorded'
    BY <1>4 DEF BaseInv, BaseTypes, LiveIsRecorded
  <2> QED
    BY <1>1, <1>4, <1>6, <2>1, QuietStep
<1>7. CASE Pending([w.obj EXCEPT !.finalizer = TRUE], FALSE) /\ UNCHANGED <<apiObj, watch>>
  <2>1. /\ w'.obj \in Objects /\ Same(w'.obj, [w.obj EXCEPT !.finalizer = TRUE])
        /\ Paused("init") /\ queued' \in BOOLEAN
    BY <1>1, <1>2, <1>3, <1>7
  <2>2. Same(w'.obj, w.obj)
    BY <1>1, <1>2, <2>1 DEF Same
  <2> QED
    BY <1>6, <1>7, <2>1, <2>2
<1>8. CASE Requeue /\ UNCHANGED <<apiObj, watch>>
  BY <1>6, <1>8, NoObjectType DEF Requeue, Idle, Paused
<1>9. CASE Write([apiObj EXCEPT !.finalizer = TRUE]) /\ Pending(apiObj', TRUE)
  BY <1>5, <1>9
<1>10. CASE watch = <<>> /\ Write([cache EXCEPT !.finalizer = TRUE]) /\ Pending(apiObj', TRUE)
  BY <1>5, <1>10, CacheIsCurrent DEF BaseInv
<1> QED
  BY <1>7, <1>8, <1>9, <1>10 DEF AddFinalizer, Pending

\* Clearing the operation of a status is a change of the status.
LEMMA ClearOpType ==
  ASSUME NEW o \in Objects
  PROVE  ClearOp(o) \in Objects /\ Same(ClearOp(o), o)
BY DEF Objects, Same, ClearOp, Statuses, OpRefs

\* Removing the finalizer keeps the invariant; at most one status update follows.
LEMMA RemoveFinalizerKeeps ==
  ASSUME BaseInv, w.fresh \in BOOLEAN, RemoveFinalizer
  PROVE  BaseInv' /\ Paused("done")
<1> DEFINE Without(o) == [o EXCEPT !.finalizer = FALSE]
           Return(o, f) ==
             /\ w' = IF w.next = "clearOp" THEN Saving(ClearOp(o), f, "done") ELSE Idle
             /\ UNCHANGED queued
<1>1. /\ BaseTypes /\ apiObj \in Copies /\ cache \in Copies /\ w.obj \in Copies
      /\ apiObj \in Objects /\ cache \in Objects /\ w.obj \in Objects /\ queued \in BOOLEAN
  BY CopiesType DEF BaseInv, BaseTypes
<1>2. \A o \in Objects : Without(o) \in Objects /\ Same(Without(o), o)
  BY DEF Objects, Same
<1> HIDE DEF Without
<1>3. \A o \in Objects : Released(o) \in Objects /\ (Released(o) = NoObject \/ Same(Released(o), o))
  BY <1>2, NoObjectType DEF Released, Without
<1>4. ASSUME NEW o \in Objects, NEW f \in BOOLEAN, Return(o, f)
      PROVE  /\ w'.obj \in Objects /\ (w'.obj = NoObject \/ Same(w'.obj, o)) /\ Paused("done")
             /\ queued' \in BOOLEAN
  <2>1. ClearOp(o) \in Objects /\ Same(ClearOp(o), o)
    BY ClearOpType
  <2>2. CASE w' = Idle
    <3>1. w'.obj = NoObject
      BY <2>2 DEF Idle
    <3>2. Paused("done")
      BY <2>2 DEF Paused
    <3> QED
      BY <1>1, <1>4, <3>1, <3>2, NoObjectType
  <2>3. CASE w' = Saving(ClearOp(o), f, "done")
    <3>1. w'.obj = ClearOp(o)
      BY <2>3 DEF Saving
    <3>2. Paused("done")
      BY <2>1, <2>3 DEF Paused
    <3> QED
      BY <1>1, <1>4, <2>1, <3>1, <3>2
  <2>4. w' = Idle \/ w' = Saving(ClearOp(o), f, "done")
    BY <1>4
  <2> HIDE DEF Return
  <2> QED
    BY <2>2, <2>3, <2>4
<1> HIDE DEF Return
<1>5. UNCHANGED <<cache, sm, lives>>
  BY DEF RemoveFinalizer
<1>6. ASSUME NEW o \in {apiObj, cache}, o = apiObj, Write(Released(o)),
             Return(Without(o), Exists(apiObj'))
      PROVE  BaseInv' /\ Paused("done")
  <2>1. /\ w'.obj \in Objects /\ (w'.obj = NoObject \/ Same(w'.obj, Without(o)))
        /\ Paused("done") /\ queued' \in BOOLEAN
    BY <1>1, <1>2, <1>4, <1>6 DEF Exists
  <2>2. w'.obj = NoObject \/ Same(w'.obj, o)
    BY <1>1, <1>2, <2>1 DEF Same
  <2> QED
    BY <1>1, <1>3, <1>5, <1>6, <2>1, <2>2, WritingStep
<1>7. ASSUME UNCHANGED <<apiObj, watch>>, queued' \in BOOLEAN, w'.obj \in Objects,
             w'.obj = NoObject \/ Same(w'.obj, w.obj)
      PROVE  BaseInv'
  <2>1. sm' \in [IDs -> Things] /\ LiveIsRecorded'
    BY <1>5 DEF BaseInv, BaseTypes, LiveIsRecorded
  <2> QED
    BY <1>1, <1>5, <1>7, <2>1, QuietStep
<1>8. CASE Return(w.obj, w.fresh) /\ UNCHANGED <<apiObj, watch>>
  BY <1>1, <1>4, <1>7, <1>8
<1>9. CASE Return(Without(w.obj), FALSE) /\ UNCHANGED <<apiObj, watch>>
  <2>1. /\ w'.obj \in Objects /\ (w'.obj = NoObject \/ Same(w'.obj, Without(w.obj)))
        /\ Paused("done") /\ queued' \in BOOLEAN
    BY <1>1, <1>2, <1>4, <1>9
  <2>2. w'.obj = NoObject \/ Same(w'.obj, w.obj)
    BY <1>1, <1>2, <2>1 DEF Same
  <2> QED
    BY <1>7, <1>9, <2>1, <2>2
<1>10. CASE Requeue /\ UNCHANGED <<apiObj, watch>>
  BY <1>7, <1>10, NoObjectType DEF Requeue, Idle, Paused
<1>11. CASE Write(Released(apiObj)) /\ Return(Without(apiObj), Exists(apiObj'))
  BY <1>6, <1>11
<1>12. CASE watch = <<>> /\ Write(Released(cache)) /\ Return(Without(cache), Exists(apiObj'))
  BY <1>6, <1>12, CacheIsCurrent DEF BaseInv
<1> QED
  BY <1>8, <1>9, <1>10, <1>11, <1>12 DEF RemoveFinalizer, Return, Without

------------------------------------------------------------------------------
(* Everybody else *)

\* A write of the user, of an incarnation that is not older than any copy, marked
\* for deletion if the resource was, keeps the invariant.
LEMMA UserStep ==
  ASSUME BaseInv, NEW p \in Objects, Write(p), w'.obj = w.obj, UNCHANGED <<cache, queued, sm>>,
         lives' \in Nat, lives <= lives', p.uid <= lives', p.deleting => Exists(p),
         \/ p.uid = 0
         \/ p.uid > lives /\ ~p.deleting
         \/ p.uid = apiObj.uid /\ (apiObj.deleting => p.deleting)
  PROVE  BaseInv'
<1>1. /\ apiObj' = p /\ watch' \in Seq(Objects) /\ CacheFollows'
      /\ \A k \in DOMAIN watch' : watch'[k] = p \/ \E j \in DOMAIN watch : watch'[k] = watch[j]
  BY WriteFollows DEF BaseInv
<1>2. BaseTypes' /\ LiveIsRecorded'
  BY <1>1 DEF BaseInv, BaseTypes, LiveIsRecorded
<1>3. \A o \in Copies' : o = p \/ o \in Copies
  BY <1>1 DEF Copies
<1>4. DeletionIsFinal'
  <2> SUFFICES ASSUME NEW o \in Copies'
               PROVE  /\ o.uid <= lives'
                      /\ o.deleting => Exists(o)
                      /\ o.deleting /\ o.uid = p.uid => p.deleting
    BY <1>1 DEF DeletionIsFinal
  <2>1. CASE o = p
    BY <2>1
  <2>2. CASE o \in Copies
    <3>1. /\ o.uid <= lives
          /\ o.deleting => o.uid # 0
          /\ o.deleting /\ o.uid = apiObj.uid => apiObj.deleting
      BY <2>2 DEF BaseInv, DeletionIsFinal, Exists
    <3>2. o.uid \in Nat /\ p.uid \in Nat /\ lives \in Nat
      BY <2>2, CopiesType DEF BaseInv, BaseTypes, Objects
    <3> QED
      BY <3>1, <3>2 DEF Exists
  <2> QED
    BY <1>3, <2>1, <2>2
<1> QED
  BY <1>1, <1>2, <1>4 DEF BaseInv

\* The user deletes the resource, and the garbage collector may.
LEMMA UserDeleteKeeps ==
  ASSUME BaseInv, UserDelete, w'.obj = w.obj
  PROVE  BaseInv'
<1> DEFINE p == IF apiObj.finalizer THEN [apiObj EXCEPT !.deleting = TRUE] ELSE NoObject
<1>1. /\ apiObj \in Objects /\ lives \in Nat
      /\ apiObj.uid \in Nat /\ apiObj.uid <= lives
  BY DEF BaseInv, BaseTypes, DeletionIsFinal, Copies, Objects
<1>2. p \in Objects /\ (p = NoObject \/ (p.uid = apiObj.uid /\ p.deleting))
  <2>1. /\ [apiObj EXCEPT !.deleting = TRUE] \in Objects
        /\ [apiObj EXCEPT !.deleting = TRUE].uid = apiObj.uid
        /\ [apiObj EXCEPT !.deleting = TRUE].deleting
    BY <1>1 DEF Objects
  <2> QED
    BY <2>1, NoObjectType
<1>3. p.deleting => p.uid = apiObj.uid
  BY <1>2 DEF NoObject
<1>4. p.uid = 0 \/ (p.uid = apiObj.uid /\ (apiObj.deleting => p.deleting))
  BY <1>2 DEF NoObject
<1>5. /\ Write(p) /\ UNCHANGED <<cache, queued, sm>> /\ lives' = lives
      /\ apiObj.uid # 0
  BY DEF UserDelete, Exists
<1> HIDE DEF p
<1>6. p.uid <= lives /\ p.uid \in Nat /\ (p.deleting => Exists(p))
  BY <1>1, <1>2, <1>3, <1>4, <1>5 DEF Exists, Objects
<1> QED
  BY <1>1, <1>2, <1>4, <1>5, <1>6, UserStep

\* The user creates the resource.
LEMMA UserCreateKeeps ==
  ASSUME BaseInv, NEW name \in Names, NEW secretName \in SecretNames \cup {NoName},
         UserCreate(name, secretName), w'.obj = w.obj
  PROVE  BaseInv'
<1> DEFINE p == [NoObject EXCEPT !.uid = lives + 1, !.gen = 1, !.name = name,
                               !.secretName = secretName]
<1>1. lives \in Nat
  BY DEF BaseInv, BaseTypes
<1>2. p \in Objects /\ p.uid = lives + 1 /\ ~p.deleting
  <2>1. lives + 1 \in Nat /\ 1 \in Nat /\ name \in Names \cup {NoName}
    BY <1>1
  <2>2. ~NoObject.deleting
    BY DEF NoObject
  <2> QED
    BY <2>1, <2>2, NoObjectType DEF Objects
<1>3. /\ Write(p) /\ UNCHANGED <<cache, queued, sm>> /\ lives' = lives + 1
  BY DEF UserCreate
<1> HIDE DEF p
<1> QED
  BY <1>1, <1>2, <1>3, UserStep

\* The user edits the resource.
LEMMA UserEditKeeps ==
  ASSUME BaseInv, NEW name \in Names, NEW secretName \in SecretNames \cup {NoName},
         UserEdit(name, secretName), w'.obj = w.obj
  PROVE  BaseInv'
<1> DEFINE p == [apiObj EXCEPT !.gen = @ + 1, !.name = name, !.secretName = secretName]
<1>1. /\ apiObj \in Objects /\ lives \in Nat
      /\ apiObj.uid \in Nat /\ apiObj.uid <= lives
  BY DEF BaseInv, BaseTypes, DeletionIsFinal, Copies, Objects
<1>2. p \in Objects /\ p.uid = apiObj.uid /\ p.deleting = apiObj.deleting
  <2>1. apiObj.gen + 1 \in Nat /\ name \in Names \cup {NoName}
    BY <1>1 DEF Objects
  <2> QED
    BY <1>1, <2>1 DEF Objects
<1>3. /\ Write(p) /\ UNCHANGED <<cache, queued, sm>> /\ lives' = lives
      /\ apiObj.uid # 0
  BY DEF UserEdit, Exists
<1> HIDE DEF p
<1>4. p.uid <= lives' /\ lives <= lives' /\ (p.deleting => Exists(p))
  BY <1>1, <1>2, <1>3 DEF Exists
<1> QED
  BY <1>1, <1>2, <1>3, <1>4, UserStep

\* A name that is left out is the resource's own.
LEMMA DefaultType == \A name \in Names \cup {NoName} : Default(name) \in Names
  BY ConstantsAssumption DEF Default

\* The informer applying a version keeps the invariant.
LEMMA DeliverKeeps == BaseInv /\ Deliver => BaseInv'
<1> SUFFICES ASSUME BaseInv, Deliver PROVE BaseInv'
  OBVIOUS
<1>1. /\ watch \in Seq(Objects) /\ watch # <<>>
      /\ cache' = Head(watch) /\ watch' = Tail(watch) /\ queued' = TRUE
      /\ UNCHANGED <<apiObj, w, sm, lives>>
  BY DEF BaseInv, BaseTypes, Deliver
<1>2. /\ cache' = watch[1] /\ cache' \in Objects /\ 1 \in DOMAIN watch
      /\ watch' \in Seq(Objects) /\ Len(watch') = Len(watch) - 1
      /\ \A k \in DOMAIN watch' : k + 1 \in DOMAIN watch /\ watch'[k] = watch[k + 1]
  BY <1>1
<1>3. CacheFollows'
  <2>1. apiObj = watch[Len(watch)]
    BY <1>1 DEF BaseInv, CacheFollows
  <2>2. CASE watch' = <<>>
    BY <1>1, <1>2, <2>1, <2>2 DEF CacheFollows
  <2>3. CASE watch' # <<>>
    BY <1>1, <1>2, <2>1, <2>3 DEF CacheFollows
  <2> QED
    BY <2>2, <2>3
<1>4. Copies' \subseteq Copies
  BY <1>1, <1>2 DEF Copies
<1>5. DeletionIsFinal'
  BY <1>1, <1>4 DEF BaseInv, DeletionIsFinal
<1> QED
  BY <1>1, <1>2, <1>3, <1>5 DEF BaseInv, BaseTypes, LiveIsRecorded

\* A resync keeps the invariant.
LEMMA ResyncKeeps == BaseInv /\ Resync => BaseInv'
  BY DEF BaseInv, Resync, BaseTypes, CacheFollows, DeletionIsFinal, Copies, LiveIsRecorded

\* A restart keeps the invariant: the copies that are left are the API server's.
LEMMA RestartKeeps == BaseInv /\ Restart => BaseInv'
<1> SUFFICES ASSUME BaseInv, Restart PROVE BaseInv'
  OBVIOUS
<1>1. /\ w' = Idle /\ cache' = apiObj /\ watch' = <<>> /\ queued' = Exists(apiObj)
      /\ UNCHANGED <<apiObj, sm, lives>>
  BY DEF Restart
<1>2. Idle.obj = NoObject /\ NoObject \in Objects
  BY NoObjectType DEF Idle
<1>3. BaseTypes' /\ CacheFollows' /\ LiveIsRecorded'
  BY <1>1, <1>2 DEF BaseInv, BaseTypes, CacheFollows, LiveIsRecorded, Exists
<1>4. \A o \in Copies' : o = NoObject \/ o = apiObj
  BY <1>1, <1>2 DEF Copies
<1>5. \A o \in Copies' : o = NoObject \/ \E p \in Copies : Same(o, p)
  BY <1>4 DEF Copies, Same
<1>6. DeletionIsFinal'
  BY <1>1, <1>5, DeletionKept DEF BaseInv, BaseTypes, Same
<1> QED
  BY <1>3, <1>6 DEF BaseInv

\* SM ending an operation keeps the invariant.
LEMMA SMCompleteKeeps == ASSUME NEW i \in IDs PROVE BaseInv /\ SMComplete(i) => BaseInv'
<1> SUFFICES ASSUME BaseInv, SMComplete(i) PROVE BaseInv'
  OBVIOUS
<1>1. sm' \in [IDs -> Things] /\ LiveIsRecorded'
  BY FinishFacts DEF BaseInv, BaseTypes, SMComplete, Advanced
<1>2. UNCHANGED <<apiObj, cache, watch, queued, w, lives>>
  BY DEF SMComplete
<1> QED
  BY <1>1, <1>2 DEF BaseInv, BaseTypes, CacheFollows, DeletionIsFinal, Copies

\* The invariant holds to begin with.
LEMMA InitBase ==
  ASSUME apiObj = NoObject, cache = NoObject, watch = <<>>, queued = FALSE, w = Idle,
         sm = [i \in IDs |-> Unused], lives = 0
  PROVE  BaseInv
<1>1. NoObject \in Objects /\ Idle.obj = NoObject
  BY NoObjectType DEF Idle
<1>2. Unused \in Things /\ ~Unused.alive
  <2>1. NoRequest \in Requests
    BY DEF NoRequest, Requests
  <2> QED
    BY <2>1 DEF Unused, Things
<1>3. BaseTypes
  <2>1. <<>> \in Seq(Objects) /\ [i \in IDs |-> Unused] \in [IDs -> Things]
    BY <1>2
  <2> QED
    BY <1>1, <2>1 DEF BaseTypes
<1>4. CacheFollows /\ LiveIsRecorded
  BY <1>1, <1>2 DEF CacheFollows, LiveIsRecorded
<1>5. Copies = {NoObject}
  BY <1>1 DEF Copies
<1>6. DeletionIsFinal
  BY <1>5 DEF DeletionIsFinal, NoObject
<1> QED
  BY <1>3, <1>4, <1>6 DEF BaseInv

------------------------------------------------------------------------------
(* What the copies say *)

\* What is said of a copy in a state of SM.
Sound(things, o) == (Exists(o) => o.name \in Names) /\ Recorded(things, o.status)

\* A copy with another status of the same instance and operation.
Restates(p, o) ==
  /\ p \in Objects /\ p = [o EXCEPT !.status = p.status]
  /\ p.status.id = o.status.id /\ p.status.op = o.status.op

\* What SM has recorded stays recorded.
Remembers == \A st \in Statuses : Recorded(sm, st) => Recorded(sm', st)

\* The worker x is idle or has a copy that differs from o by its status.
Carries(x, o, f) ==
  \/ x = Idle
  \/ /\ x.fresh = f /\ x.obj \in Objects
     /\ x.obj = [o EXCEPT !.status = x.obj.status]
     /\ Recorded(sm', x.obj.status)

\* It carries on with the copy it had.
Computed == Carries(w', w.obj, w.fresh)

\* Reconcile is about to return.
Quiet == w'.pc = "idle" \/ (w'.pc = "status" /\ w'.next \in {"done", "requeue"})

\* The worker x is idle or has a copy that restates o.
Follows(x, o, f) == x = Idle \/ (x.fresh = f /\ Restates(x.obj, o))

\* The condition setters, observe and markAsNonTransientError restate the status.
LEMMA SettersRestate ==
  ASSUME NEW o \in Objects, NEW type \in OperationCategories
  PROVE  /\ Restates(setInProgressCondition(type, o), o)
         /\ Restates(setSuccessConditions(type, o), o)
         /\ Restates(setFailureConditions(type, o), o)
         /\ Restates(setBlockedCondition(o), o)
         /\ Restates(observe(o), o)
         /\ Restates(markAsNonTransientError(type, o), o)
<1>1. \A c : \A p \in Objects : LET q == WithConditions(p, c)
                            IN  /\ q = [p EXCEPT !.status = q.status]
                                /\ q.status.id = p.status.id /\ q.status.op = p.status.op
  BY DEF WithConditions, Objects, Statuses
<1>2. \A p \in Objects : /\ observe(p) = [p EXCEPT !.status = observe(p).status]
                         /\ observe(p).status.id = p.status.id
                         /\ observe(p).status.op = p.status.op
  BY DEF observe, Objects, Statuses
<1>3. /\ Restates(setInProgressCondition(type, o), o)
      /\ Restates(setSuccessConditions(type, o), o)
      /\ Restates(setFailureConditions(type, o), o)
      /\ Restates(setBlockedCondition(o), o)
  BY <1>1, SettersType
     DEF setInProgressCondition, setSuccessConditions, setFailureConditions,
         setBlockedCondition, Restates
<1>4. Restates(observe(o), o)
  BY <1>2, ObserveType DEF Restates
<1>5. Restates(markAsNonTransientError(type, o), o)
  <2> DEFINE p == setFailureConditions(type, o)
  <2>1. p \in Objects /\ Restates(p, o)
    BY <1>3 DEF Restates
  <2> HIDE DEF p
  <2>2. Restates(observe(p), p)
    BY <1>2, <2>1, ObserveType DEF Restates
  <2>3. [p EXCEPT !.status = observe(p).status] = [o EXCEPT !.status = observe(p).status]
    BY <2>1 DEF Restates, Objects
  <2> QED
    BY <2>1, <2>2, <2>3 DEF Restates, markAsNonTransientError, p
<1> QED
  BY <1>3, <1>4, <1>5

\* A restated status is as true as it was.
LEMMA RestatedStays ==
  ASSUME NEW things, NEW o \in Objects, NEW p, Restates(p, o), Sound(things, o)
  PROVE  Sound(things, p) /\ p.name = o.name /\ p.uid = o.uid /\ p.deleting = o.deleting
         /\ p.finalizer = o.finalizer /\ p.status \in Statuses
<1>1. p \in Objects /\ p = [o EXCEPT !.status = p.status]
  BY DEF Restates
<1>2. /\ p.name = o.name /\ p.uid = o.uid /\ p.deleting = o.deleting
      /\ p.finalizer = o.finalizer /\ p.status \in Statuses
  BY <1>1 DEF Objects
<1> QED
  BY <1>2 DEF Restates, Sound, Recorded, Exists

\* A copy restates itself, and what restates an observed copy restates the copy.
LEMMA RestatesSelf ==
  ASSUME NEW o \in Objects
  PROVE  Restates(o, o) /\ Restates(observe(o), o)
<1>1. o = [o EXCEPT !.status = o.status]
  BY DEF Objects
<1> QED
  BY <1>1, SettersRestate DEF Restates, OperationCategories

\* An absent resource says nothing that could be false.
LEMMA NothingIsSound == ASSUME NEW things PROVE Sound(things, NoObject)
  BY DEF Sound, Recorded, NoObject, EmptyStatus, Exists

\* A copy that takes the status of another one, and one that gets or loses its
\* finalizer, are as true as the copies they are made of.
LEMMA RewrittenIsSound ==
  ASSUME NEW things, NEW o \in Objects, Sound(things, o), NEW p \in Objects, Sound(things, p),
         NEW b \in BOOLEAN
  PROVE  /\ [o EXCEPT !.status = p.status] \in Objects
         /\ Sound(things, [o EXCEPT !.status = p.status])
         /\ [o EXCEPT !.finalizer = b] \in Objects
         /\ Sound(things, [o EXCEPT !.finalizer = b])
         /\ ClearOp(o) \in Objects /\ Sound(things, ClearOp(o))
<1>1. /\ [o EXCEPT !.status = p.status] \in Objects
      /\ Sound(things, [o EXCEPT !.status = p.status])
  BY DEF Objects, Sound, Exists
<1>2. [o EXCEPT !.finalizer = b] \in Objects /\ Sound(things, [o EXCEPT !.finalizer = b])
  BY DEF Objects, Sound, Exists
<1>3. /\ ClearOp(o).uid = o.uid /\ ClearOp(o).name = o.name
      /\ ClearOp(o).status.id = o.status.id /\ ClearOp(o).status.op = NoOp
  BY DEF ClearOp, Objects, Statuses
<1>4. Sound(things, ClearOp(o))
  BY <1>3 DEF Sound, Recorded, Exists
<1> QED
  BY <1>1, <1>2, <1>4, ClearOpType

\* A status that is recorded is written, or tried to be.
LEMMA SaveComputes ==
  ASSUME NEW p \in Objects, NEW next, Save(p, next), p = [w.obj EXCEPT !.status = p.status],
         Recorded(sm', p.status)
  PROVE  Computed /\ w'.pc = "status" /\ w'.next = next
BY DEF Computed, Carries, Save, Saving

\* The two ways in which a request fails leave what is known of the instance.
LEMMA AnswersComputed ==
  ASSUME w.obj \in Objects, Recorded(sm', w.obj.status), NEW type \in OperationCategories,
         \/ Transient(type) \/ NonTransient(type)
         \/ \E next \in {"done", "requeue"} :
              Save(setFailureConditions(type, w.obj), next)
  PROVE  Computed /\ Quiet
<1>1. w.obj \in Objects /\ w.obj.status \in Statuses /\ Recorded(sm', w.obj.status)
  BY DEF Objects
<1>2. ASSUME NEW p, Restates(p, w.obj), NEW next \in {"done", "requeue"}, Save(p, next)
      PROVE  Computed /\ Quiet
  <2>1. p \in Objects /\ p = [w.obj EXCEPT !.status = p.status] /\ Recorded(sm', p.status)
    BY <1>1, <1>2 DEF Restates, Recorded
  <2> QED
    BY <1>2, <2>1, SaveComputes DEF Quiet
<1>3. /\ Restates(setInProgressCondition(type, w.obj), w.obj)
      /\ Restates(markAsNonTransientError(type, w.obj), w.obj)
      /\ Restates(setFailureConditions(type, w.obj), w.obj)
  BY <1>1, SettersRestate
<1> QED
  BY <1>2, <1>3 DEF Transient, NonTransient

\* An accepted request is in the status: by the id of the instance, or by its operation.
LEMMA AcceptedComputed ==
  ASSUME w.obj \in Objects, Recorded(sm', w.obj.status),
         NEW type \in OperationCategories, NEW i \in IDs \cup {NoId},
         i # NoId => sm'[i].ops # <<>>, NEW n \in Nat, NEW next,
         \/ Save(setSuccessConditions(type, [w.obj EXCEPT !.status.id = i]), next)
         \/ Save(setInProgressCondition(type, [w.obj EXCEPT !.status.id = i]), next)
         \/ /\ i \in IDs /\ n \in DOMAIN sm'[i].ops /\ sm'[i].ops[n].type = type
            /\ Save(InOperation(type, i, n, w.obj), next)
  PROVE  Computed /\ w'.pc = "status" /\ w'.next = next
<1> DEFINE p == [w.obj EXCEPT !.status.id = i]
           op == [type |-> type, id |-> i, n |-> n]
           q == [w.obj EXCEPT !.status.id = i, !.status.op = op]
<1>1. w.obj \in Objects /\ w.obj.status \in Statuses /\ Recorded(sm', w.obj.status)
  BY DEF Objects
<1>2. ASSUME NEW o \in Objects, o = [w.obj EXCEPT !.status = o.status], NEW x, Restates(x, o),
             Recorded(sm', o.status), Save(x, next)
      PROVE  Computed /\ w'.pc = "status" /\ w'.next = next
  <2>1. x \in Objects /\ Recorded(sm', x.status)
    BY <1>2 DEF Restates, Recorded
  <2>2. x = [w.obj EXCEPT !.status = x.status]
    BY <1>1, <1>2 DEF Restates, Objects
  <2> QED
    BY <1>2, <2>1, <2>2, SaveComputes
<1>3. /\ p \in Objects /\ p = [w.obj EXCEPT !.status = p.status]
      /\ Recorded(sm', p.status)
  BY <1>1 DEF Objects, Statuses, Recorded
<1>4. CASE Save(setSuccessConditions(type, p), next) \/ Save(setInProgressCondition(type, p), next)
  <2> HIDE DEF p
  <2> QED
    BY <1>2, <1>3, <1>4, SettersRestate
<1>5. CASE i \in IDs /\ n \in DOMAIN sm'[i].ops /\ sm'[i].ops[n].type = type
           /\ Save(InOperation(type, i, n, w.obj), next)
  <2>1. op \in OpRefs /\ op.id = i /\ op.n = n /\ op.type = type
    BY <1>5 DEF OpRefs
  <2> HIDE DEF op
  <2>2. i # NoId
    BY <1>5, ServiceManagerAssumption
  <2>3. /\ q \in Objects /\ q = [w.obj EXCEPT !.status = q.status]
        /\ q.status.id = i /\ q.status.op = op
    BY <1>1, <2>1 DEF Objects, Statuses
  <2>4. Recorded(sm', q.status)
    BY <1>5, <2>1, <2>2, <2>3 DEF Recorded
  <2>5. InOperation(type, i, n, w.obj) = setInProgressCondition(type, q)
    BY DEF InOperation, op, q
  <2> HIDE DEF q
  <2> QED
    BY <1>2, <1>5, <2>3, <2>4, <2>5, SettersRestate
<1> QED
  BY <1>4, <1>5

------------------------------------------------------------------------------
(* The finalizer *)

\* addFinalizer leaves the finalizer on the resource, unless the resource has gone.
LEMMA AddFinalizerOutcome ==
  ASSUME BaseInv, Held, AddFinalizer
  PROVE  /\ UNCHANGED <<cache, sm, lives>> /\ w.pc = "addFinalizer"
         /\ \/ w' = Idle /\ UNCHANGED <<apiObj, watch>>
            \/ /\ w'.pc = "status" /\ w'.next = "init"
               /\ \/ /\ Write([apiObj EXCEPT !.finalizer = TRUE])
                     /\ apiObj' = [apiObj EXCEPT !.finalizer = TRUE]
                     /\ Restates(w'.obj, apiObj') /\ w'.fresh = TRUE /\ Exists(apiObj)
                     /\ w'.obj = setInProgressCondition("CREATE", apiObj')
                     /\ w.fresh \/ (Exists(cache) /\ watch = <<>>)
                  \/ /\ UNCHANGED <<apiObj, watch>> /\ ~Exists(cache) /\ w'.fresh = FALSE
                     /\ Restates(w'.obj, [w.obj EXCEPT !.finalizer = TRUE])
                     /\ w'.obj = setInProgressCondition("CREATE", [w.obj EXCEPT !.finalizer = TRUE])
<1> DEFINE Pending(o, f) ==
             w' = Saving(setInProgressCondition("CREATE", o), f, "init") /\ UNCHANGED queued
<1>1. /\ UNCHANGED <<cache, sm, lives>> /\ w.pc = "addFinalizer"
      /\ w.obj \in Objects /\ cache \in Objects /\ apiObj \in Objects
      /\ Exists(w.obj) /\ CacheFollows
      /\ w.fresh => w.obj = [apiObj EXCEPT !.status = w.obj.status]
  BY DEF AddFinalizer, BaseInv, BaseTypes, Held
<1>2. ASSUME NEW o \in Objects, NEW f, Pending(o, f)
      PROVE  /\ w'.pc = "status" /\ w'.next = "init" /\ Restates(w'.obj, o) /\ w'.fresh = f
             /\ w'.obj = setInProgressCondition("CREATE", o)
  BY <1>2, SettersRestate DEF Saving, OperationCategories
<1>3. [apiObj EXCEPT !.finalizer = TRUE] \in Objects /\ [w.obj EXCEPT !.finalizer = TRUE] \in Objects
  BY <1>1 DEF Objects
<1>4. CASE w.fresh /\ Write([apiObj EXCEPT !.finalizer = TRUE]) /\ Pending(apiObj', TRUE)
  <2>1. apiObj' = [apiObj EXCEPT !.finalizer = TRUE] /\ Exists(apiObj)
    BY <1>1, <1>4 DEF Write, Objects, Exists
  <2> QED
    BY <1>1, <1>2, <1>3, <1>4, <2>1
<1>5. CASE ~Exists(cache) /\ Pending([w.obj EXCEPT !.finalizer = TRUE], FALSE)
           /\ UNCHANGED <<apiObj, watch>>
  BY <1>1, <1>2, <1>3, <1>5
<1>6. CASE /\ Exists(cache) /\ watch = <<>>
           /\ Write([cache EXCEPT !.finalizer = TRUE]) /\ Pending(apiObj', TRUE)
  <2>1. cache = apiObj
    BY <1>1, <1>6, CacheIsCurrent
  <2>2. apiObj' = [apiObj EXCEPT !.finalizer = TRUE] /\ Write([apiObj EXCEPT !.finalizer = TRUE])
    BY <1>6, <2>1 DEF Write
  <2> QED
    BY <1>1, <1>2, <1>3, <1>6, <2>1, <2>2
<1>7. CASE Requeue /\ UNCHANGED <<apiObj, watch>>
  BY <1>1, <1>7 DEF Requeue
<1> QED
  <2> HIDE DEF Pending
  <2>1. \/ w.fresh /\ Write([apiObj EXCEPT !.finalizer = TRUE]) /\ Pending(apiObj', TRUE)
        \/ ~Exists(cache) /\ Pending([w.obj EXCEPT !.finalizer = TRUE], FALSE)
           /\ UNCHANGED <<apiObj, watch>>
        \/ /\ Exists(cache) /\ watch = <<>>
           /\ Write([cache EXCEPT !.finalizer = TRUE]) /\ Pending(apiObj', TRUE)
        \/ Requeue /\ UNCHANGED <<apiObj, watch>>
    BY Zenon DEF AddFinalizer, Pending
  <2> QED
    BY <1>4, <1>5, <1>6, <1>7, <2>1

\* removeFinalizer lets the resource go that is marked for deletion.
LEMMA RemoveFinalizerOutcome ==
  ASSUME BaseInv, Held, RemoveFinalizer
  PROVE  /\ UNCHANGED <<cache, sm, lives>> /\ w.pc = "removeFinalizer"
         /\ UNCHANGED <<apiObj, watch>> \/ (Write(Released(apiObj)) /\ apiObj' = Released(apiObj))
         /\ \/ w' = Idle
            \/ /\ w'.pc = "status" /\ w'.next = "done"
               /\ \E o \in {w.obj, cache, apiObj}, b \in BOOLEAN :
                    /\ Exists(o) /\ w'.obj = ClearOp([o EXCEPT !.finalizer = b])
                    /\ o = w.obj \/ o = cache \/ w.fresh
                    /\ w'.fresh => \/ o = w.obj /\ w.fresh /\ b = o.finalizer /\ UNCHANGED apiObj
                                   \/ apiObj' = [o EXCEPT !.finalizer = b]
<1> DEFINE Without(o) == [o EXCEPT !.finalizer = FALSE]
           Return(o, f) ==
             /\ w' = IF w.next = "clearOp" THEN Saving(ClearOp(o), f, "done") ELSE Idle
             /\ UNCHANGED queued
           Goal(o, b) ==
             /\ Exists(o) /\ w'.obj = ClearOp([o EXCEPT !.finalizer = b])
             /\ o = w.obj \/ o = cache \/ w.fresh
             /\ w'.fresh => \/ o = w.obj /\ w.fresh /\ b = o.finalizer /\ UNCHANGED apiObj
                            \/ apiObj' = [o EXCEPT !.finalizer = b]
<1>1. /\ UNCHANGED <<cache, sm, lives>> /\ w.pc = "removeFinalizer"
      /\ w.obj \in Objects /\ cache \in Objects /\ apiObj \in Objects
      /\ Exists(w.obj) /\ CacheFollows
      /\ w.fresh => w.obj = [apiObj EXCEPT !.status = w.obj.status]
  BY DEF RemoveFinalizer, BaseInv, BaseTypes, Held
<1>2. ASSUME NEW o, NEW f, Return(o, f)
      PROVE  \/ w' = Idle
             \/ w'.pc = "status" /\ w'.next = "done" /\ w'.obj = ClearOp(o) /\ w'.fresh = f
  BY <1>2 DEF Saving
<1>3. w.fresh => Exists(apiObj)
  BY <1>1 DEF Objects, Exists
<1>4. CASE ~w.obj.finalizer /\ Return(w.obj, w.fresh) /\ UNCHANGED <<apiObj, watch>>
  <2>1. w.obj = [w.obj EXCEPT !.finalizer = FALSE]
    BY <1>1, <1>4 DEF Objects
  <2>2. \/ w' = Idle
        \/ w'.pc = "status" /\ w'.next = "done" /\ Goal(w.obj, FALSE)
    <3>1. w.obj.finalizer = FALSE
      BY <1>1, <1>4 DEF Objects
    <3> QED
      BY <1>1, <1>2, <1>4, <2>1, <3>1
  <2> QED
    BY <1>1, <1>4, <2>2
<1>5. CASE w.fresh /\ Write(Released(apiObj)) /\ Return(Without(apiObj), Exists(apiObj'))
  <2>1. apiObj' = Released(apiObj)
    BY <1>5 DEF Write
  <2>2. Exists(apiObj') => apiObj' = Without(apiObj)
    BY <2>1 DEF Released, Exists, NoObject
  <2> HIDE DEF Return
  <2>3. \/ w' = Idle
        \/ w'.pc = "status" /\ w'.next = "done" /\ Goal(apiObj, FALSE)
    BY <1>1, <1>2, <1>3, <1>5, <2>2
  <2> QED
    BY <1>1, <1>5, <2>1, <2>3
<1>6. CASE ~Exists(cache) /\ Return(Without(w.obj), FALSE) /\ UNCHANGED <<apiObj, watch>>
  <2>1. \/ w' = Idle
        \/ w'.pc = "status" /\ w'.next = "done" /\ Goal(w.obj, FALSE)
    <3> HIDE DEF Return
    <3> QED
      BY <1>1, <1>2, <1>6
  <2> QED
    BY <1>1, <1>6, <2>1
<1>7. CASE /\ Exists(cache) /\ watch = <<>>
           /\ Write(Released(cache)) /\ Return(Without(cache), Exists(apiObj'))
  <2>1. cache = apiObj
    BY <1>1, <1>7, CacheIsCurrent
  <2>2. Write(Released(apiObj)) /\ apiObj' = Released(apiObj)
    BY <1>7, <2>1 DEF Write
  <2>3. Exists(apiObj') => apiObj' = Without(cache)
    BY <2>1, <2>2 DEF Released, Exists, NoObject
  <2> HIDE DEF Return
  <2>4. \/ w' = Idle
        \/ w'.pc = "status" /\ w'.next = "done" /\ Goal(cache, FALSE)
    BY <1>1, <1>2, <1>7, <2>3
  <2> QED
    BY <1>1, <2>2, <2>4
<1>8. CASE Requeue /\ UNCHANGED <<apiObj, watch>>
  BY <1>1, <1>8 DEF Requeue
<1> QED
  <2> HIDE DEF Return, Without
  <2>1. \/ ~w.obj.finalizer /\ Return(w.obj, w.fresh) /\ UNCHANGED <<apiObj, watch>>
        \/ w.fresh /\ Write(Released(apiObj)) /\ Return(Without(apiObj), Exists(apiObj'))
        \/ ~Exists(cache) /\ Return(Without(w.obj), FALSE) /\ UNCHANGED <<apiObj, watch>>
        \/ /\ Exists(cache) /\ watch = <<>>
           /\ Write(Released(cache)) /\ Return(Without(cache), Exists(apiObj'))
        \/ Requeue /\ UNCHANGED <<apiObj, watch>>
    BY Zenon DEF RemoveFinalizer, Return, Without
  <2> QED
    BY <1>4, <1>5, <1>6, <1>7, <1>8, <2>1

------------------------------------------------------------------------------
(* Steps that leave the copies true *)

\* A true resource stays true as long as SM remembers.
LEMMA CopiesStayTrue ==
  ASSUME BaseInv, Truthful, Remembers
  PROVE  /\ \A o \in Copies : o \in Objects /\ Sound(sm, o) /\ Sound(sm', o)
         /\ apiObj \in Copies /\ cache \in Copies /\ w.obj \in Copies
<1>1. \A o \in Copies : o \in Objects /\ Sound(sm, o)
  BY CopiesType DEF BaseInv, Truthful, Sound
<1> QED
  BY <1>1, CopiesType DEF BaseInv, Sound, Remembers, Objects

\* The worker gets a copy, and the API server a resource, that are true.
KeepsTruth == Sound(sm', apiObj') /\ Sound(sm', w'.obj) /\ Held'

\* A worker that carries on with a copy that is true has a true one.
LEMMA CarrierIsTrue ==
  ASSUME NEW o \in Objects, NEW f, Exists(o), o.name \in Names, Carries(w', o, f),
         Sound(sm', apiObj'), f => o = [apiObj' EXCEPT !.status = o.status]
  PROVE  KeepsTruth
<1>1. CASE w' = Idle
  BY <1>1, NothingIsSound DEF Idle, KeepsTruth, Held
<1>2. CASE /\ w'.fresh = f /\ w'.obj \in Objects
           /\ w'.obj = [o EXCEPT !.status = w'.obj.status]
           /\ Recorded(sm', w'.obj.status)
  <2>1. w'.obj.uid = o.uid /\ w'.obj.name = o.name
    BY <1>2 DEF Objects
  <2>2. f => w'.obj = [apiObj' EXCEPT !.status = w'.obj.status]
    BY <1>2
  <2> QED
    BY <1>2, <2>1, <2>2 DEF KeepsTruth, Held, Sound, Exists
<1> QED
  BY <1>1, <1>2 DEF Carries

\* To follow a copy is a way to carry on with it.
LEMMA FollowerCarries ==
  ASSUME NEW o \in Objects, NEW f, NEW x, Follows(x, o, f), Recorded(sm', o.status)
  PROVE  Carries(x, o, f)
BY DEF Follows, Carries, Restates, Recorded

\* What the copies say is true after a step that makes up no other copy.
LEMMA TruthKept ==
  ASSUME BaseInv, Truthful, Remembers, KeepsTruth, SMInv', RequestsNamed',
         Copies' \subseteq Copies \cup {apiObj', w'.obj}
  PROVE  Truthful'
<1>1. \A o \in Copies' : Sound(sm', o)
  BY CopiesStayTrue DEF KeepsTruth
<1> QED
  BY <1>1 DEF Truthful, Sound, SMInv

\* addFinalizer writes and leaves what is true ...
LEMMA AddFinalizerIsTrue ==
  ASSUME BaseInv, Truthful, Held, Remembers, AddFinalizer
  PROVE  KeepsTruth
<1>1. /\ w.pc = "addFinalizer" /\ Exists(w.obj) /\ w.obj \in Objects /\ apiObj \in Objects
      /\ Sound(sm', apiObj) /\ Sound(sm', w.obj)
  BY AddFinalizerOutcome, CopiesStayTrue DEF Held
<1>2. CASE w' = Idle /\ UNCHANGED apiObj
  BY <1>1, <1>2, NothingIsSound DEF KeepsTruth, Held, Idle
<1>3. CASE /\ w'.pc = "status" /\ apiObj' = [apiObj EXCEPT !.finalizer = TRUE]
           /\ Restates(w'.obj, apiObj') /\ w'.fresh = TRUE /\ Exists(apiObj)
  <2>1. apiObj' \in Objects /\ Sound(sm', apiObj')
    BY <1>1, <1>3, RewrittenIsSound
  <2>2. Exists(apiObj')
    BY <1>1, <1>3 DEF Exists, Objects
  <2>3. apiObj' = [apiObj' EXCEPT !.status = apiObj'.status]
    BY <2>1 DEF Objects
  <2>4. Carries(w', apiObj', TRUE)
    BY <1>3, <2>1, FollowerCarries DEF Follows, Sound
  <2> QED
    BY <2>1, <2>2, <2>3, <2>4, CarrierIsTrue DEF Sound
<1>4. CASE /\ w'.pc = "status" /\ UNCHANGED <<apiObj, watch>> /\ w'.fresh = FALSE
           /\ Restates(w'.obj, [w.obj EXCEPT !.finalizer = TRUE])
  <2> DEFINE o == [w.obj EXCEPT !.finalizer = TRUE]
  <2>1. o \in Objects /\ Sound(sm', o)
    BY <1>1, RewrittenIsSound
  <2>2. Exists(o)
    BY <1>1 DEF Exists, Objects
  <2>3. Follows(w', o, FALSE) /\ Sound(sm', apiObj')
    BY <1>1, <1>4 DEF Follows
  <2> HIDE DEF o
  <2>4. Carries(w', o, FALSE)
    BY <2>1, <2>3, FollowerCarries DEF Sound
  <2> QED
    BY <2>1, <2>2, <2>3, <2>4, CarrierIsTrue DEF Sound
<1> QED
  BY <1>2, <1>3, <1>4, AddFinalizerOutcome

\* ... and removeFinalizer.
LEMMA RemoveFinalizerIsTrue ==
  ASSUME BaseInv, Truthful, Held, Remembers, RemoveFinalizer
  PROVE  KeepsTruth
<1>1. /\ w.obj \in Objects /\ apiObj \in Objects /\ cache \in Objects
      /\ Sound(sm', apiObj) /\ Sound(sm', w.obj) /\ Sound(sm', cache) 
      /\ w.fresh => w.obj = [apiObj EXCEPT !.status = w.obj.status]
  BY CopiesStayTrue DEF Held
<1>2. Sound(sm', apiObj')
  <2>1. apiObj' \in {apiObj, NoObject, [apiObj EXCEPT !.finalizer = FALSE]}
    BY RemoveFinalizerOutcome DEF Released
  <2>2. \A b \in BOOLEAN : Sound(sm', [apiObj EXCEPT !.finalizer = b])
    BY <1>1, RewrittenIsSound
  <2> QED
    BY <1>1, <2>1, <2>2, NothingIsSound
<1>3. CASE w' = Idle
  BY <1>2, <1>3, NothingIsSound DEF KeepsTruth, Held, Idle
<1>4. ASSUME NEW o \in {w.obj, cache, apiObj}, NEW b \in BOOLEAN, w'.pc = "status", Exists(o),
             w'.obj = ClearOp([o EXCEPT !.finalizer = b]),
             w'.fresh => \/ o = w.obj /\ w.fresh /\ b = o.finalizer /\ UNCHANGED apiObj
                         \/ apiObj' = [o EXCEPT !.finalizer = b]
      PROVE  KeepsTruth
  <2> DEFINE p == [o EXCEPT !.finalizer = b]
  <2>1. o \in Objects /\ Sound(sm', o)
    BY <1>1
  <2>2. p \in Objects /\ Sound(sm', p) /\ Exists(p)
    <3>1. Exists(p)
      BY <1>4, <2>1 DEF Exists, Objects
    <3> QED
      BY <2>1, <3>1, RewrittenIsSound
  <2>3. /\ ClearOp(p) \in Objects /\ Sound(sm', ClearOp(p)) /\ Exists(ClearOp(p))
        /\ ClearOp(p) = [p EXCEPT !.status = ClearOp(p).status]
    <3> HIDE DEF p
    <3>1. ClearOp(p) \in Objects /\ Sound(sm', ClearOp(p))
      BY <2>2, RewrittenIsSound
    <3>2. /\ Exists(ClearOp(p))
          /\ ClearOp(p) = [p EXCEPT !.status = ClearOp(p).status]
      BY <2>2 DEF ClearOp, Exists, Objects
    <3> QED
      BY <3>1, <3>2
  <2>4. w'.fresh => w'.obj = [apiObj' EXCEPT !.status = w'.obj.status]
    <3>1. CASE apiObj' = p
      BY <1>4, <2>3, <3>1
    <3>2. CASE w'.fresh /\ o = w.obj /\ w.fresh /\ b = o.finalizer /\ UNCHANGED apiObj
      <4>1. p = o
        BY <2>1, <3>2 DEF Objects
      <4>2. p = [apiObj EXCEPT !.status = p.status]
        BY <1>1, <3>2, <4>1
      <4>3. ClearOp(p) = [apiObj EXCEPT !.status = ClearOp(p).status]
        <5> HIDE DEF p
        <5> QED
          BY <1>1, <2>3, <4>2 DEF Objects
      <4> QED
        BY <1>4, <3>2, <4>3
    <3> QED
      BY <1>4, <3>1, <3>2
  <2> QED
    BY <1>2, <1>4, <2>3, <2>4 DEF KeepsTruth, Held
<1> QED
  BY <1>3, <1>4, RemoveFinalizerOutcome

\* A step of somebody else keeps the copies true if it writes nothing false.
LEMMA OthersAreTrue ==
  ASSUME BaseInv, Truthful, Held, Remembers, Sound(sm', apiObj'),
         \/ UNCHANGED <<w, apiObj>>
         \/ w'.obj = w.obj /\ w'.pc = w.pc /\ w'.fresh = FALSE
         \/ w' = Idle
  PROVE  KeepsTruth
<1>1. Sound(sm', w.obj)
  BY CopiesStayTrue
<1>2. CASE UNCHANGED <<w, apiObj>>
  BY <1>1, <1>2 DEF KeepsTruth, Held
<1>3. CASE w'.obj = w.obj /\ w'.pc = w.pc /\ w'.fresh = FALSE
  BY <1>1, <1>3 DEF KeepsTruth, Held
<1>4. CASE w' = Idle
  BY <1>4, NothingIsSound DEF KeepsTruth, Held, Idle
<1> QED
  BY <1>2, <1>3, <1>4

\* What a user writes has a name.
LEMMA UserIsTrue ==
  ASSUME BaseInv, Truthful, Held, Remembers,
         NEW name \in Names, NEW secretName \in SecretNames \cup {NoName},
         UserDelete \/ UserCreate(name, secretName) \/ UserEdit(name, secretName),
         w'.obj = w.obj /\ w'.pc = w.pc /\ w'.fresh = FALSE
  PROVE  KeepsTruth
<1>1. apiObj \in Objects /\ Sound(sm', apiObj)
  BY CopiesStayTrue
<1>2. CASE UserDelete
  <2>1. apiObj' \in {NoObject, [apiObj EXCEPT !.deleting = TRUE]}
    BY <1>2 DEF UserDelete, Write
  <2>2. Sound(sm', [apiObj EXCEPT !.deleting = TRUE])
    BY <1>1 DEF Sound, Objects, Exists
  <2> QED
    BY <2>1, <2>2, OthersAreTrue, NothingIsSound
<1>3. CASE UserCreate(name, secretName)
  <2>1. apiObj' = [NoObject EXCEPT !.uid = lives + 1, !.gen = 1, !.name = name,
                                   !.secretName = secretName]
    BY <1>3 DEF UserCreate, Write
  <2>2. apiObj'.name = name /\ apiObj'.status = EmptyStatus
    BY <2>1 DEF NoObject
  <2>3. Sound(sm', apiObj')
    BY <2>2 DEF Sound, Recorded, EmptyStatus
  <2> QED
    BY <2>3, OthersAreTrue
<1>4. CASE UserEdit(name, secretName)
  <2>1. apiObj' = [apiObj EXCEPT !.gen = @ + 1, !.name = name, !.secretName = secretName]
    BY <1>4 DEF UserEdit, Write
  <2>2. apiObj'.name = name /\ apiObj'.status = apiObj.status
    BY <1>1, <2>1 DEF Objects
  <2>3. Sound(sm', apiObj')
    BY <1>1, <2>2 DEF Sound
  <2> QED
    BY <2>3, OthersAreTrue
<1> QED
  BY <1>2, <1>3, <1>4

\* What a status says stays true when SM takes a step.
LEMMA AdvanceIsRemembered ==
  ASSUME sm \in [IDs -> Things], NEW i \in IDs, Advanced(i)
  PROVE  Remembers /\ Used \subseteq Used'
<1>1. /\ Used \subseteq Used'
      /\ \A j \in IDs : \A k \in DOMAIN sm[j].ops :
           k \in DOMAIN sm'[j].ops /\ sm'[j].ops[k].type = sm[j].ops[k].type
  BY RecordsStay
<1>2. ASSUME NEW st \in Statuses, Recorded(sm, st) PROVE Recorded(sm', st)
  <2>1. st.id # NoId => st.id \in Used
    BY <1>2 DEF Recorded, Statuses, Used, FreeIDs
  <2>2. st.op # NoOp => st.op.id \in IDs
    BY DEF Statuses, OpRefs
  <2>3. st.id # NoId => sm'[st.id].ops # <<>>
    BY <1>1, <2>1 DEF Used, FreeIDs
  <2> QED
    BY <1>1, <1>2, <2>2, <2>3 DEF Recorded
<1> QED
  BY <1>1, <1>2 DEF Remembers
=============================================================================
