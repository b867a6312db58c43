------------------------ MODULE ManagedInstance_proofs ------------------------
(***************************************************************************)
(* ServiceInstanceController implements ManagedResource, for every value   *)
(* of its constants that leaves it one incarnation of the resource and one *)
(* external name, with an SM that keeps what it failed to create.          *)
(*                                                                         *)
(* First, without these restrictions, that what the copies of the resource *)
(* say is true of SM (TInv): an id is one SM assigned, an operation is one *)
(* SM recorded.  Then, for one name, that there is one instance (Single).  *)
(* The order in which an incarnation comes and goes (OneLife), and the     *)
(* promise, follow from ManagedResource_proofs once every step is shown to *)
(* be one the lemmas there are about (OneStep).                            *)
(*                                                                         *)
(* At last what is left to do and what the status says of it (FInv, PInv), *)
(* and that nothing but a refusal or a failure of SM is final (UInv).      *)
(***************************************************************************)
EXTENDS ServiceInstanceController_proofs, FiniteSetTheorems

\* The calls of this controller.
Calls == [create |-> "provision", changes |-> {"update"}, remove |-> "deprovision",
          creates |-> Creates, removes |-> Removes]

------------------------------------------------------------------------------
(* SM *)

\* They are told from each other, and from all that is no call.
LEMMA CallsWellFormed == WellFormed(Calls)
  BY DEF WellFormed, Calls, Creates, Removes

\* Every step of the system is a request or SM's own.
LEMMA EverythingRequested == [Next]_vars => RequestedBy(Calls)
<1> SUFFICES ASSUME [Next]_vars PROVE RequestedBy(Calls)
  OBVIOUS
<1>1. CASE createInstance
  BY <1>1, Zenon DEF createInstance, RequestedBy, Calls
<1>2. CASE updateInstance
  <2>1. w.pc \in Calls.changes
    BY <1>2 DEF updateInstance, Calls
  <2>2. UNCHANGED sm \/ \E state \in {"SUCCEEDED", "IN_PROGRESS"} :
                           SMPatch(w.obj.status.id, RequestOf(w.obj), state)
    BY <1>2, Zenon DEF updateInstance
  <2> QED
    BY <2>1, <2>2 DEF RequestedBy
<1>3. CASE Deprovision
  BY <1>3, Zenon DEF Deprovision, RequestedBy, Calls
<1>4. CASE ServiceManager
  BY <1>4 DEF ServiceManager, SMComplete, RequestedBy
<1>5. CASE Reconcile \/ StatusUpdate \/ StatusRetry \/ AddFinalizer \/ RemoveFinalizer
           \/ Poll \/ Recover \/ RecoverForDelete
  BY <1>5 DEF RequestedBy, Reconcile, ReconcileWith, StatusUpdate, StatusUpdateThen, StatusRetry,
     StatusRetryThen, AddFinalizer, RemoveFinalizer, Poll, Recover, RecoverForDelete
<1>6. CASE User \/ Deliver \/ Resync \/ Restart \/ UNCHANGED vars
  BY <1>6 DEF RequestedBy, User, UserDelete, UserCreate, UserEdit, Deliver, Resync, Restart, vars,
     baseVars
<1> QED
  BY <1>1, <1>2, <1>3, <1>4, <1>5, <1>6 DEF Next, Worker

\* What the operator asks SM for, it asks for by a name and an id that SM knows.
LEMMA RequestIsNamed ==
  ASSUME TInv, w.pc # "idle"
  PROVE  /\ SMInv /\ RequestsNamed
         /\ w.obj \in Objects /\ w.obj \in Copies /\ Exists(w.obj) /\ w.obj.name \in Names
         /\ RequestOf(w.obj) \in Requests /\ RequestOf(w.obj).name \in Names
         /\ w.obj.status \in Statuses /\ Recorded(sm, w.obj.status)
         /\ w.obj.status.id # NoId => w.obj.status.id \in Used
         /\ w.pc \in {"update", "deprovision"} => w.obj.status.id # NoId
<1>1. BaseInv /\ Truthful /\ Held /\ CallsAreMeant
  BY Parts DEF TInv
<1>2. w.pc \in {"update", "deprovision"} => w.obj.status.id # NoId
  BY <1>1 DEF CallsAreMeant
<1> QED
  BY <1>1, <1>2, AskedByName DEF Copies

\* The base of the invariant is that of BaseReconciler_proofs, and the worker's copy is true.
LEMMA KnownParts ==
  ASSUME TInv
  PROVE  /\ BaseInv /\ Truthful /\ Held
         /\ w.pc # "idle" /\ Remembers => w.obj \in Objects /\ Recorded(sm', w.obj.status)
<1>1. BaseInv /\ Truthful /\ Held
  BY Parts DEF TInv
<1>2. w.pc # "idle" /\ Remembers => w.obj \in Objects /\ Recorded(sm', w.obj.status)
  BY RequestIsNamed DEF Remembers
<1> QED
  BY <1>1, <1>2

\* Every step is one ManagedResource_proofs knows the requests of.
LEMMA StepIsAsked ==
  ASSUME TInv, [Next]_vars
  PROVE  Asked(Calls) /\ SMInv' /\ RequestsNamed' /\ Remembers
<1>1. MeansIt(Calls)
  BY DEF MeansIt, Calls, TInv, IInv, CallsAreMeant
<1>2. Asked(Calls)
  BY <1>1, KnownParts, CallsWellFormed, EverythingRequested DEF Asked
<1> QED
  BY <1>2, RecordsGrow

------------------------------------------------------------------------------
(* The calls to SM *)

\* A call to SM writes nothing to the API server.
LEMMA CallsAreQuiet ==
  Poll \/ Recover \/ createInstance \/ updateInstance \/ RecoverForDelete \/ Deprovision
    => UNCHANGED <<apiObj, cache, watch, lives>> /\ w.pc # "idle"
  BY DEF Poll, Recover, createInstance, updateInstance, RecoverForDelete, Deprovision

\* poll leads to the removal of the finalizer only after a deletion that succeeded.
LEMMA PollOutcome ==
  ASSUME TInv, Remembers, Poll
  PROVE  /\ Computed
         /\ \/ Quiet
            \/ w'.pc = "removeFinalizer"
               /\ \E i \in Used : ~sm[i].alive /\ \E d \in Ops(i) : d.type = "DELETE"
<1> DEFINE op == w.obj.status.op
           failed == setFailureConditions(op.type, w.obj)
           succeeded == setSuccessConditions(op.type, w.obj)
           unread == [w.obj EXCEPT !.status = freshStatus(w.obj, failed.status.cond)]
           Goal == /\ Computed
                   /\ \/ Quiet
                      \/ w'.pc = "removeFinalizer"
                         /\ \E i \in Used : ~sm[i].alive /\ \E d \in Ops(i) : d.type = "DELETE"
<1>1. /\ w.pc = "poll" /\ UNCHANGED sm
      /\ w.obj \in Objects /\ w.obj.status \in Statuses /\ Recorded(sm, w.obj.status)
  BY RequestIsNamed DEF Poll
<1>2. op \in OpRefs /\ op # NoOp /\ op.type \in OperationCategories /\ op.id \in IDs
  BY <1>1 DEF TInv, IInv, CallsAreMeant, Polling, Statuses, OpRefs
<1>3. Restates(failed, w.obj) /\ Restates(succeeded, w.obj)
  BY <1>1, <1>2, SettersRestate
<1>4. ASSUME NEW o, Restates(o, w.obj), NEW next \in {"done", "requeue"}, Save(ClearOp(o), next)
      PROVE  Goal
  <2>1. ClearOp(o) \in Objects /\ ClearOp(o) = [o EXCEPT !.status = ClearOp(o).status]
        /\ ClearOp(o).status.id = o.status.id /\ ClearOp(o).status.op = NoOp
    BY <1>4 DEF ClearOp, Restates, Objects, Statuses, OpRefs
  <2>2. ClearOp(o) = [w.obj EXCEPT !.status = ClearOp(o).status]
    BY <1>1, <1>4, <2>1 DEF Restates, Objects
  <2>3. Recorded(sm', ClearOp(o).status)
    BY <1>1, <1>4, <2>1 DEF Recorded, Restates
  <2> QED
    BY <1>4, <2>1, <2>2, <2>3, SaveComputes DEF Quiet
<1>5. ASSUME Save(unread, "requeue") PROVE Goal
  <2>1. failed.status.cond \in Conditions
    BY <1>1, <1>3 DEF Restates, Objects, Statuses
  <2> DEFINE st == freshStatus(w.obj, failed.status.cond)
  <2>2. st \in Statuses /\ st.id \in {w.obj.status.id, NoId} /\ st.op = NoOp
    BY <1>1, <2>1 DEF freshStatus, EmptyStatus, Statuses, OpRefs
  <2>3. Recorded(sm', st)
    BY <1>1, <2>2 DEF Recorded
  <2> HIDE DEF st
  <2>4. unread \in Objects /\ unread = [w.obj EXCEPT !.status = unread.status]
        /\ unread.status = st
    BY <1>1, <2>2 DEF Objects, st
  <2> HIDE DEF unread
  <2> QED
    BY <1>5, <2>3, <2>4, SaveComputes DEF Quiet
<1>6. ASSUME sm[op.id].ops[op.n].state = "SUCCEEDED", op.type = "DELETE",
             w' = [At("removeFinalizer", succeeded, w.fresh) EXCEPT !.next = "clearOp"]
      PROVE  Goal
  <2>1. op.n \in DOMAIN sm[op.id].ops /\ sm[op.id].ops[op.n].type = "DELETE"
    BY <1>1, <1>2, <1>6 DEF Recorded
  <2>2. op.id \in Used /\ sm[op.id].ops[op.n] \in Ops(op.id)
    <3> HIDE DEF op
    <3>1. sm[op.id].ops # <<>>
      BY <2>1
    <3> QED
      BY <1>2, <2>1, <3>1 DEF Used, FreeIDs, Ops
  <2>3. ~sm[op.id].alive
    BY <1>2, <1>6, <2>1, <2>2 DEF TInv, Truthful, RemovedIsGone
  <2>4. Recorded(sm', succeeded.status)
    BY <1>1, <1>3 DEF Recorded, Restates
  <2> HIDE DEF op, succeeded
  <2>5. w'.pc = "removeFinalizer" /\ w'.obj = succeeded /\ w'.fresh = w.fresh
    BY <1>6 DEF At
  <2> QED
    BY <1>3, <2>1, <2>2, <2>3, <2>4, <2>5 DEF Computed, Carries, Restates
<1>7. ASSUME Requeue PROVE Goal
  BY <1>7 DEF Requeue, Computed, Carries, Quiet, Idle
<1> HIDE DEF Goal, failed, succeeded, unread
<1>8. \/ Save(unread, "requeue")
      \/ Requeue
      \/ Save(ClearOp(failed), "requeue") \/ Save(ClearOp(failed), "done")
      \/ Save(ClearOp(succeeded), "done")
      \/ /\ sm[op.id].ops[op.n].state = "SUCCEEDED" /\ op.type = "DELETE"
         /\ w' = [At("removeFinalizer", succeeded, w.fresh) EXCEPT !.next = "clearOp"]
  BY DEF Poll, failed, succeeded, unread
<1> QED
  BY <1>3, <1>4, <1>5, <1>6, <1>7, <1>8 DEF Goal

\* What SM says of an instance is true of it.
LEMMA ResyncedIsTrue ==
  ASSUME TInv, w.pc = "recover", NEW i \in IDs, sm[i].alive, NEW o, o = w.obj, UNCHANGED sm,
         Save(resyncInstanceStatus(o, i), "done")
  PROVE  Computed /\ Quiet
<1> DEFINE found == [o EXCEPT !.status.id = i, !.status.op = NoOp,
                              !.status.obs = ResyncedGeneration(o)]
           n == Len(sm[i].ops)
           op == [type |-> Last(i).type, id |-> i, n |-> n]
<1>1. o \in Objects /\ SMInv
  BY RequestIsNamed
<1>2. sm[i].ops \in Seq(Operations) /\ sm[i].ops # <<>>
  BY <1>1 DEF SMInv, Things, LiveIsRecorded
<1>3. /\ n \in Nat /\ n \in DOMAIN sm[i].ops /\ Last(i) = sm[i].ops[n]
      /\ Last(i) \in Operations
  BY <1>2 DEF Last
<1>4. Last(i).type \in OperationCategories /\ Last(i).state \in OperationStates
  BY <1>3 DEF Operations
<1>5. /\ found \in Objects /\ found = [o EXCEPT !.status = found.status]
      /\ found.status.id = i /\ found.status.op = NoOp
  BY <1>1 DEF Objects, Statuses, OpRefs, ResyncedGeneration
<1> HIDE DEF found
<1>6. ASSUME NEW p \in Objects, p = [o EXCEPT !.status = p.status], Recorded(sm', p.status),
             NEW x, Restates(x, p), Save(x, "done")
      PROVE  Computed /\ Quiet
  <2>1. x \in Objects /\ x = [o EXCEPT !.status = x.status] /\ Recorded(sm', x.status)
    <3>1. x \in Objects /\ x.status.id = p.status.id /\ x.status.op = p.status.op
          /\ x = [p EXCEPT !.status = x.status]
      BY <1>6 DEF Restates
    <3>2. x = [o EXCEPT !.status = x.status]
      BY <1>1, <1>6, <3>1 DEF Objects
    <3> QED
      BY <1>6, <3>1, <3>2 DEF Recorded
  <2> QED
    BY <1>6, <2>1, SaveComputes DEF Quiet
<1>7. Recorded(sm', found.status)
  BY <1>2, <1>5 DEF Recorded
<1>8. CASE \/ resyncInstanceStatus(o, i) = setSuccessConditions(Last(i).type, found)
           \/ resyncInstanceStatus(o, i) = setFailureConditions(Last(i).type, found)
  BY <1>4, <1>5, <1>6, <1>7, <1>8, SettersRestate
<1>9. CASE resyncInstanceStatus(o, i) = InOperation(Last(i).type, i, n, found)
  <2> DEFINE q == [found EXCEPT !.status.id = i, !.status.op = op]
  <2>1. op \in OpRefs /\ op.id = i /\ op.n = n /\ op.type = Last(i).type
    BY <1>3, <1>4 DEF OpRefs
  <2> HIDE DEF op
  <2>2. q \in Objects /\ q = [found EXCEPT !.status = q.status]
        /\ q.status.id = i /\ q.status.op = op
    BY <1>5, <2>1 DEF Objects, Statuses
  <2>3. q = [o EXCEPT !.status = q.status]
    BY <1>1, <1>5, <2>2 DEF Objects
  <2>4. Recorded(sm', q.status)
    BY <1>2, <1>3, <2>1, <2>2 DEF Recorded
  <2>5. InOperation(Last(i).type, i, n, found) = setInProgressCondition(Last(i).type, q)
    BY DEF InOperation, op, q
  <2> HIDE DEF q
  <2> QED
    BY <1>4, <1>6, <1>9, <2>2, <2>3, <2>4, <2>5, SettersRestate
<1> QED
  BY <1>4, <1>8, <1>9 DEF resyncInstanceStatus, OperationStates, found

\* Recovery leads to a creation only if SM has nothing of that name.
LEMMA RecoverOutcome ==
  ASSUME TInv, Remembers, Recover
  PROVE  Computed /\ (Quiet \/ (w'.pc = "provision" /\ Matches(w.obj.name) = {}))
<1>1. w.pc = "recover" /\ UNCHANGED sm /\ Recorded(sm', w.obj.status) /\ w.obj \in Objects
  BY RequestIsNamed DEF Recover
<1>2. CASE Save(setFailureConditions("CREATE", w.obj), "requeue")
  BY <1>1, <1>2, KnownParts, AnswersComputed DEF OperationCategories
<1>3. ASSUME NEW i \in Matches(w.obj.name), Save(resyncInstanceStatus(w.obj, i), "done")
      PROVE  Computed /\ Quiet
  BY <1>1, <1>3, ResyncedIsTrue DEF Matches
<1>4. CASE Matches(w.obj.name) = {} /\ Goto("provision", w.obj)
  BY <1>1, <1>4 DEF Goto, At, Computed, Carries, Objects
<1> QED
  BY <1>2, <1>3, <1>4 DEF Recover

\* Recovery leads to the removal of the finalizer only if SM has nothing of that name.
LEMMA RecoverForDeleteOutcome ==
  ASSUME TInv, Remembers, RecoverForDelete
  PROVE  Computed /\ (Quiet \/ (w'.pc = "removeFinalizer" /\ Matches(w.obj.name) = {}))
<1>1. /\ w.pc = "recoverForDelete" /\ UNCHANGED sm /\ Recorded(sm', w.obj.status)
      /\ w.obj \in Objects /\ SMInv
  BY RequestIsNamed DEF RecoverForDelete
<1>2. CASE Requeue
  BY <1>2 DEF Requeue, Computed, Carries, Quiet, Idle
<1>3. ASSUME NEW i \in Matches(w.obj.name),
             Save(setInProgressCondition("DELETE", [w.obj EXCEPT !.status.id = i]), "done")
      PROVE  Computed /\ Quiet
  <2>1. i \in IDs /\ sm'[i].ops # <<>> /\ 0 \in Nat
    BY <1>1 DEF Matches, SMInv, LiveIsRecorded
  <2> QED
    BY <1>1, <1>3, <2>1, KnownParts, AcceptedComputed DEF OperationCategories, Quiet
<1>4. CASE Matches(w.obj.name) = {} /\ Goto("removeFinalizer", w.obj)
  BY <1>1, <1>4 DEF Goto, At, Computed, Carries, Objects
<1> QED
  BY <1>2, <1>3, <1>4 DEF RecoverForDelete

\* A creation leads to a status update and nothing else.
LEMMA createInstanceOutcome ==
  ASSUME TInv, Remembers, createInstance
  PROVE  Computed /\ Quiet
<1>1. /\ w.pc = "provision" /\ "CREATE" \in OperationCategories
      /\ RequestOf(w.obj) \in Requests /\ sm \in [IDs -> Things] /\ LiveIsRecorded
  BY RequestIsNamed DEF createInstance, OperationCategories, SMInv
<1>2. ASSUME NEW i \in FreeIDs, NEW state \in {"SUCCEEDED", "IN_PROGRESS"},
             SMCreate(i, RequestOf(w.obj), state),
             \/ Save(setSuccessConditions("CREATE", [w.obj EXCEPT !.status.id = i]), "done")
             \/ Save(InOperation("CREATE", i, 1, w.obj), "requeue")
      PROVE  Computed /\ Quiet
  <2>1. i \in IDs /\ 1 \in DOMAIN sm'[i].ops /\ sm'[i].ops[1].type = "CREATE"
    BY <1>1, <1>2, CreateFacts DEF FreeIDs
  <2>2. sm'[i].ops # <<>> /\ 1 \in Nat /\ i \in IDs \cup {NoId}
    BY <2>1
  <2> QED
    BY <1>1, <1>2, <2>1, <2>2, KnownParts, AcceptedComputed DEF Quiet
<1>3. Transient("CREATE") \/ NonTransient("CREATE") => Computed /\ Quiet
  BY <1>1, KnownParts, AnswersComputed
<1> QED
  BY <1>2, <1>3 DEF createInstance, Unanswered

\* Nor does an update.
LEMMA updateInstanceOutcome ==
  ASSUME TInv, Remembers, updateInstance
  PROVE  Computed /\ Quiet
<1>1. /\ w.pc = "update" /\ "UPDATE" \in OperationCategories
      /\ w.obj \in Objects /\ w.obj.status \in Statuses
      /\ w.obj.status.id \in IDs /\ Recorded(sm, w.obj.status)
      /\ RequestOf(w.obj) \in Requests /\ sm \in [IDs -> Things] /\ LiveIsRecorded
  BY RequestIsNamed DEF updateInstance, OperationCategories, SMInv, Used
<1>2. CASE Save(setSuccessConditions("UPDATE", w.obj), "done")
  <2>1. Restates(setSuccessConditions("UPDATE", w.obj), w.obj) /\ Recorded(sm', w.obj.status)
    BY <1>1, SettersRestate DEF Remembers
  <2>2. /\ setSuccessConditions("UPDATE", w.obj) \in Objects
        /\ setSuccessConditions("UPDATE", w.obj)
             = [w.obj EXCEPT !.status = setSuccessConditions("UPDATE", w.obj).status]
        /\ Recorded(sm', setSuccessConditions("UPDATE", w.obj).status)
    BY <2>1 DEF Restates, Recorded
  <2> QED
    BY <1>2, <2>2, SaveComputes DEF Quiet
<1>3. ASSUME NEW i \in IDs, i = w.obj.status.id, SMPatch(i, RequestOf(w.obj), "IN_PROGRESS"),
             Save(InOperation("UPDATE", i, Len(sm[i].ops) + 1, w.obj), "requeue")
      PROVE  Computed /\ Quiet
  <2>1. /\ Len(sm[i].ops) + 1 \in DOMAIN sm'[i].ops
        /\ sm'[i].ops[Len(sm[i].ops) + 1].type = "UPDATE"
        /\ sm' \in [IDs -> Things]
    BY <1>1, <1>3, PatchFacts DEF Advanced
  <2>2. Len(sm[i].ops) + 1 \in Nat /\ sm'[i].ops # <<>> /\ i \in IDs \cup {NoId}
    BY <2>1 DEF Things
  <2> QED
    BY <1>1, <1>3, <2>1, <2>2, KnownParts, AcceptedComputed DEF Quiet
<1>4. Transient("UPDATE") \/ NonTransient("UPDATE") => Computed /\ Quiet
  BY <1>1, KnownParts, AnswersComputed
<1> QED
  BY <1>1, <1>2, <1>3, <1>4 DEF updateInstance, Unanswered

\* A deletion leads to the removal of the finalizer only when SM did it at once.
LEMMA DeprovisionOutcome ==
  ASSUME TInv, Remembers, Deprovision
  PROVE  /\ Computed
         /\ \/ Quiet
            \/ w'.pc = "status" /\ w'.next = "finalize" /\ SMDeleteNow(w.obj.status.id)
<1>1. /\ w.pc = "deprovision" /\ "DELETE" \in OperationCategories
      /\ w.obj \in Objects /\ w.obj.status \in Statuses
      /\ w.obj.status.id \in IDs /\ sm \in [IDs -> Things] /\ LiveIsRecorded
  BY RequestIsNamed DEF Deprovision, OperationCategories, SMInv, Used
<1>2. CASE /\ SMDeleteNow(w.obj.status.id)
           /\ Save(setSuccessConditions("DELETE", [w.obj EXCEPT !.status.id = NoId]), "finalize")
  <2>1. 0 \in Nat /\ NoId \in IDs \cup {NoId}
    OBVIOUS
  <2> QED
    BY <1>1, <1>2, <2>1, KnownParts, AcceptedComputed
<1>3. ASSUME NEW i \in IDs, i = w.obj.status.id, SMDeleteAsync(i),
             Save(InOperation("DELETE", i, Len(sm[i].ops) + 1, w.obj), "requeue")
      PROVE  Computed /\ Quiet
  <2>1. /\ Len(sm[i].ops) + 1 \in DOMAIN sm'[i].ops
        /\ sm'[i].ops[Len(sm[i].ops) + 1].type = "DELETE"
        /\ sm' \in [IDs -> Things]
    BY <1>1, <1>3, DeleteAsyncFacts DEF Advanced
  <2>2. Len(sm[i].ops) + 1 \in Nat /\ sm'[i].ops # <<>> /\ i \in IDs \cup {NoId}
    BY <2>1 DEF Things
  <2> QED
    BY <1>1, <1>3, <2>1, <2>2, KnownParts, AcceptedComputed DEF Quiet
<1>4. Transient("DELETE") \/ Save(setFailureConditions("DELETE", w.obj), "requeue")
        => Computed /\ Quiet
  BY <1>1, KnownParts, AnswersComputed
<1> QED
  BY <1>1, <1>2, <1>3, <1>4 DEF Deprovision, UnansweredDelete

------------------------------------------------------------------------------
(* What the worker goes on with *)

\* What follows init follows the copy: an instance is created or updated.
LEMMA ObserveSpecGoes ==
  ASSUME NEW o \in Objects, NEW f
  PROVE  /\ Follows(ObserveSpec(o, f), o, f)
         /\ ObserveSpec(o, f) = Idle \/ ObserveSpec(o, f).pc \in {"recover", "update"}
  BY RestatesSelf DEF ObserveSpec, Follows, At

\* What Reconcile does first follows from the copy in the cache.
LEMMA DispatchGoes ==
  ASSUME NEW o \in Objects, NEW f, NEW x, x = Dispatch(o, f)
  PROVE  /\ Follows(x, o, f)
         /\ \/ x = Idle \/ x.pc = "poll"
            \/ x.pc \in {"recoverForDelete", "deprovision"} /\ o.deleting
            \/ x.pc = "addFinalizer" /\ ~o.deleting
            \/ x.pc \in {"recover", "update"} /\ ~o.deleting /\ o.finalizer
<1>1. o.deleting \in BOOLEAN /\ o.finalizer \in BOOLEAN
  BY DEF Objects
<1>2. CASE x = At("poll", o, f)
  BY <1>2, RestatesSelf DEF At, Follows
<1>3. CASE o.deleting /\ x = At(DeleteCall(o), o, f)
  BY <1>3, RestatesSelf DEF At, Follows, DeleteCall
<1>4. CASE ~o.deleting /\ x = At("addFinalizer", o, f)
  BY <1>4, RestatesSelf DEF At, Follows
<1>5. CASE ~o.deleting /\ o.finalizer /\ x = ObserveSpec(o, f)
  BY <1>5, ObserveSpecGoes
<1>6. CASE x = Idle
  BY <1>6 DEF Follows
<1> QED
  BY <1>1, <1>2, <1>3, <1>4, <1>5, <1>6 DEF Dispatch, isDelete, NeedsInit

\* What follows a status update follows the copy that it left.
LEMMA ContinueGoes ==
  ASSUME NEW o \in Objects, NEW f, NEW next, NEW x,
         x = Continue(o, f, next) \/ x = GiveUp(o, f, next)
  PROVE  /\ Follows(x, o, f)
         /\ \/ x = Idle
            \/ x.pc = "status" /\ x.next = "requeue"
            \/ next = "init" /\ x.pc \in {"recover", "update"}
            \/ next = "finalize" /\ x.pc = "removeFinalizer"
<1>1. Restates(setFailureConditions("CREATE", o), o)
  BY SettersRestate DEF OperationCategories
<1>2. CASE x = NoClient(o, f)
  BY <1>1, <1>2 DEF NoClient, Saving, Follows
<1>3. CASE x = Idle
  BY <1>3 DEF Follows
<1>4. CASE next = "init" /\ x = ObserveSpec(o, f)
  BY <1>4, ObserveSpecGoes
<1>5. CASE next = "finalize" /\ x = At("removeFinalizer", o, f)
  BY <1>5, RestatesSelf DEF At, Follows
<1> QED
  BY <1>2, <1>3, <1>4, <1>5 DEF Continue, GiveUp

------------------------------------------------------------------------------
(* Every step leaves the copies true *)

\* What a step has to do to keep TInv, besides the invariant it rests on.
Keeps == KeepsTruth /\ (w'.pc = "recoverForDelete" => w'.obj.deleting)

\* It does no more.
LEMMA KeepsTInv == TInv /\ [Next]_vars /\ Keeps => TInv'
<1> SUFFICES ASSUME TInv, [Next]_vars, Keeps PROVE TInv'
  OBVIOUS
<1>1. IInv /\ IInv' /\ Kinds
  BY NextIInv, KindsOfSteps DEF TInv
<1>2. SMInv' /\ RequestsNamed' /\ Remembers
  BY StepIsAsked
<1>3. Truthful'
  BY <1>1, <1>2, KnownParts, NewCopies, TruthKept DEF Keeps
<1> QED
  BY <1>1, <1>3 DEF TInv, Keeps, KeepsTruth

\* A worker that follows a copy that is true has one.
LEMMA FollowerKeeps ==
  ASSUME NEW o \in Objects, NEW f, Exists(o), Sound(sm', o), Follows(w', o, f),
         Sound(sm', apiObj'), f => o = [apiObj' EXCEPT !.status = o.status],
         w'.pc = "recoverForDelete" => o.deleting
  PROVE  Keeps
<1>1. KeepsTruth
  BY FollowerCarries, CarrierIsTrue DEF Sound
<1>2. w' = Idle \/ w'.obj.deleting = o.deleting
  BY RestatedStays DEF Follows
<1> QED
  BY <1>1, <1>2 DEF Keeps, Idle

\* A call to SM keeps TInv.
LEMMA ComputedKeeps ==
  ASSUME TInv, Remembers, w.pc # "idle", Computed, UNCHANGED apiObj, w'.pc # "recoverForDelete"
  PROVE  Keeps
<1>1. /\ Sound(sm', apiObj') /\ w.obj \in Objects /\ Sound(sm, w.obj) /\ Exists(w.obj)
      /\ w.fresh => w.obj = [apiObj' EXCEPT !.status = w.obj.status]
  BY KnownParts, CopiesStayTrue DEF TInv, Held
<1> QED
  BY <1>1, CarrierIsTrue DEF Computed, Keeps, Sound

------------------------------------------------------------------------------
(* The calls to the API server *)

\* Reconcile starts from the copy in the cache.
LEMMA ReconcileOutcome ==
  ASSUME TInv, Reconcile
  PROVE  /\ UNCHANGED <<apiObj, cache, watch, sm, lives>> /\ w.pc = "idle"
         /\ \/ UNCHANGED w
            \/ /\ Exists(cache) /\ Follows(w', cache, watch = <<>>)
               /\ \/ w' = Idle \/ w'.pc = "poll"
                  \/ w'.pc = "status" /\ w'.next = "noClient"
                  \/ w'.pc \in {"recoverForDelete", "deprovision"} /\ cache.deleting
                  \/ w'.pc = "addFinalizer" /\ ~cache.deleting
                  \/ w'.pc \in {"recover", "update"} /\ ~cache.deleting /\ cache.finalizer
<1>1. UNCHANGED <<apiObj, cache, watch, sm, lives>> /\ w.pc = "idle" /\ cache \in Objects
  BY DEF Reconcile, ReconcileWith, TInv, IInv, TypeOK
<1>2. CASE UNCHANGED w
  BY <1>1, <1>2
<1>3. CASE Exists(cache) /\ w' = Dispatch(cache, watch = <<>>)
  BY <1>1, <1>3, DispatchGoes
<1>4. CASE Exists(cache) /\ w' = Saving(setBlockedCondition(cache), watch = <<>>, "noClient")
  BY <1>1, <1>4, SettersRestate DEF Saving, Follows, OperationCategories
<1> QED
  BY <1>1, <1>2, <1>3, <1>4, Zenon DEF Reconcile, ReconcileWith

\* What the worker goes on with after a status update that left it o.
Resumes(x, o, f, next) ==
  /\ Follows(x, o, f)
  /\ \/ x = Idle
     \/ x.pc = "status" /\ x.next = "requeue"
     \/ next = "init" /\ x.pc \in {"recover", "update"}
     \/ next = "finalize" /\ x.pc = "removeFinalizer"

\* The first attempt writes what the worker has, which is what there was but for the status.
LEMMA StatusUpdateOutcome ==
  ASSUME TInv, StatusUpdate
  PROVE  /\ UNCHANGED <<cache, sm, lives>> /\ w.pc = "status"
         /\ \/ w.fresh /\ Write(w.obj) /\ apiObj' = w.obj /\ Resumes(w', w.obj, TRUE, w.next)
            \/ /\ UNCHANGED <<apiObj, watch>> /\ w'.pc = w.pc /\ w'.obj = w.obj
               /\ w'.fresh = w.fresh /\ w'.next = w.next
<1>1. /\ UNCHANGED <<cache, sm, lives>> /\ w.pc = "status" /\ w \in Workers
      /\ w.obj \in Objects
  BY DEF StatusUpdate, StatusUpdateThen, TInv, IInv, TypeOK, Workers
<1>2. CASE /\ w.fresh
           /\ Write([apiObj EXCEPT !.status = w.obj.status])
           /\ w' = Continue(apiObj', TRUE, w.next)
  <2>1. Write(w.obj) /\ apiObj' = w.obj
    BY <1>2 DEF TInv, Held, Write
  <2>2. w' = Continue(w.obj, TRUE, w.next)
    BY <1>2, <2>1
  <2>3. \A f : w' = Continue(w.obj, f, w.next) => Resumes(w', w.obj, f, w.next)
    BY <1>1, ContinueGoes DEF Resumes
  <2> QED
    BY <1>1, <1>2, <2>1, <2>2, <2>3
<1>3. CASE w' = [w EXCEPT !.try = 2] /\ UNCHANGED <<apiObj, watch>>
  BY <1>1, <1>3 DEF Workers
<1> QED
  BY <1>1, <1>2, <1>3, Zenon DEF StatusUpdate, StatusUpdateThen

\* A later attempt starts from the copy in the cache, when there is one.
LEMMA StatusRetryOutcome ==
  ASSUME TInv, StatusRetry
  PROVE  /\ UNCHANGED <<cache, sm, lives>> /\ w.pc = "status"
         /\ \/ /\ Exists(cache) /\ cache = apiObj /\ watch = <<>>
               /\ Write([apiObj EXCEPT !.status = w.obj.status])
               /\ apiObj' = [apiObj EXCEPT !.status = w.obj.status]
               /\ Resumes(w', cache, cache.status = w.obj.status, w.next)
            \/ \E o \in {cache, w.obj}, f \in BOOLEAN :
                 /\ UNCHANGED <<apiObj, watch>> /\ Exists(o)
                 /\ o = w.obj => ~Exists(cache) \/ o = cache
                 /\ f => o = apiObj /\ Exists(cache)
                 /\ \/ /\ w'.pc = w.pc /\ w'.obj = o /\ w'.fresh = f /\ w'.next = w.next
                    \/ Follows(w', o, f) /\ (w' = Idle \/ (w'.pc = "status" /\ w'.next = "requeue"))
<1>1. /\ UNCHANGED <<cache, sm, lives>> /\ w.pc = "status" /\ w \in Workers
      /\ w.obj \in Objects /\ cache \in Objects /\ apiObj \in Objects
      /\ Exists(w.obj) /\ CacheFollows
  BY DEF StatusRetry, StatusRetryThen, TInv, IInv, TypeOK, Workers, Held
<1>2. CASE /\ Exists(cache) /\ watch = <<>>
           /\ Write([cache EXCEPT !.status = w.obj.status])
           /\ w' = Continue(cache, cache.status = w.obj.status, w.next)
  <2>1. cache = apiObj
    BY <1>1, <1>2, CacheIsCurrent
  <2>2. Write([apiObj EXCEPT !.status = w.obj.status])
    BY <1>2, <2>1
  <2>3. Resumes(w', cache, cache.status = w.obj.status, w.next)
    BY <1>1, <1>2, ContinueGoes DEF Resumes
  <2> QED
    BY <1>1, <1>2, <2>1, <2>2, <2>3 DEF Write
<1>3. CASE /\ LET o == IF Exists(cache) THEN cache ELSE w.obj
                  f == Exists(cache) /\ watch = <<>>
              IN IF w.try < Attempts
                 THEN w' = [w EXCEPT !.obj = o, !.fresh = f, !.try = @ + 1] /\ UNCHANGED queued
                 ELSE /\ w' = GiveUp(o, f, w.next)
                      /\ queued' = (queued \/ w.next # "noClient")
           /\ UNCHANGED <<apiObj, watch>>
  <2> DEFINE o == IF Exists(cache) THEN cache ELSE w.obj
             f == Exists(cache) /\ watch = <<>>
  <2>1. /\ o \in {cache, w.obj} /\ o \in Objects /\ f \in BOOLEAN /\ Exists(o)
        /\ o = w.obj => ~Exists(cache) \/ o = cache
        /\ f => o = apiObj /\ Exists(cache)
    BY <1>1, CacheIsCurrent
  <2>2. \/ w' = [w EXCEPT !.obj = o, !.fresh = f, !.try = @ + 1]
        \/ w' = GiveUp(o, f, w.next)
    BY <1>3, Zenon
  <2> HIDE DEF o, f
  <2>3. CASE w' = [w EXCEPT !.obj = o, !.fresh = f, !.try = @ + 1]
    BY <1>1, <1>3, <2>1, <2>3 DEF Workers
  <2>4. CASE w' = GiveUp(o, f, w.next)
    <3>1. Restates(setFailureConditions("CREATE", o), o)
      BY <2>1, SettersRestate DEF OperationCategories
    <3>2. /\ Follows(w', o, f)
          /\ w' = Idle \/ (w'.pc = "status" /\ w'.next = "requeue")
      BY <2>4, <3>1 DEF GiveUp, NoClient, Saving, Follows
    <3> QED
      BY <1>1, <1>3, <2>1, <3>2
  <2> QED
    BY <2>2, <2>3, <2>4
<1> QED
  BY <1>1, <1>2, <1>3, Zenon DEF StatusRetry, StatusRetryThen

------------------------------------------------------------------------------
(* The truth *)

\* A call to SM keeps the copies true.
LEMMA CallsKeep ==
  ASSUME TInv, Remembers,
         Poll \/ Recover \/ createInstance \/ updateInstance \/ RecoverForDelete \/ Deprovision
  PROVE  Keeps
<1>1. UNCHANGED apiObj /\ w.pc # "idle"
  BY CallsAreQuiet
<1>2. Computed /\ w'.pc # "recoverForDelete"
  BY PollOutcome, RecoverOutcome, createInstanceOutcome, updateInstanceOutcome,
     RecoverForDeleteOutcome, DeprovisionOutcome DEF Quiet
<1> QED
  BY <1>1, <1>2, ComputedKeeps

\* So does Reconcile when it starts.
LEMMA ReconcileKeeps == TInv /\ Remembers /\ Reconcile => Keeps
<1> SUFFICES ASSUME TInv, Remembers, Reconcile PROVE Keeps
  OBVIOUS
<1>1. /\ UNCHANGED <<apiObj, cache, watch, sm, lives>> /\ w.pc = "idle"
      /\ IInv /\ CacheFollows /\ cache \in Objects
      /\ Sound(sm', cache) /\ Sound(sm', apiObj) /\ Sound(sm', w.obj)
  BY ReconcileOutcome, KnownParts, CopiesStayTrue DEF TInv, IInv
<1>2. CASE UNCHANGED w
  BY <1>1, <1>2 DEF Keeps, KeepsTruth, Held, TInv
<1>3. CASE /\ Exists(cache) /\ Follows(w', cache, watch = <<>>)
           /\ w'.pc = "recoverForDelete" => cache.deleting
  <2>1. watch = <<>> => cache = [apiObj' EXCEPT !.status = cache.status]
    BY <1>1, CacheIsCurrent DEF Objects
  <2> QED
    BY <1>1, <1>3, <2>1, FollowerKeeps
<1>4. Idle.pc # "recoverForDelete"
  BY DEF Idle
<1> QED
  BY <1>2, <1>3, <1>4, ReconcileOutcome

\* What goes on after a status update does not ask SM for an id to delete.
LEMMA ResumesKeeps ==
  ASSUME NEW o \in Objects, NEW f, NEW next, Exists(o), Sound(sm', o), Resumes(w', o, f, next),
         Sound(sm', apiObj'), f => o = [apiObj' EXCEPT !.status = o.status]
  PROVE  Keeps
<1>1. w'.pc # "recoverForDelete"
  BY DEF Resumes, Idle
<1> QED
  BY <1>1, FollowerKeeps DEF Resumes

\* A status update keeps the copies true, at its first attempt ...
LEMMA StatusUpdateKeeps == TInv /\ Remembers /\ StatusUpdate => Keeps
<1> SUFFICES ASSUME TInv, Remembers, StatusUpdate PROVE Keeps
  OBVIOUS
<1>1. /\ UNCHANGED <<cache, sm, lives>> /\ w.pc = "status" /\ Exists(w.obj) /\ w.obj \in Objects
      /\ Sound(sm', apiObj) /\ Sound(sm', w.obj)
      /\ w.fresh => w.obj = [apiObj EXCEPT !.status = w.obj.status]
  BY StatusUpdateOutcome, KnownParts, CopiesStayTrue DEF TInv, Held
<1>2. CASE w.fresh /\ Write(w.obj) /\ apiObj' = w.obj /\ Resumes(w', w.obj, TRUE, w.next)
  <2>1. w.obj = [apiObj' EXCEPT !.status = w.obj.status] /\ Sound(sm', apiObj')
    BY <1>1, <1>2 DEF Objects
  <2>2. ASSUME NEW f, f = TRUE
        PROVE  f => w.obj = [apiObj' EXCEPT !.status = w.obj.status]
    BY <2>1
  <2> QED
    BY <1>1, <1>2, <2>1, <2>2, ResumesKeeps
<1>3. CASE /\ UNCHANGED <<apiObj, watch>> /\ w'.pc = w.pc /\ w'.obj = w.obj
           /\ w'.fresh = w.fresh
  BY <1>1, <1>3 DEF Keeps, KeepsTruth, Held
<1> QED
  BY <1>2, <1>3, StatusUpdateOutcome

\* ... and at a later one.
LEMMA StatusRetryKeeps == TInv /\ Remembers /\ StatusRetry => Keeps
<1> SUFFICES ASSUME TInv, Remembers, StatusRetry PROVE Keeps
  OBVIOUS
<1>1. /\ UNCHANGED <<cache, sm, lives>> /\ w.pc = "status" /\ Exists(w.obj)
      /\ w.obj \in Objects /\ cache \in Objects /\ apiObj \in Objects
      /\ Sound(sm', apiObj) /\ Sound(sm', cache) /\ Sound(sm', w.obj)
  BY StatusRetryOutcome, KnownParts, CopiesStayTrue DEF TInv, Held
<1>2. CASE /\ Exists(cache) /\ cache = apiObj
           /\ apiObj' = [apiObj EXCEPT !.status = w.obj.status]
           /\ Resumes(w', cache, cache.status = w.obj.status, w.next)
  <2>1. Sound(sm', apiObj')
    BY <1>1, <1>2, RewrittenIsSound
  <2>2. cache.status = w.obj.status => cache = [apiObj' EXCEPT !.status = cache.status]
    BY <1>1, <1>2 DEF Objects
  <2> QED
    BY <1>1, <1>2, <2>1, <2>2, ResumesKeeps
<1>3. ASSUME NEW o \in {cache, w.obj}, NEW f \in BOOLEAN, UNCHANGED <<apiObj, watch>>, Exists(o),
             f => o = apiObj,
             \/ w'.pc = w.pc /\ w'.obj = o /\ w'.fresh = f
             \/ Follows(w', o, f) /\ (w' = Idle \/ w'.pc = "status")
      PROVE  Keeps
  <2>1. o \in Objects /\ Sound(sm', o) /\ (f => o = [apiObj' EXCEPT !.status = o.status])
    BY <1>1, <1>3 DEF Objects
  <2>2. Sound(sm', apiObj')
    BY <1>1, <1>3
  <2>3. CASE w'.pc = w.pc /\ w'.obj = o /\ w'.fresh = f
    BY <1>1, <1>3, <2>1, <2>2, <2>3 DEF Keeps, KeepsTruth, Held
  <2>4. CASE Follows(w', o, f) /\ (w' = Idle \/ w'.pc = "status")
    <3>1. w'.pc # "recoverForDelete"
      BY <2>4 DEF Idle
    <3> QED
      BY <1>3, <2>1, <2>2, <2>4, <3>1, FollowerKeeps
  <2> QED
    BY <1>3, <2>3, <2>4
<1> QED
  BY <1>2, <1>3, StatusRetryOutcome

\* addFinalizer and removeFinalizer leave the copies true.
LEMMA FinalizerKeepsTrue ==
  TInv /\ Remembers /\ (AddFinalizer \/ RemoveFinalizer) => Keeps
<1> SUFFICES ASSUME TInv, Remembers, AddFinalizer \/ RemoveFinalizer PROVE Keeps
  OBVIOUS
<1>1. KeepsTruth
  BY KnownParts, AddFinalizerIsTrue, RemoveFinalizerIsTrue
<1>2. w'.pc # "recoverForDelete"
  <2>1. CASE AddFinalizer
    <3>1. BaseInv /\ Held
      BY KnownParts
    <3>2. w' = Idle \/ w'.pc = "status"
      BY <2>1, <3>1, AddFinalizerOutcome
    <3> QED
      BY <3>2 DEF Idle
  <2>2. CASE RemoveFinalizer
    BY <2>2, KnownParts, RemoveFinalizerOutcome DEF Idle
  <2> QED
    BY <2>1, <2>2
<1> QED
  BY <1>1, <1>2 DEF Keeps

\* So do the others, if they write nothing false.
LEMMA OthersKeep ==
  ASSUME TInv, Remembers, KeepsTruth, UNCHANGED <<w.pc, w.obj>> \/ w' = Idle
  PROVE  Keeps
BY DEF Keeps, TInv, Idle

\* The user among them.
LEMMA UserKeepsTrue == TInv /\ Remembers /\ User => Keeps
<1> SUFFICES ASSUME TInv, Remembers, User PROVE Keeps
  OBVIOUS
<1>1. w'.obj = w.obj /\ w'.pc = w.pc /\ w'.fresh = FALSE
  BY DEF TInv, IInv, TypeOK, Workers, User, UserDelete, UserCreate, UserEdit, Outdated
<1>2. \E name \in Names : UserDelete \/ UserCreate(name, NoName) \/ UserEdit(name, NoName)
  BY DefaultType, ConstantsAssumption DEF User
<1>3. KeepsTruth
  BY <1>1, <1>2, KnownParts, UserIsTrue
<1> QED
  BY <1>1, <1>3, OthersKeep

\* Every step keeps what the copies say true.
LEMMA NextTInv == TInv /\ [Next]_vars => TInv'
<1> SUFFICES ASSUME TInv, [Next]_vars PROVE TInv'
  OBVIOUS
<1>1. Remembers /\ Sound(sm', apiObj)
  BY KnownParts, StepIsAsked, CopiesStayTrue
<1>2. CASE Poll \/ Recover \/ createInstance \/ updateInstance \/ RecoverForDelete \/ Deprovision
  BY <1>1, <1>2, CallsKeep, KeepsTInv
<1>3. CASE Reconcile \/ StatusUpdate \/ StatusRetry \/ AddFinalizer \/ RemoveFinalizer
  BY <1>1, <1>3, ReconcileKeeps, StatusUpdateKeeps, StatusRetryKeeps, FinalizerKeepsTrue,
     KeepsTInv
<1>4. CASE User
  BY <1>1, <1>4, UserKeepsTrue, KeepsTInv
<1>5. CASE Deliver \/ Resync \/ Restart \/ ServiceManager \/ UNCHANGED vars
  <2>1. UNCHANGED apiObj /\ (UNCHANGED w \/ w' = Idle)
    BY <1>5 DEF Deliver, Resync, Restart, ServiceManager, SMComplete, vars, baseVars
  <2> QED
    BY <1>1, <2>1, KnownParts, OthersAreTrue, OthersKeep, KeepsTInv
<1> QED
  BY <1>2, <1>3, <1>4, <1>5 DEF Next, Worker

\* It is true in the beginning, when SM has nothing.
LEMMA InitTInv == Init => TInv
<1> SUFFICES ASSUME Init PROVE TInv
  OBVIOUS
<1>1. IInv
  BY InitIInv
<1>2. Used = {} /\ \A i \in IDs : Ops(i) = {}
  BY DEF Init, Unused, Used, FreeIDs, Ops
<1>3. Copies = {NoObject}
  BY DEF Init, Copies, Idle
<1>4. Truthful
  BY <1>2, <1>3, NothingIsSound DEF Truthful, Sound, RequestsNamed, RemovedIsGone
<1> QED
  BY <1>1, <1>4 DEF TInv, Held, Init, Idle

\* What the copies of a resource say of SM is true, whatever fails and however old
\* they are: an id in a status is one SM assigned, an operation in it is one SM
\* recorded, of that kind; so poll never asks for an operation that there is not.
THEOREM Truth == Spec => []TInv
<1>1. Init => TInv
  BY InitTInv
<1>2. TInv /\ [Next]_vars => TInv'
  BY NextTInv
<1> QED
  BY <1>1, <1>2, PTL DEF Spec

------------------------------------------------------------------------------
(* One name *)

\* The worker is about to create only after recovery, and after nothing else.
LEMMA ProvisionSteps ==
  ASSUME TInv, [Next]_vars, w'.pc = "provision"
  PROVE  \/ w.pc = "provision" /\ UNCHANGED w.obj /\ (UNCHANGED sm \/ \E i \in IDs : SMFinish(i))
         \/ w.pc = "recover" /\ UNCHANGED sm /\ Matches(w.obj.name) = {}
<1>1. Remembers /\ w \in Workers
  BY StepIsAsked DEF TInv, IInv, TypeOK
<1>2. CASE Recover
  BY <1>1, <1>2, RecoverOutcome DEF Quiet, Recover
<1>3. CASE Poll \/ createInstance \/ updateInstance \/ RecoverForDelete \/ Deprovision
  BY <1>1, <1>3, PollOutcome, createInstanceOutcome, updateInstanceOutcome,
     RecoverForDeleteOutcome, DeprovisionOutcome DEF Quiet
<1>4. Idle.pc = "idle"
  BY DEF Idle
<1>5. CASE Reconcile
  BY <1>4, <1>5, ReconcileOutcome
<1>6. CASE StatusUpdate
  BY <1>4, <1>6, StatusUpdateOutcome DEF Resumes
<1>7. CASE StatusRetry
  BY <1>4, <1>7, StatusRetryOutcome DEF Resumes
<1>8. CASE AddFinalizer \/ RemoveFinalizer
  BY <1>4, <1>8, KnownParts, AddFinalizerOutcome, KnownParts, RemoveFinalizerOutcome
<1>9. CASE User
  <2>1. Outdated /\ UNCHANGED sm
    BY <1>9 DEF User, UserDelete, UserCreate, UserEdit
  <2> QED
    BY <1>1, <2>1 DEF Outdated, Workers
<1>10. CASE Restart
  BY <1>4, <1>10 DEF Restart
<1>11. CASE Deliver \/ Resync \/ ServiceManager \/ UNCHANGED vars
  BY <1>11 DEF Deliver, Resync, ServiceManager, SMComplete, vars, baseVars
<1> QED
  BY <1>2, <1>3, <1>5, <1>6, <1>7, <1>8, <1>9, <1>10, <1>11 DEF Next, Worker

\* Recovery finds the instance there is, so there is no second one.
LEMMA NextSingle ==
  ASSUME Names = {K8sName}
  PROVE  TInv /\ Single /\ [Next]_vars => Single'
<1> SUFFICES ASSUME TInv, Single, [Next]_vars PROVE Single'
  OBVIOUS
<1>1. Live' \subseteq Live \/ (w.pc = "provision" /\ \E i \in FreeIDs : Live' = Live \cup {i})
  BY StepIsAsked, LiveChanges DEF Calls
<1>2. \A i, j \in Live' : i = j
  BY <1>1 DEF Single
<1>3. ASSUME w'.pc = "provision" PROVE Live' = {}
  <2>1. CASE w.pc = "provision" /\ (UNCHANGED sm \/ \E i \in IDs : SMFinish(i))
    <3>1. Live = {}
      BY <2>1 DEF Single
    <3>2. \A i \in IDs : ~SMFinish(i)
      BY <3>1 DEF SMFinish, Busy, Live
    <3> QED
      BY <2>1, <3>1, <3>2 DEF Live
  <2>2. CASE w.pc = "recover" /\ UNCHANGED sm /\ Matches(w.obj.name) = {}
    BY <2>2, RequestIsNamed, KnownParts, OneNameFindsAll DEF Live
  <2> QED
    BY <1>3, <2>1, <2>2, ProvisionSteps
<1> QED
  BY <1>2, <1>3 DEF Single

\* One resource with one name never has two instances in SM, over all its
\* incarnations and whatever is lost: createInstance runs only after recovery found none.
THEOREM NeverTwoInstances ==
  ASSUME Names = {K8sName}
  PROVE  Spec => []AtMostOneInstance
<1>1. Init => TInv /\ Single
  BY InitTInv DEF Init, Single, Live, Unused, Idle
<1>2. TInv /\ Single /\ [Next]_vars => TInv' /\ Single'
  BY NextTInv, NextSingle
<1>3. TInv /\ Single => AtMostOneInstance
  <2> SUFFICES ASSUME Single PROVE Cardinality(Live) <= 1
    BY DEF AtMostOneInstance
  <2>1. CASE Live = {}
    BY <2>1, FS_EmptySet
  <2>2. ASSUME NEW i \in Live PROVE Cardinality(Live) <= 1
    <3>1. Live = {i}
      BY <2>2 DEF Single
    <3>2. Cardinality(Live) = 1
      BY <3>1, FS_Singleton, Zenon
    <3> QED
      BY <3>2
  <2> QED
    BY <2>1, <2>2
<1> QED
  BY <1>1, <1>2, <1>3, PTL DEF Spec

------------------------------------------------------------------------------
(* One incarnation: where the worker comes from *)

\* A call to SM has what Recover, poll and the two deletions found.
LEMMA CallsAreReasoned ==
  ASSUME TInv, Remembers, Names = {K8sName},
         Poll \/ Recover \/ createInstance \/ updateInstance \/ RecoverForDelete \/ Deprovision
  PROVE  Reasoned(Calls)
<1>1. /\ w.pc # "idle" /\ w.obj \in Objects /\ Exists(w.obj)
      /\ w.pc = "recoverForDelete" => w.obj.deleting
      /\ Matches(w.obj.name) = Live
  BY CallsAreQuiet, RequestIsNamed, KnownParts, OneNameFindsAll DEF TInv
<1>2. Computed => (w'.obj.deleting => w.obj.deleting)
  <2>1. w' = Idle => ~w'.obj.deleting
    BY DEF Idle, NoObject
  <2>2. w'.obj = [w.obj EXCEPT !.status = w'.obj.status] => w'.obj.deleting = w.obj.deleting
    BY <1>1 DEF Objects
  <2> QED
    BY <2>1, <2>2 DEF Computed, Carries
<1> DEFINE Reason ==
      \/ Quiet
      \/ w'.pc = "removeFinalizer" /\ UNCHANGED sm /\ RemovedOne
      \/ w'.pc = "removeFinalizer" /\ UNCHANGED sm /\ w.obj.deleting /\ Live = {}
      \/ w'.pc = "provision" /\ w.pc = "recover"
      \/ /\ w'.pc = "status" /\ w'.next = "finalize"
         /\ w.pc = "deprovision" /\ SMDeleteNow(w.obj.status.id)
<1>3. ASSUME Computed, Reason PROVE Reasoned(Calls)
  <2>1. w'.pc \notin {"addFinalizer", "recover", "update"} /\ ~Setting'
    BY <1>3 DEF Quiet, Setting
  <2>2. w'.pc \in Creates => w.pc \in Creates
    BY <1>3, <2>1 DEF Creates, Quiet
  <2>3. Removing(Removes)' => \/ UNCHANGED sm /\ RemovedOne
                              \/ UNCHANGED sm /\ w.obj.deleting /\ Live = {}
                              \/ w.pc = "deprovision" /\ SMDeleteNow(w.obj.status.id)
    BY <1>3 DEF Removing, Removes, Quiet
  <2> QED
    BY <1>1, <1>2, <1>3, <2>1, <2>2, <2>3 DEF Reasoned, Creating, Calls
<1>4. Poll => Computed /\ Reason
  BY PollOutcome DEF Poll, RemovedOne
<1>5. Recover => Computed /\ Reason
  BY RecoverOutcome DEF Recover
<1>6. RecoverForDelete => Computed /\ Reason
  BY <1>1, RecoverForDeleteOutcome DEF RecoverForDelete
<1>7. Deprovision => Computed /\ Reason
  BY DeprovisionOutcome DEF Deprovision
<1>8. createInstance \/ updateInstance => Computed /\ Reason
  BY createInstanceOutcome, updateInstanceOutcome
<1> QED
  BY <1>3, <1>4, <1>5, <1>6, <1>7, <1>8

\* What goes on after a status update has been reasoned before.
LEMMA ResumesIsReasoned ==
  ASSUME NEW o \in Objects, NEW f, Resumes(w', o, f, w.next), w.pc = "status",
         w.fresh \/ Exists(cache),
         o.uid = w.obj.uid \/ o.uid = cache.uid,
         o.deleting => w.obj.deleting \/ cache.deleting
  PROVE  Reasoned(Calls)
<1>1. w' = Idle \/ (w'.obj.uid = o.uid /\ w'.obj.deleting = o.deleting)
  BY FollowersResource DEF Resumes
<1>2. \/ Beside(Calls, w')
      \/ Setting /\ w'.pc \in Calls.creates
      \/ Removing(Calls.removes) /\ w'.pc \in Calls.removes
  BY IdleIsReasoned, CallsWellFormed
     DEF Resumes, Beside, Setting, Removing, Calls, Creates, Removes
<1> QED
  BY <1>1, <1>2, CallsWellFormed, ResumptionIsReasoned

\* So has the start of Reconcile in the cache.
LEMMA ReconcileIsReasoned == TInv /\ Reconcile => Reasoned(Calls)
<1> SUFFICES ASSUME TInv, Reconcile PROVE Reasoned(Calls)
  OBVIOUS
<1>1. cache \in Objects /\ w.pc = "idle"
  BY ReconcileOutcome DEF TInv, IInv, TypeOK
<1>2. CASE UNCHANGED w
  BY <1>1, <1>2, StayingIsReasoned
<1>3. CASE /\ w' # Idle /\ Exists(cache) /\ w'.obj.uid = cache.uid
           /\ w'.obj.deleting = cache.deleting
           /\ \/ w'.pc = "poll"
              \/ w'.pc = "status" /\ w'.next = "noClient"
              \/ w'.pc \in {"recoverForDelete", "deprovision"} /\ cache.deleting
              \/ w'.pc = "addFinalizer" /\ ~cache.deleting
              \/ w'.pc \in {"recover", "update"} /\ ~cache.deleting /\ cache.finalizer
  <2>1. \/ Beside(Calls, w')
        \/ w'.pc = "addFinalizer" /\ ~cache.deleting
        \/ w'.pc \in Calls.creates /\ ~cache.deleting /\ cache.finalizer
    BY <1>3 DEF Beside, Calls, Creates, Removes
  <2> QED
    BY <1>3, <2>1, CallsWellFormed, StartingIsReasoned
<1>4. CASE w' = Idle
  BY <1>4, CallsWellFormed, IdleIsReasoned
<1> QED
  BY <1>1, <1>2, <1>3, <1>4, ReconcileOutcome, FollowersResource

\* The first attempt of a status write: the worker goes on with what it wrote, or retries.
LEMMA StatusUpdateIsReasoned == TInv /\ StatusUpdate => Reasoned(Calls)
<1> SUFFICES ASSUME TInv, StatusUpdate PROVE Reasoned(Calls)
  OBVIOUS
<1>1. UNCHANGED <<cache, sm, lives>> /\ w.pc = "status" /\ w.obj \in Objects
  BY StatusUpdateOutcome, HeldType DEF TInv, IInv
<1>2. ASSUME w.fresh, NEW f, Resumes(w', w.obj, f, w.next) PROVE Reasoned(Calls)
  BY <1>1, <1>2, ResumesIsReasoned
<1>3. CASE w'.pc = w.pc /\ w'.obj = w.obj /\ w'.fresh = w.fresh /\ w'.next = w.next
  BY <1>3, StayingIsReasoned
<1> QED
  BY <1>2, <1>3, StatusUpdateOutcome

\* A later attempt: what it goes on with is what the cache showed, or its own copy.
LEMMA StatusRetryIsReasoned == TInv /\ StatusRetry => Reasoned(Calls)
<1> SUFFICES ASSUME TInv, StatusRetry PROVE Reasoned(Calls)
  OBVIOUS
<1>1. /\ UNCHANGED <<cache, sm, lives>> /\ w.pc = "status" /\ w.obj \in Objects
      /\ cache \in Objects
  BY StatusRetryOutcome, HeldType DEF TInv, IInv
<1>2. ASSUME Exists(cache), NEW f, Resumes(w', cache, f, w.next) PROVE Reasoned(Calls)
  BY <1>1, <1>2, ResumesIsReasoned
<1>3. ASSUME NEW o \in {cache, w.obj}, NEW f \in BOOLEAN, o = w.obj => ~Exists(cache) \/ o = cache,
             f => Exists(cache), Exists(o),
             \/ w'.pc = w.pc /\ w'.obj = o /\ w'.fresh = f /\ w'.next = w.next
             \/ Follows(w', o, f) /\ (w' = Idle \/ (w'.pc = "status" /\ w'.next = "requeue"))
      PROVE  Reasoned(Calls)
  <2>1. o \in Objects
    BY <1>1
  <2>2. CASE w'.pc = w.pc /\ w'.obj = o /\ w'.fresh = f /\ w'.next = w.next
    BY <1>3, <2>2, StayingIsReasoned
  <2>3. CASE w' = Idle
    BY <2>3, CallsWellFormed, IdleIsReasoned
  <2>4. CASE w'.obj.uid = o.uid /\ w'.obj.deleting = o.deleting
             /\ w'.pc = "status" /\ w'.next = "requeue"
    <3>1. Beside(Calls, w')
      BY <2>4 DEF Beside, Calls, Creates, Removes
    <3> QED
      BY <1>3, <2>4, <3>1, BesideIsReasoned DEF Exists
  <2> QED
    BY <1>3, <2>1, <2>2, <2>3, <2>4, FollowersResource
<1> QED
  BY <1>2, <1>3, StatusRetryOutcome

\* The worker never does anything without a reason.
LEMMA AlwaysReasoned == TInv /\ Names = {K8sName} /\ [Next]_vars => Reasoned(Calls)
<1> SUFFICES ASSUME TInv, Names = {K8sName}, [Next]_vars PROVE Reasoned(Calls)
  OBVIOUS
<1>1. Remembers /\ w \in Workers /\ BaseInv /\ Held
  BY StepIsAsked, KnownParts DEF TInv, IInv, TypeOK
<1>2. CASE User \/ Deliver \/ Resync \/ Restart \/ ServiceManager \/ UNCHANGED vars
  <2>1. \/ w' = Idle
        \/ /\ w'.pc = w.pc /\ w'.next = w.next /\ w'.obj = w.obj
           /\ w'.fresh => w.fresh
    BY <1>1, <1>2 DEF User, UserDelete, UserCreate, UserEdit, Outdated, Workers, Deliver, Resync,
       Restart, ServiceManager, SMComplete, vars, baseVars
  <2> QED
    BY <2>1, CallsWellFormed, IdleIsReasoned, StayingIsReasoned
<1>3. CASE AddFinalizer \/ RemoveFinalizer
  BY <1>1, <1>3, CallsWellFormed, AddFinalizerIsReasoned, RemoveFinalizerIsReasoned
<1> QED
  BY <1>1, <1>2, <1>3, CallsAreReasoned, ReconcileIsReasoned, StatusUpdateIsReasoned,
     StatusRetryIsReasoned DEF Next, Worker

------------------------------------------------------------------------------
(* One incarnation: the finalizer and the instance *)

\* A step does to the resource what ManagedResource_proofs knows of.
LEMMA AlwaysTouched == TInv /\ [Next]_vars => Touched
<1> SUFFICES ASSUME TInv, [Next]_vars PROVE Touched
  OBVIOUS
<1>1. BaseInv /\ Held
  BY KnownParts
<1>2. UNCHANGED apiObj => Touched
  BY DEF Touched
<1>3. CASE StatusUpdate
  <2>1. UNCHANGED apiObj \/ apiObj' = [apiObj EXCEPT !.status = w.obj.status]
    BY <1>1, <1>3, StatusUpdateOutcome DEF Held
  <2> QED
    BY <1>1, <1>2, <2>1, StatusTouches
<1>4. CASE StatusRetry
  BY <1>1, <1>2, <1>4, StatusRetryOutcome, StatusTouches
<1>5. CASE User
  <2>1. NoName \in SecretNames \cup {NoName}
    OBVIOUS
  <2>2. \/ UserDelete
        \/ \E name \in Names : UserCreate(name, NoName) \/ UserEdit(name, NoName)
    BY <1>5, DefaultType DEF User
  <2> QED
    BY <1>1, <2>1, <2>2, EditTouches DEF Touched
<1>6. CASE Poll \/ Recover \/ createInstance \/ updateInstance \/ RecoverForDelete \/ Deprovision
  BY <1>2, <1>6, CallsAreQuiet
<1>7. CASE Reconcile \/ Deliver \/ Resync \/ Restart \/ ServiceManager \/ UNCHANGED vars
  BY <1>2, <1>7, ReconcileOutcome DEF Deliver, Resync, Restart, ServiceManager, SMComplete, vars,
     baseVars
<1> QED
  BY <1>3, <1>4, <1>5, <1>6, <1>7 DEF Next, Worker, Touched

\* Every step is one of a controller that makes these calls.
LEMMA StepIsOne ==
  ASSUME MaxLives <= 1, Names = {K8sName}, DropsFailed = FALSE, GInv, [Next]_vars
  PROVE  OneStep(Calls)
<1>1. TInv /\ IInv /\ IInv' /\ Single /\ OneLife(Creates, Removes) /\ Backlog
  BY NextIInv DEF GInv, TInv
<1>2. Asked(Calls) /\ Kinds /\ Touched /\ Reasoned(Calls)
  BY <1>1, StepIsAsked, KindsOfSteps, AlwaysTouched, AlwaysReasoned
<1>3. BaseInv' /\ w'.fresh \in BOOLEAN
  BY <1>1, Parts DEF IInv, TypeOK, Workers
<1> QED
  BY <1>1, <1>2, <1>3 DEF OneStep, Calls, Single

\* All of it is an invariant.
LEMMA NextGInv ==
  ASSUME MaxLives <= 1, Names = {K8sName}, DropsFailed = FALSE
  PROVE  GInv /\ [Next]_vars => GInv'
<1> SUFFICES ASSUME GInv, [Next]_vars PROVE GInv'
  OBVIOUS
<1>1. TInv' /\ Single'
  BY NextTInv, NextSingle DEF GInv
<1>2. OneLife(Calls.creates, Calls.removes)'
  BY StepIsOne, OneLifeKept
<1>3. OneLife(Creates, Removes)'
  BY <1>2 DEF Calls
<1>4. Backlog'
  BY KnownParts, KindsOfSteps, BacklogKept DEF GInv, TInv
<1> QED
  BY <1>1, <1>3, <1>4 DEF GInv

\* The invariant holds before the first incarnation.
LEMMA InitGInv == Init => GInv
<1> SUFFICES ASSUME Init PROVE GInv
  OBVIOUS
<1>1. TInv /\ Backlog
  BY InitTInv, InitBacklog
<1>2. OneLife(Calls.creates, Calls.removes) /\ Live = {}
  BY CallsWellFormed, OneLifeToBegin DEF Init
<1> QED
  BY <1>1, <1>2 DEF GInv, Single, Calls

\* The order in which an incarnation comes and goes, for one incarnation and one name,
\* and an SM that keeps what it failed to create.
THEOREM OneLifeInvariant ==
  ASSUME MaxLives <= 1, Names = {K8sName}, DropsFailed = FALSE
  PROVE  Spec => []GInv
<1>1. Init => GInv
  BY InitGInv
<1>2. GInv /\ [Next]_vars => GInv'
  BY NextGInv
<1> QED
  BY <1>1, <1>2, PTL DEF Spec

\* As long as SM has the instance the controller created, the resource exists and the
\* finalizer keeps it.
THEOREM FinalizerGuards ==
  ASSUME MaxLives <= 1, Names = {K8sName}, DropsFailed = FALSE
  PROVE  Spec => []FinalizerGuardsInstance
<1>1. GInv => FinalizerGuardsInstance
  BY DEF GInv, OneLife, Guarded, FinalizerGuardsInstance
<1> QED
  BY <1>1, OneLifeInvariant, PTL

\* Whenever the controller is about to create or change an instance, the finalizer is
\* on the resource.
THEOREM FinalizerComesFirst ==
  ASSUME MaxLives <= 1, Names = {K8sName}, DropsFailed = FALSE
  PROVE  Spec => []FinalizerBeforeProvision
<1>1. GInv => FinalizerBeforeProvision
  BY DEF GInv, OneLife, Guarded, FinalizerBeforeProvision, Creates
<1> QED
  BY <1>1, OneLifeInvariant, PTL

------------------------------------------------------------------------------
(* The promise of a managed resource *)

\* The controller keeps what ManagedResource promises: an instance is created only
\* behind the finalizer and for lack of one, it is removed only for a resource that
\* was deleted, and the resource goes only when it has been removed.
THEOREM PromiseImplemented ==
  ASSUME MaxLives <= 1, Names = {K8sName}, DropsFailed = FALSE
  PROVE  Spec => ImplementsManagedResource
<1>1. Init => Promise!Init
  <2> SUFFICES ASSUME Init PROVE Promise!Init
    OBVIOUS
  <2>1. Live = {}
    BY CallsWellFormed, OneLifeToBegin DEF Init
  <2> QED
    BY <2>1, PromiseToBegin DEF Init
<1>2. GInv /\ [Next]_vars => [Promise!Next]_(Promise!vars)
  BY StepIsOne, PromiseKept
<1> QED
  BY <1>1, <1>2, OneLifeInvariant, PTL DEF Spec, ImplementsManagedResource, Promise!Spec

------------------------------------------------------------------------------
(* Nothing is forgotten *)

\* What the worker is at when nothing is owed: its copy is fresh, and what it does
\* next leaves the resource settled, or asks for another Reconcile, or changes the
\* resource.
OnItsWay ==
  LET o == w.obj
      st == apiObj.status
  IN /\ w.fresh /\ w.try < 2
     /\ w.pc = "status" =>
          /\ w.next \in {"done", "requeue", "finalize", "noClient"}
          /\ w.next = "done" => o.status # st \/ Settled(o)
          /\ w.next = "finalize" => o.status # st
     /\ w.pc = "poll" => o.status = st
     /\ w.pc \in {"recover", "provision", "update"} =>
          ~Polling(o) /\ ~o.deleting /\ o.status.obs = o.gen
     /\ w.pc \in {"recover", "provision", "recoverForDelete"} => st.id = NoId
     /\ w.pc = "deprovision" => st.id # NoId
     /\ w.pc = "addFinalizer" => ~o.finalizer
     /\ w.pc = "removeFinalizer" =>
          IF w.next = "clearOp" THEN st.op # NoOp ELSE o.deleting /\ o.finalizer

\* What is not owed is settled, or the worker is at it.
Heeded ==
  /\ Marked
  /\ Owed \/ (IF w.pc = "idle" THEN Settled(apiObj) ELSE OnItsWay)

\* A call that ends in a status update keeps it.
LEMMA SavedIsHeeded ==
  ASSUME NEW o, NEW next \in {"done", "requeue", "finalize"}, Save(o, next), w.fresh,
         UNCHANGED apiObj,
         next = "done" => o.status # apiObj.status \/ Settled(o),
         next = "finalize" => o.status # apiObj.status
  PROVE  w'.pc # "idle" /\ OnItsWay'
BY DEF Save, Saving, OnItsWay, Settled, Polling, isInProgress

\* A resource whose failure is final, or whose success is, is settled.
LEMMA EndedIsSettled ==
  ASSUME NEW o \in Objects, NEW type \in OperationCategories,
         ~Polling(o), ~o.deleting, o.status.obs = o.gen
  PROVE  /\ Settled(markAsNonTransientError(type, o))
         /\ Settled(setSuccessConditions(type, o))
<1>1. ASSUME NEW c, c.ready = "True" \/ c.failed, NEW p, p = WithConditions(o, c)
      PROVE  Settled(p) /\ Settled(observe(p))
  BY <1>1 DEF Settled, WithConditions, observe, Polling, isInProgress, Objects, Statuses
<1> QED
  BY <1>1 DEF markAsNonTransientError, setSuccessConditions, setFailureConditions

\* Clearing the operation, and taking the id that was found, make another status.
LEMMA NewStatus ==
  ASSUME NEW o \in Objects
  PROVE  /\ ClearOp(o).status.op = NoOp
         /\ \A i \in IDs : resyncInstanceStatus(o, i).status.id = i
                           \/ Last(i).state \notin OperationStates
BY DEF ClearOp, setSuccessConditions, setInProgressCondition, setFailureConditions, InOperation,
   WithConditions, Objects, Statuses, resyncInstanceStatus, OperationStates

\* When nothing is owed, the worker ends with a settled resource.
Ahead == IF w.pc = "idle" THEN Settled(apiObj) ELSE OnItsWay

\* The calls to SM: each ends in a status that is new, settled, or tried again.
LEMMA CallsAreHeeded ==
  ASSUME TInv, Marked, Ahead, UNCHANGED apiObj, ~queued',
         Poll \/ Recover \/ createInstance \/ updateInstance \/ RecoverForDelete \/ Deprovision
  PROVE  Ahead'
<1> DEFINE o == w.obj
           st == apiObj.status
<1>1. /\ w.pc # "idle" /\ OnItsWay /\ w.fresh /\ w \in Workers
      /\ o \in Objects /\ o.status \in Statuses /\ apiObj \in Objects
  BY CallsAreQuiet, RequestIsNamed DEF Ahead, TInv, IInv, TypeOK, OnItsWay
<1>2. \A p, next : /\ Save(p, next) /\ next \in {"done", "requeue", "finalize"}
                   /\ next = "done" => p.status # st \/ Settled(p)
                   /\ next = "finalize" => p.status # st
                   => Ahead'
  BY <1>1, SavedIsHeeded DEF Ahead
<1>3. ASSUME NEW type \in OperationCategories, Transient(type) \/ NonTransient(type)
             \/ Save(setFailureConditions(type, o), "requeue"),
             ~Polling(o), ~o.deleting, o.status.obs = o.gen
      PROVE  Ahead'
  <2>1. Settled(markAsNonTransientError(type, o))
    BY <1>1, <1>3, EndedIsSettled
  <2> QED
    BY <1>2, <1>3, <2>1 DEF Transient, NonTransient
<1>4. {"CREATE", "UPDATE", "DELETE"} \subseteq OperationCategories
  BY DEF OperationCategories
<1>5. CASE Poll
  <2> DEFINE op == o.status.op
             failed == setFailureConditions(op.type, o)
             succeeded == setSuccessConditions(op.type, o)
  <2>1. /\ o.status = st /\ op # NoOp /\ op.type \in OperationCategories
    BY <1>1, <1>5 DEF Poll, OnItsWay, TInv, IInv, CallsAreMeant, Polling, Statuses, OpRefs
  <2>2. failed \in Objects /\ succeeded \in Objects
    BY <1>1, <2>1, SettersType
  <2>3. ClearOp(failed).status.op = NoOp /\ ClearOp(succeeded).status.op = NoOp
    BY <2>1, <2>2, NewStatus
  <2>4. ASSUME w' = [At("removeFinalizer", succeeded, w.fresh) EXCEPT !.next = "clearOp"]
        PROVE  Ahead'
    <3>1. /\ w'.pc = "removeFinalizer" /\ w'.next = "clearOp" /\ w'.fresh = w.fresh /\ w'.try = 0
      BY <2>4 DEF At
    <3>2. apiObj'.status.op # NoOp
      BY <2>1
    <3> QED
      BY <1>1, <3>1, <3>2 DEF Ahead, OnItsWay
  <2>5. ~Requeue
    BY DEF Requeue
  <2>6. \/ Save([o EXCEPT !.status = freshStatus(o, failed.status.cond)], "requeue")
        \/ Requeue
        \/ \E next \in {"done", "requeue"} : Save(ClearOp(failed), next)
        \/ Save(ClearOp(succeeded), "done")
        \/ w' = [At("removeFinalizer", succeeded, w.fresh) EXCEPT !.next = "clearOp"]
    BY <1>5 DEF Poll
  <2> HIDE DEF failed, succeeded
  <2> QED
    BY <1>2, <2>1, <2>3, <2>4, <2>5, <2>6
<1>6. CASE Recover
  <2>1. st.id = NoId /\ ~Polling(o) /\ ~o.deleting /\ o.status.obs = o.gen
    BY <1>1, <1>6 DEF Recover, OnItsWay
  <2>2. ASSUME NEW i \in Matches(o.name), Save(resyncInstanceStatus(o, i), "done") PROVE Ahead'
    <3>1. i \in IDs /\ i # NoId /\ sm[i] \in Things /\ sm[i].ops # <<>>
      BY <2>2, ServiceManagerAssumption DEF Matches, TInv, IInv, TypeOK, LiveIsRecorded
    <3>2. Last(i) \in Operations
      BY <3>1 DEF Things, Last
    <3>3. resyncInstanceStatus(o, i).status.id = i
      BY <1>1, <1>4, <3>1, <3>2, NewStatus DEF Operations
    <3> QED
      BY <1>2, <2>1, <2>2, <3>1, <3>3
  <2>3. CASE Goto("provision", o)
    <3>1. w'.pc = "provision" /\ w'.obj = o /\ w'.fresh = w.fresh /\ w'.try = 0
      BY <2>3 DEF Goto, At
    <3> QED
      BY <1>1, <2>1, <3>1 DEF Ahead, OnItsWay
  <2>4. CASE Save(setFailureConditions("CREATE", o), "requeue")
    BY <1>2, <2>4
  <2> QED
    BY <1>6, <2>2, <2>3, <2>4 DEF Recover
<1>7. CASE createInstance
  <2>1. st.id = NoId /\ ~Polling(o) /\ ~o.deleting /\ o.status.obs = o.gen
    BY <1>1, <1>7 DEF createInstance, OnItsWay
  <2>2. ASSUME NEW i \in FreeIDs,
               Save(setSuccessConditions("CREATE", [o EXCEPT !.status.id = i]), "done")
        PROVE  Ahead'
    <3>1. setSuccessConditions("CREATE", [o EXCEPT !.status.id = i]).status.id = i
      BY <1>1 DEF setSuccessConditions, setInProgressCondition, WithConditions, Objects, Statuses
    <3>2. i # NoId
      BY ServiceManagerAssumption DEF FreeIDs
    <3> QED
      BY <1>2, <2>1, <2>2, <3>1, <3>2
  <2>3. \A i : Save(InOperation("CREATE", i, 1, o), "requeue") => Ahead'
    BY <1>2
  <2>4. Transient("CREATE") \/ NonTransient("CREATE") => Ahead'
    BY <1>3, <1>4, <2>1
  <2> QED
    BY <1>7, <2>2, <2>3, <2>4 DEF createInstance, Unanswered
<1>8. CASE updateInstance
  <2>1. ~Polling(o) /\ ~o.deleting /\ o.status.obs = o.gen
    BY <1>1, <1>8 DEF updateInstance, OnItsWay
  <2>2. Settled(setSuccessConditions("UPDATE", o))
    BY <1>1, <1>4, <2>1, EndedIsSettled
  <2>3. Save(setSuccessConditions("UPDATE", o), "done") => Ahead'
    BY <1>2, <2>2
  <2>4. \A i, n : Save(InOperation("UPDATE", i, n, o), "requeue") => Ahead'
    BY <1>2
  <2>5. Transient("UPDATE") \/ NonTransient("UPDATE") => Ahead'
    BY <1>3, <1>4, <2>1
  <2> QED
    BY <1>8, <2>3, <2>4, <2>5 DEF updateInstance, Unanswered
<1>9. CASE RecoverForDelete
  <2>1. /\ w.pc = "recoverForDelete" /\ st.id = NoId
        /\ \/ Requeue
           \/ \E i \in Matches(o.name) :
                Save(setInProgressCondition("DELETE", [o EXCEPT !.status.id = i]), "done")
           \/ Goto("removeFinalizer", o)
    BY <1>1, <1>9 DEF RecoverForDelete, OnItsWay
  <2>2. ASSUME NEW i \in Matches(o.name),
               Save(setInProgressCondition("DELETE", [o EXCEPT !.status.id = i]), "done")
        PROVE  Ahead'
    <3>1. setInProgressCondition("DELETE", [o EXCEPT !.status.id = i]).status.id = i
      BY <1>1 DEF setSuccessConditions, setInProgressCondition, WithConditions, Objects, Statuses
    <3>2. i # NoId
      BY ServiceManagerAssumption DEF Matches
    <3> QED
      BY <1>2, <2>1, <2>2, <3>1, <3>2
  <2>3. CASE Goto("removeFinalizer", o)
    <3>1. /\ w'.pc = "removeFinalizer" /\ w'.obj = o /\ w'.fresh = w.fresh /\ w'.try = 0
          /\ w'.next = "done"
      BY <2>3 DEF Goto, At
    <3>2. o.deleting /\ o.finalizer
      BY <1>1, <2>1, KnownParts DEF TInv, Held, Marked, Objects
    <3> QED
      BY <1>1, <3>1, <3>2 DEF Ahead, OnItsWay
  <2> QED
    BY <2>1, <2>2, <2>3 DEF Requeue
<1>10. CASE Deprovision
  <2>1. w.pc = "deprovision" /\ st.id # NoId
    BY <1>1, <1>10 DEF Deprovision, OnItsWay
  <2>2. CASE Save(setSuccessConditions("DELETE", [o EXCEPT !.status.id = NoId]), "finalize")
    <3>1. setSuccessConditions("DELETE", [o EXCEPT !.status.id = NoId]).status.id = NoId
      BY <1>1 DEF setSuccessConditions, setInProgressCondition, WithConditions, Objects, Statuses
    <3> QED
      BY <1>2, <2>1, <2>2, <3>1
  <2>3. \A i, n : Save(InOperation("DELETE", i, n, o), "requeue") => Ahead'
    BY <1>2
  <2>4. Transient("DELETE") \/ Save(setFailureConditions("DELETE", o), "requeue") => Ahead'
    BY <1>2 DEF Transient
  <2> QED
    BY <1>10, <2>2, <2>3, <2>4 DEF Deprovision, UnansweredDelete
<1> QED
  BY <1>5, <1>6, <1>7, <1>8, <1>9, <1>10

\* A Reconcile that starts from what the API server has does what there is to do.
LEMMA ReconcileIsHeeded ==
  ASSUME TInv, Marked, Reconcile, ~Owed'
  PROVE  Ahead'
<1>1. UNCHANGED <<apiObj, watch>> /\ w.pc = "idle" /\ watch = <<>> /\ Exists(apiObj)
  BY ReconcileOutcome DEF Owed
<1>2. cache = apiObj /\ apiObj \in Objects /\ (apiObj.deleting => apiObj.finalizer)
  BY <1>1, CacheIsCurrent DEF TInv, IInv, TypeOK, Marked
<1>3. \/ w' = Dispatch(apiObj, TRUE)
      \/ w' = Saving(setBlockedCondition(apiObj), TRUE, "noClient")
  BY <1>1, <1>2 DEF Reconcile, ReconcileWith
<1>4. CASE w' = Saving(setBlockedCondition(apiObj), TRUE, "noClient")
  BY <1>1, <1>4 DEF Saving, Ahead, OnItsWay
<1>5. CASE w' = Dispatch(apiObj, TRUE)
  <2> DEFINE o == apiObj
  <2>1. o.deleting \in BOOLEAN /\ o.finalizer \in BOOLEAN
    BY <1>2 DEF Objects
  <2>2. ASSUME NEW pc, w' = At(pc, apiObj, TRUE),
               \/ pc = "poll"
               \/ pc = "recoverForDelete" /\ apiObj.status.id = NoId
               \/ pc = "deprovision" /\ apiObj.status.id # NoId
               \/ pc = "addFinalizer" /\ ~apiObj.finalizer
        PROVE  Ahead'
    <3>1. w'.pc = pc /\ w'.obj = apiObj' /\ w'.fresh = TRUE /\ w'.try = 0
      BY <1>1, <2>2 DEF At
    <3>2. /\ pc = "recoverForDelete" => apiObj'.status.id = NoId
          /\ pc = "deprovision" => apiObj'.status.id # NoId
          /\ pc = "addFinalizer" => ~apiObj'.finalizer
          /\ pc \notin {"idle", "status", "removeFinalizer", "recover", "provision", "update"}
      BY <1>1, <2>2
    <3> QED
      BY <3>1, <3>2 DEF Ahead, OnItsWay
  <2>3. CASE w' = At("poll", o, TRUE)
    BY <2>2, <2>3
  <2>4. CASE w' = At(DeleteCall(o), o, TRUE)
    BY <2>2, <2>4 DEF DeleteCall
  <2>5. CASE ~o.finalizer /\ w' = At("addFinalizer", o, TRUE)
    BY <2>2, <2>5
  <2>6. CASE ~Polling(o) /\ ~o.deleting /\ w' = ObserveSpec(o, TRUE)
    <3>1. CASE o.gen = o.status.obs /\ ~isInProgress(o) /\ w' = Idle
      <4>1. apiObj' = apiObj
        BY <1>1
      <4>2. w'.pc = "idle"
        BY <3>1 DEF Idle
      <4>3. Settled(apiObj)
        BY <2>6, <3>1 DEF Settled
      <4>4. Settled(apiObj)'
        BY <4>1, <4>3 DEF Settled, Polling, isInProgress
      <4> QED
        BY <4>2, <4>4 DEF Ahead
    <3>2. CASE w' = At(IF o.status.id = NoId THEN "recover" ELSE "update", observe(o), TRUE)
      <4>1. /\ w'.pc = (IF o.status.id = NoId THEN "recover" ELSE "update")
            /\ w'.obj = observe(o) /\ w'.fresh = TRUE /\ w'.try = 0
        BY <3>2 DEF At
      <4>2. ~Polling(observe(o)) /\ ~observe(o).deleting /\ observe(o).status.obs = observe(o).gen
        BY <1>2, <2>6 DEF observe, Polling, Objects, Statuses
      <4> QED
        BY <1>1, <4>1, <4>2 DEF Ahead, OnItsWay
    <3> QED
      BY <2>6, <3>1, <3>2 DEF ObserveSpec
  <2> QED
    BY <1>2, <1>5, <2>1, <2>3, <2>4, <2>5, <2>6 DEF Dispatch, isDelete, NeedsInit
<1> QED
  BY <1>3, <1>4, <1>5

\* A status that is written and changes nothing was settled before it was computed.
LEMMA StatusUpdateIsHeeded ==
  ASSUME TInv, Ahead, ApiFaults = FALSE, StatusUpdate, UNCHANGED apiObj, ~queued'
  PROVE  Ahead'
<1>1. /\ w.pc = "status" /\ OnItsWay /\ w.fresh /\ apiObj \in Objects
      /\ w.obj = [apiObj EXCEPT !.status = w.obj.status]
  BY DEF StatusUpdate, StatusUpdateThen, Ahead, OnItsWay, TInv, IInv, TypeOK, Held
<1>2. /\ apiObj' = [apiObj EXCEPT !.status = w.obj.status]
      /\ w' = Continue(apiObj', TRUE, w.next) /\ w.next # "requeue"
  BY <1>1 DEF StatusUpdate, StatusUpdateThen, Write
<1>3. w.obj = apiObj
  BY <1>1, <1>2
<1>4. CASE w.next = "done"
  <2>1. w' = Idle /\ Settled(apiObj)
    BY <1>1, <1>2, <1>3, <1>4 DEF OnItsWay, Continue
  <2> QED
    BY <2>1 DEF Ahead, Idle, Settled, Polling, isInProgress
<1>5. CASE w.next = "noClient"
  BY <1>2, <1>5 DEF Continue, NoClient, Saving, Ahead, OnItsWay
<1> QED
  BY <1>1, <1>2, <1>3, <1>4, <1>5 DEF OnItsWay

\* A step after which nothing is owed leaves a settled resource, or one on its way.
LEMMA NextHeeded ==
  ASSUME ApiFaults = FALSE
  PROVE  TInv /\ Heeded /\ [Next]_vars => Heeded'
<1> SUFFICES ASSUME TInv, Heeded, [Next]_vars PROVE Heeded'
  OBVIOUS
<1>1. BaseInv /\ Held /\ Touched /\ Marked /\ BaseTypes
  BY KnownParts, AlwaysTouched DEF Heeded, BaseInv
<1>2. Marked'
  BY <1>1, MarkedKept
<1> SUFFICES ASSUME ~Owed' PROVE Ahead'
  BY <1>2 DEF Heeded, Ahead
<1>3. ASSUME queued => queued', UNCHANGED <<apiObj, watch>> \/ \E o : Write(o)
      PROVE  Ahead /\ UNCHANGED <<apiObj, watch>> /\ ~queued'
  BY <1>1, <1>3, NothingOwedBefore DEF Heeded, Ahead
<1>4. CASE Reconcile
  BY <1>1, <1>4, ReconcileIsHeeded
<1>5. CASE StatusUpdate
  <2>1. Ahead /\ UNCHANGED <<apiObj, watch>> /\ ~queued'
    BY <1>3, <1>5 DEF StatusUpdate, StatusUpdateThen
  <2> QED
    BY <1>5, <2>1, StatusUpdateIsHeeded
<1>6. CASE StatusRetry
  <2>1. Ahead /\ w.try > 1 /\ w.pc = "status" /\ w \in Workers
    BY <1>3, <1>6 DEF StatusRetry, StatusRetryThen, TInv, IInv, TypeOK
  <2> QED
    BY <2>1 DEF Ahead, OnItsWay, Workers
<1>7. CASE AddFinalizer
  <2>1. Ahead /\ w.pc = "addFinalizer"
    BY <1>3, <1>7 DEF AddFinalizer, Requeue
  <2> QED
    BY <1>1, <1>7, <2>1, AddFinalizerIsOwed DEF Ahead, OnItsWay
<1>8. CASE RemoveFinalizer
  <2>1. Ahead /\ UNCHANGED <<apiObj, watch>> /\ ~queued' /\ w.pc = "removeFinalizer" /\ w.obj \in Objects
    BY <1>1, <1>3, <1>8 DEF RemoveFinalizer, Requeue, BaseTypes
  <2>2. ~w.obj.finalizer /\ w.next = "clearOp" /\ apiObj.status.op # NoOp /\ w.fresh
    BY <1>1, <1>8, <2>1, RemoveFinalizerIsOwed DEF Ahead, OnItsWay
  <2>3. w' = Saving(ClearOp(w.obj), w.fresh, "done")
    BY <1>8, <2>2 DEF RemoveFinalizer
  <2>4. ClearOp(w.obj).status # apiObj.status
    BY <2>1, <2>2, NewStatus
  <2> QED
    BY <2>1, <2>2, <2>3, <2>4 DEF Saving, Ahead, OnItsWay
<1>9. CASE Poll \/ Recover \/ createInstance \/ updateInstance \/ RecoverForDelete \/ Deprovision
  <2>1. queued => queued'
    BY <1>9 DEF Poll, Recover, createInstance, updateInstance, RecoverForDelete, Deprovision, Save,
       Goto, Requeue, Transient, NonTransient, Unanswered, UnansweredDelete
  <2>2. UNCHANGED <<apiObj, watch>>
    BY <1>9, CallsAreQuiet
  <2> QED
    BY <1>1, <1>3, <1>9, <2>1, <2>2, CallsAreHeeded
<1>10. CASE User
  BY <1>1, <1>10, OthersOwe DEF User
<1>11. CASE Deliver \/ Resync \/ Restart
  BY <1>1, <1>11, OthersOwe
<1>12. CASE ServiceManager \/ UNCHANGED vars
  <2>1. UNCHANGED <<apiObj, watch, queued, w>>
    BY <1>12 DEF ServiceManager, SMComplete, vars, baseVars
  <2>2. Ahead
    BY <1>3, <2>1
  <2> QED
    BY <2>1, <2>2 DEF Ahead, OnItsWay, Settled, Polling, isInProgress
<1> QED
  BY <1>4, <1>5, <1>6, <1>7, <1>8, <1>9, <1>10, <1>11, <1>12 DEF Next, Worker

\* Nothing is left undone when nothing is going to run, as long as a write to the API
\* server fails by conflict only: after any other failure updateStatus tries again with
\* the cached copy, whose status is the old one, and nothing more is owed.
THEOREM NothingIsForgotten ==
  ASSUME ApiFaults = FALSE
  PROVE  Spec => []NoLostWakeup
<1>1. Init => TInv /\ Heeded
  BY InitTInv DEF Init, Heeded, Marked, Owed, NoObject, Exists
<1>2. TInv /\ Heeded /\ [Next]_vars => (TInv /\ Heeded)'
  BY NextTInv, NextHeeded
<1>3. Heeded => NoLostWakeup
  BY DEF Heeded, Owed, Quiescent, NoLostWakeup
<1> QED
  BY <1>1, <1>2, <1>3, PTL DEF Spec

------------------------------------------------------------------------------
(* Ready means synced: the generations *)

\* A copy with another status is of the same generation.
LEMMA SameGeneration ==
  ASSUME NEW o \in Objects, NEW p, p = [o EXCEPT !.status = p.status]
  PROVE  p.gen = o.gen /\ p.uid = o.uid /\ p.deleting = o.deleting /\ p.finalizer = o.finalizer
BY DEF Objects

\* The generation of the worker's copy comes from a copy it had, or from the cache.
LEMMA AlwaysHeir ==
  ASSUME TInv, Aged, [Next]_vars
  PROVE  Heir
<1>1. /\ BaseInv /\ Held /\ Remembers
      /\ apiObj \in Objects /\ cache \in Objects /\ w.obj \in Objects
  BY KnownParts, StepIsAsked DEF BaseInv, BaseTypes
<1>2. ASSUME NEW o \in Objects, NEW f, Follows(w', o, f),
             Exists(o) /\ (o = w.obj \/ o = cache),
             Exists(apiObj') => Exists(apiObj) /\ apiObj'.gen = apiObj.gen
      PROVE  Heir
  <2>1. w' = Idle \/ w'.obj.gen = o.gen
    BY <1>2, SameGeneration DEF Follows, Restates
  <2> QED
    BY <1>1, <1>2, <2>1, CopyIsHeir
<1>3. CASE Poll \/ Recover \/ createInstance \/ updateInstance \/ RecoverForDelete \/ Deprovision
  <2>1. Computed /\ UNCHANGED apiObj /\ w.pc # "idle" /\ Exists(w.obj)
    BY <1>1, <1>3, PollOutcome, RecoverOutcome, createInstanceOutcome, updateInstanceOutcome,
       RecoverForDeleteOutcome, DeprovisionOutcome, CallsAreQuiet DEF Held
  <2>2. w' = Idle \/ w'.obj.gen = w.obj.gen
    BY <1>1, <2>1, SameGeneration DEF Computed, Carries
  <2> QED
    BY <1>1, <2>1, <2>2, CopyIsHeir
<1>4. CASE Reconcile
  <2>1. /\ UNCHANGED apiObj
        /\ UNCHANGED w \/ (Exists(cache) /\ Follows(w', cache, watch = <<>>))
    BY <1>4, ReconcileOutcome
  <2> QED
    BY <1>1, <1>2, <2>1, StayingIsHeir
<1>5. CASE StatusUpdate
  <2>1. w.pc = "status" /\ Exists(w.obj)
    BY <1>1, <1>5 DEF StatusUpdate, StatusUpdateThen, Held
  <2>2. CASE w.fresh /\ apiObj' = w.obj /\ Follows(w', w.obj, TRUE)
    <3>1. Exists(apiObj) /\ apiObj'.gen = apiObj.gen
      BY <1>1, <2>1, <2>2 DEF Held, Objects, Exists
    <3> QED
      BY <1>1, <1>2, <2>1, <2>2, <3>1
  <2>3. CASE UNCHANGED apiObj /\ w'.obj = w.obj
    BY <1>1, <2>3, StayingIsHeir
  <2> QED
    BY <1>5, <2>2, <2>3, StatusUpdateOutcome DEF Resumes
<1>6. CASE StatusRetry
  <2>1. w.pc = "status" /\ Exists(w.obj)
    BY <1>1, <1>6 DEF StatusRetry, StatusRetryThen, Held
  <2>2. CASE /\ Exists(cache) /\ cache = apiObj
             /\ apiObj' = [apiObj EXCEPT !.status = w.obj.status]
             /\ Follows(w', cache, cache.status = w.obj.status)
    <3>1. Exists(apiObj) /\ apiObj'.gen = apiObj.gen
      BY <1>1, <2>2 DEF Objects
    <3> QED
      BY <1>1, <1>2, <2>2, <3>1
  <2>3. ASSUME NEW o \in {cache, w.obj}, NEW f \in BOOLEAN, UNCHANGED apiObj, Exists(o),
               w'.obj = o \/ Follows(w', o, f)
        PROVE  Heir
    <3>1. o \in Objects
      BY <1>1
    <3>2. CASE w'.obj = o
      BY <1>1, <2>3, <3>2, CopyIsHeir
    <3> QED
      BY <1>2, <2>3, <3>1, <3>2
  <2> QED
    BY <1>6, <2>2, <2>3, StatusRetryOutcome DEF Resumes
<1>7. CASE AddFinalizer \/ RemoveFinalizer
  BY <1>1, <1>7, FinalizerIsHeir
<1>8. CASE User
  <2>1. UNCHANGED w.obj
    BY <1>8 DEF User, UserDelete, UserCreate, UserEdit, Outdated, TInv, IInv, TypeOK, Workers
  <2>2. UserDelete \/ \E name, s : UserCreate(name, s) \/ UserEdit(name, s)
    BY <1>8 DEF User
  <2> QED
    BY <1>1, <2>1, <2>2, UserIsHeir
<1>9. CASE Deliver \/ Resync \/ Restart \/ ServiceManager \/ UNCHANGED vars
  <2>1. UNCHANGED apiObj /\ (UNCHANGED w.obj \/ w' = Idle)
    BY <1>9 DEF Deliver, Resync, Restart, ServiceManager, SMComplete, vars, baseVars
  <2> QED
    BY <1>1, <2>1, StayingIsHeir
<1> QED
  BY <1>3, <1>4, <1>5, <1>6, <1>7, <1>8, <1>9 DEF Next, Worker

------------------------------------------------------------------------------
(* Ready means synced: an operation is not overlooked *)

NothingPolled == \A o \in Copies : Exists(o) => ~Polling(o)

\* As long as a resource has not been through init, nobody knows of an operation, and
\* addFinalizer is called for no other resource.
Infant ==
  /\ Exists(apiObj) /\ (~apiObj.finalizer \/ Setting) => NothingPolled
  /\ w.pc = "addFinalizer" /\ Exists(apiObj) => ~apiObj.finalizer

\* The worker makes no other request as long as it has to poll, and it creates and
\* changes with the generation it has observed.
Calm ==
  /\ w.pc \in Creates \cup {"recoverForDelete", "deprovision"} => ~Polling(w.obj)
  /\ w.pc \in Creates => w.obj.status.obs = w.obj.gen

\* What an operation is known by is known to those who follow a copy.
LEMMA FollowersPoll ==
  ASSUME NEW o \in Objects, ~Polling(o), NEW f, NEW x, Follows(x, o, f), Exists(x.obj)
  PROVE  ~Polling(x.obj)
BY DEF Follows, Restates, Polling, Idle, NoObject, Exists

\* A resource without the finalizer is not about to go, and nobody is at anything but
\* its beginning.
LEMMA InfantFacts ==
  ASSUME GInv, Marked, MaxLives <= 1, Exists(apiObj), ~apiObj.finalizer
  PROVE  /\ ~Setting /\ w.pc \notin Creates \cup Removes \cup {"recoverForDelete", "deprovision"}
         /\ ~(w.pc = "status" /\ w.next = "finalize")
<1>1. BaseInv /\ OneLife(Creates, Removes) /\ TInv
  BY KnownParts DEF GInv
<1>2. ~apiObj.deleting
  BY DEF Marked
<1>3. ~Doomed /\ ~Vanished
  BY <1>1, <1>2, LastVersion DEF Doomed, Vanished
<1>4. ~Guarded
  BY DEF Guarded
<1>5. ~w.obj.deleting
  BY <1>1, <1>3 DEF OneLife
<1>6. w.pc \notin {"recoverForDelete", "deprovision"}
  BY <1>1, <1>5 DEF TInv, IInv, CallsAreMeant
<1> QED
  BY <1>1, <1>3, <1>4, <1>6 DEF OneLife, Removing

\* Nobody gets to know of an operation but by a call to SM.
LEMMA PollingComesFromCalls ==
  ASSUME TInv, NothingPolled, Exists(apiObj), [Next]_vars,
         w.pc \notin Creates \cup Removes \cup {"recoverForDelete", "deprovision"}
  PROVE  NothingPolled'
<1>1. /\ BaseInv /\ Held /\ Kinds
      /\ apiObj \in Objects /\ cache \in Objects /\ w.obj \in Objects
      /\ apiObj \in Copies /\ cache \in Copies /\ w.obj \in Copies
  BY KnownParts, KindsOfSteps, CopiesType DEF BaseInv, BaseTypes, TInv
<1>2. /\ ~Polling(apiObj)
      /\ Exists(cache) => ~Polling(cache)
      /\ Exists(w.obj) => ~Polling(w.obj)
  BY <1>1 DEF NothingPolled
<1>3. ASSUME Exists(apiObj') => ~Polling(apiObj'), Exists(w'.obj) => ~Polling(w'.obj)
      PROVE  NothingPolled'
  BY <1>1, <1>3, NewCopies DEF NothingPolled, Polling, Exists
<1>4. UNCHANGED apiObj => ~Polling(apiObj')
  BY <1>2
<1>5. ~Exists(Idle.obj)
  BY DEF Idle, NoObject, Exists
<1>6. \A o \in Objects : \A p : Restates(p, o) /\ ~Polling(o) => ~Polling(p)
  BY DEF Restates, Polling
<1>7. CASE Poll \/ Recover \/ createInstance \/ updateInstance \/ RecoverForDelete \/ Deprovision
  <2>1. w.pc = "poll"
    BY <1>7 DEF Poll, Recover, createInstance, updateInstance, RecoverForDelete, Deprovision, Creates
  <2> QED
    BY <1>1, <1>2, <2>1 DEF TInv, IInv, CallsAreMeant, Held
<1>8. CASE Reconcile
  <2>1. /\ UNCHANGED apiObj
        /\ UNCHANGED w \/ (Exists(cache) /\ Follows(w', cache, watch = <<>>))
    BY <1>8, ReconcileOutcome
  <2> QED
    BY <1>1, <1>2, <1>3, <1>4, <2>1, FollowersPoll
<1>9. CASE StatusUpdate
  <2>1. \/ apiObj' = w.obj /\ Follows(w', w.obj, TRUE)
        \/ UNCHANGED apiObj /\ w'.obj = w.obj
    BY <1>9, StatusUpdateOutcome DEF Resumes
  <2>2. Exists(w.obj)
    BY <1>1, <1>9 DEF StatusUpdate, StatusUpdateThen, Held
  <2> QED
    BY <1>1, <1>2, <1>3, <1>4, <2>1, <2>2, FollowersPoll
<1>10. CASE StatusRetry
  <2>1. Exists(w.obj)
    BY <1>1, <1>10 DEF StatusRetry, StatusRetryThen, Held
  <2>2. CASE /\ Exists(cache) /\ apiObj' = [apiObj EXCEPT !.status = w.obj.status]
             /\ Follows(w', cache, cache.status = w.obj.status)
    <3>1. ~Polling(apiObj')
      BY <1>1, <1>2, <2>1, <2>2 DEF Polling, Objects
    <3> QED
      BY <1>1, <1>2, <1>3, <2>2, <3>1, FollowersPoll
  <2>3. ASSUME NEW o \in {cache, w.obj}, NEW f \in BOOLEAN, UNCHANGED apiObj, Exists(o),
               w'.obj = o \/ Follows(w', o, f)
        PROVE  NothingPolled'
    <3>1. o \in Objects /\ ~Polling(o)
      BY <1>1, <1>2, <2>3
    <3>2. Exists(w'.obj) => ~Polling(w'.obj)
      BY <2>3, <3>1, FollowersPoll
    <3> QED
      BY <1>3, <1>4, <2>3, <3>2
  <2> QED
    BY <1>10, <2>2, <2>3, StatusRetryOutcome DEF Resumes
<1>11. CASE AddFinalizer
  <2>1. CASE w' = Idle /\ UNCHANGED apiObj
    BY <1>3, <1>4, <1>5, <2>1
  <2>2. CASE apiObj' = [apiObj EXCEPT !.finalizer = TRUE] /\ Restates(w'.obj, apiObj')
    <3>1. apiObj' \in Objects /\ ~Polling(apiObj')
      BY <1>1, <1>2, <2>2 DEF Objects, Polling
    <3> QED
      BY <1>3, <1>6, <2>2, <3>1
  <2>3. CASE UNCHANGED apiObj /\ Restates(w'.obj, [w.obj EXCEPT !.finalizer = TRUE])
    <3>1. [w.obj EXCEPT !.finalizer = TRUE] \in Objects /\ ~Polling([w.obj EXCEPT !.finalizer = TRUE])
      BY <1>1, <1>2, <1>11 DEF Objects, Polling, AddFinalizer, Held
    <3> QED
      BY <1>3, <1>4, <1>6, <2>3, <3>1
  <2> QED
    BY <1>1, <1>11, <2>1, <2>2, <2>3, AddFinalizerOutcome
<1>12. CASE User
  <2>1. UNCHANGED w.obj
    BY <1>12 DEF User, UserDelete, UserCreate, UserEdit, Outdated, TInv, IInv, TypeOK, Workers
  <2>2. \/ apiObj' = NoObject
        \/ apiObj' = [apiObj EXCEPT !.deleting = TRUE]
        \/ \E name : apiObj' = [apiObj EXCEPT !.gen = @ + 1, !.name = name, !.secretName = NoName]
    BY <1>12 DEF User, UserDelete, UserCreate, UserEdit, Write
  <2>3. ~Exists(NoObject)
    BY DEF NoObject, Exists
  <2>4. Exists(apiObj') => apiObj'.status = apiObj.status
    BY <1>1, <2>2, <2>3 DEF Objects
  <2>5. Exists(apiObj') => ~Polling(apiObj')
    BY <1>2, <2>4 DEF Polling
  <2> QED
    BY <1>2, <1>3, <2>1, <2>5
<1>13. CASE Deliver \/ Resync \/ Restart \/ ServiceManager \/ UNCHANGED vars
  <2>1. UNCHANGED apiObj /\ (UNCHANGED w.obj \/ w' = Idle)
    BY <1>13 DEF Deliver, Resync, Restart, ServiceManager, SMComplete, vars, baseVars
  <2> QED
    BY <1>2, <1>3, <1>4, <1>5, <2>1
<1>14. ~RemoveFinalizer
  BY DEF RemoveFinalizer, Removes
<1> QED
  BY <1>7, <1>8, <1>9, <1>10, <1>11, <1>12, <1>13, <1>14 DEF Next, Worker

\* A prompt step is a step, and if it is a Reconcile the cache is up to date.
LEMMA PromptSteps ==
  ASSUME [Prompt]_vars
  PROVE  /\ [Next]_vars
         /\ \/ User \/ Deliver \/ Resync \/ Restart \/ ServiceManager \/ UNCHANGED vars
            \/ Worker /\ (Reconcile => FinalizerSeen)
BY DEF Prompt, Next

\* Those who are not the worker leave the worker what it is, or stop it.
LEMMA OthersLeaveWorker ==
  ASSUME w \in Workers, User \/ Deliver \/ Resync \/ Restart \/ ServiceManager \/ UNCHANGED vars
  PROVE  w' = Idle \/ (w'.pc = w.pc /\ w'.next = w.next /\ w'.obj = w.obj)
BY DEF User, UserDelete, UserCreate, UserEdit, Outdated, Workers, Deliver, Resync, Restart,
   ServiceManager, SMComplete, vars, baseVars

\* What the worker is at after one of its steps.
LEMMA WorkersNext ==
  ASSUME TInv, Remembers, Worker
  PROVE  /\ w'.pc = "addFinalizer" => Reconcile /\ ~cache.finalizer /\ Exists(cache)
         /\ Setting' => Setting \/ AddFinalizer
<1>1. CASE Poll \/ Recover \/ createInstance \/ updateInstance \/ RecoverForDelete \/ Deprovision
  BY <1>1, PollOutcome, RecoverOutcome, createInstanceOutcome, updateInstanceOutcome,
     RecoverForDeleteOutcome, DeprovisionOutcome DEF Quiet, Setting
<1>2. CASE Reconcile
  <2>1. w.pc = "idle" /\ cache \in Objects /\ cache.finalizer \in BOOLEAN
    BY <1>2, ReconcileOutcome DEF TInv, IInv, TypeOK, Objects
  <2>2. ~Setting'
    BY <1>2, <2>1, ReconcileOutcome DEF Setting, Idle
  <2>3. ASSUME w'.pc = "addFinalizer" PROVE ~cache.finalizer /\ Exists(cache)
    <3>1. Exists(cache) /\ w' = Dispatch(cache, watch = <<>>)
      BY <1>2, <2>1, <2>3 DEF Reconcile, ReconcileWith, Saving
    <3>2. \A o \in Objects : \A f : Dispatch(o, f).pc = "addFinalizer" => ~o.finalizer
      BY DEF Dispatch, ObserveSpec, NeedsInit, DeleteCall, At, Idle
    <3> QED
      BY <2>1, <2>3, <3>1, <3>2
  <2> QED
    BY <1>2, <2>2, <2>3
<1>3. CASE StatusUpdate \/ StatusRetry
  <2>1. \A o, f : Resumes(w', o, f, w.next) => w'.pc # "addFinalizer" /\ ~Setting'
    BY DEF Resumes, Setting, Idle
  <2>2. w.pc = "status" /\ (w'.pc = w.pc /\ w'.next = w.next => w'.pc # "addFinalizer" /\ (Setting' => Setting))
    BY <1>3 DEF StatusUpdate, StatusUpdateThen, StatusRetry, StatusRetryThen, Setting
  <2>3. w' = Idle \/ (w'.pc = "status" /\ w'.next = "requeue") => w'.pc # "addFinalizer" /\ ~Setting'
    BY DEF Idle, Setting
  <2> QED
    BY <1>3, <2>1, <2>2, <2>3, StatusUpdateOutcome, StatusRetryOutcome
<1>4. CASE AddFinalizer
  <2>1. w' = Idle \/ w'.pc = "status"
    BY <1>4, KnownParts, AddFinalizerOutcome
  <2> QED
    BY <1>4, <2>1 DEF Idle
<1>5. CASE RemoveFinalizer
  BY <1>5, KnownParts, RemoveFinalizerOutcome DEF Setting, Idle
<1> QED
  BY <1>1, <1>2, <1>3, <1>4, <1>5 DEF Worker

\* The finalizer goes with a resource that is marked for deletion.
LEMMA FinalizerGoesLast ==
  ASSUME MaxLives <= 1, Names = {K8sName}, DropsFailed = FALSE, GInv, [Next]_vars,
         Exists(apiObj), apiObj.finalizer
  PROVE  Exists(apiObj') => apiObj'.finalizer
<1>1. BaseInv /\ Held /\ Touched /\ OneLife(Creates, Removes)
  BY KnownParts, AlwaysTouched DEF GInv
<1>2. CASE RemoveFinalizer
  <2>1. Doomed
    BY <1>1, <1>2 DEF OneLife, Removing, Removes, RemoveFinalizer
  <2>2. apiObj.deleting
    BY <1>1, <2>1, LastVersion DEF Doomed
  <2> QED
    BY <1>1, <1>2, <2>2, RemoveFinalizerOutcome DEF Released, NoObject, Exists
<1>3. CASE Guarded'
  BY <1>3 DEF Guarded, Exists
<1> QED
  BY <1>1, <1>2, <1>3, FinalizerStays DEF Guarded

\* As long as Reconcile does not begin with a copy from before init.
LEMMA InfantKept ==
  ASSUME MaxLives <= 1, Names = {K8sName}, DropsFailed = FALSE, GInv, Marked, Infant,
         [Prompt]_vars
  PROVE  Infant'
<1>1. /\ BaseInv /\ Held /\ Kinds /\ Touched /\ TInv /\ Remembers
      /\ [Next]_vars /\ w \in Workers /\ apiObj \in Objects /\ w'.obj \in Objects
      /\ apiObj.finalizer \in BOOLEAN
  <2>1. TInv /\ [Next]_vars /\ w \in Workers /\ apiObj \in Objects /\ TypeOK'
    BY PromptSteps, NextIInv DEF GInv, TInv, IInv, TypeOK
  <2> QED
    BY <2>1, KnownParts, KindsOfSteps, AlwaysTouched, StepIsAsked DEF TInv, TypeOK, Workers, Objects
<1>2. ASSUME Exists(apiObj'), ~Exists(apiObj)
      PROVE  NothingPolled' /\ w'.pc # "addFinalizer"
  <2>1. lives = 0 /\ \A o \in Copies : ~Exists(o)
    BY <1>1, <1>2, NothingYet
  <2>2. Begun
    BY <1>1, <1>2 DEF Kinds, Undisturbed, Rewritten, Begun, Deliver, Restart, Write, Exists
  <2>3. \E name, s : UserCreate(name, s)
    <3>1. lives' # lives
      BY <1>1, <2>2 DEF Begun, BaseInv, BaseTypes
    <3>2. UserDelete \/ AddFinalizer \/ RemoveFinalizer => lives' = lives
      BY DEF UserDelete, AddFinalizer, RemoveFinalizer
    <3> QED
      BY <1>1, <1>2, <3>1, <3>2 DEF Touched, Exists
  <2>4. apiObj'.status = EmptyStatus /\ w' = [w EXCEPT !.fresh = FALSE]
    BY <2>3 DEF UserCreate, Write, Outdated, NoObject
  <2>5. w'.obj = w.obj /\ w'.pc = w.pc
    BY <1>1, <2>4 DEF Workers
  <2>6. w.pc = "idle"
    BY <1>1, <2>1, CopiesType DEF Held, BaseInv
  <2>7. ~Polling(apiObj')
    BY <2>4 DEF Polling, EmptyStatus
  <2>8. \A o \in Copies' : Exists(o) => o = apiObj'
    BY <1>1, <2>1, <2>5, NewCopies, CopiesType DEF BaseInv, Exists
  <2> QED
    BY <2>5, <2>6, <2>7, <2>8 DEF NothingPolled, Exists
<1>3. ASSUME Exists(apiObj), Exists(apiObj'), ~apiObj'.finalizer \/ Setting'
      PROVE  NothingPolled'
  <2>1. ~apiObj.finalizer \/ Setting
    <3>1. CASE ~apiObj'.finalizer
      BY <1>1, <1>3, <3>1, FinalizerGoesLast
    <3>2. CASE Setting' /\ Worker
      <4>1. Setting \/ AddFinalizer
        BY <1>1, <3>2, WorkersNext
      <4> QED
        BY <1>3, <4>1 DEF Infant, AddFinalizer
    <3>3. CASE Setting' /\ ~Worker
      <4>1. w' = Idle \/ (w'.pc = w.pc /\ w'.next = w.next)
        BY <1>1, <3>3, OthersLeaveWorker, PromptSteps
      <4> QED
        BY <3>3, <4>1 DEF Setting, Idle
    <3> QED
      BY <1>3, <3>1, <3>2, <3>3
  <2>2. NothingPolled
    BY <1>3, <2>1 DEF Infant
  <2>3. w.pc \notin Creates \cup Removes \cup {"recoverForDelete", "deprovision"}
    BY <1>3, <2>1, InfantFacts DEF Setting, Creates, Removes
  <2> QED
    BY <1>1, <1>3, <2>2, <2>3, PollingComesFromCalls
<1>4. ASSUME Exists(apiObj), Exists(apiObj'), w'.pc = "addFinalizer" PROVE ~apiObj'.finalizer
  <2>1. CASE Worker /\ (Reconcile => FinalizerSeen)
    <3>1. Reconcile /\ ~cache.finalizer
      BY <1>1, <1>4, <2>1, WorkersNext
    <3>2. UNCHANGED apiObj
      BY <1>1, <3>1, ReconcileOutcome
    <3> QED
      BY <1>4, <2>1, <3>1, <3>2 DEF FinalizerSeen
  <2>2. CASE User \/ Deliver \/ Resync \/ Restart \/ ServiceManager \/ UNCHANGED vars
    <3>1. w.pc = "addFinalizer"
      BY <1>1, <1>4, <2>2, OthersLeaveWorker DEF Idle
    <3>2. ~apiObj.finalizer
      BY <1>4, <3>1 DEF Infant
    <3>3. apiObj' = apiObj \/ apiObj' = NoObject
          \/ \E g, name : apiObj' = [apiObj EXCEPT !.gen = g, !.name = name, !.secretName = NoName]
      BY <2>2, <1>4, <3>2 DEF User, UserDelete, UserCreate, UserEdit, Write, Deliver, Resync, Restart,
         ServiceManager, SMComplete, vars, baseVars
    <3>4. ASSUME NEW g, NEW name,
                 apiObj' = [apiObj EXCEPT !.gen = g, !.name = name, !.secretName = NoName]
          PROVE  apiObj'.finalizer = apiObj.finalizer
      BY <1>1, <3>4 DEF Objects
    <3>5. CASE apiObj' = NoObject
      BY <3>5 DEF NoObject
    <3> QED
      BY <3>2, <3>3, <3>4, <3>5
  <2> QED
    BY <2>1, <2>2, PromptSteps
<1> QED
  BY <1>2, <1>3, <1>4 DEF Infant, Exists

\* A spec that is observed leaves nothing to poll.
LEMMA ObservedIsCalm ==
  ASSUME NEW o \in Objects, ~Polling(o), NEW f, NEW x, x = ObserveSpec(o, f)
  PROVE  \/ x = Idle
         \/ x.pc \in {"recover", "update"} /\ ~Polling(x.obj) /\ x.obj.status.obs = x.obj.gen
<1>1. ~Polling(observe(o)) /\ observe(o).status.obs = observe(o).gen
  BY DEF observe, Polling, Objects, Statuses
<1> QED
  BY <1>1 DEF ObserveSpec, At

\* Reconcile polls before it does anything else.
LEMMA DispatchIsCalm ==
  ASSUME NEW o \in Objects, NEW f, NEW x, x = Dispatch(o, f)
  PROVE  \/ x = Idle \/ x.pc \in {"poll", "addFinalizer"}
         \/ x.pc \in {"recoverForDelete", "deprovision"} /\ ~Polling(x.obj)
         \/ x.pc \in {"recover", "update"} /\ ~Polling(x.obj) /\ x.obj.status.obs = x.obj.gen
<1>1. CASE ~Polling(o) /\ x = At(DeleteCall(o), o, f)
  BY <1>1 DEF At, DeleteCall
<1>2. CASE x = At("poll", o, f) \/ x = At("addFinalizer", o, f)
  BY <1>2 DEF At
<1>3. CASE ~Polling(o) /\ x = ObserveSpec(o, f)
  BY <1>3, ObservedIsCalm
<1> QED
  BY <1>1, <1>2, <1>3 DEF Dispatch

\* So does init before it goes on, since there is nothing to poll yet.
LEMMA CalmKept ==
  ASSUME MaxLives <= 1, GInv, Infant, Calm, [Next]_vars
  PROVE  Calm'
<1>1. /\ BaseInv /\ Held /\ TInv /\ Remembers
      /\ w \in Workers /\ apiObj \in Objects /\ cache \in Objects /\ w.obj \in Objects
      /\ apiObj \in Copies /\ w.obj \in Copies
  BY KnownParts, StepIsAsked, CopiesType DEF GInv, TInv, IInv, TypeOK, BaseInv, BaseTypes
<1>2. ASSUME w' = Idle \/ w'.pc \in {"idle", "status", "poll", "addFinalizer", "removeFinalizer"}
      PROVE  Calm'
  BY <1>2 DEF Calm, Creates, Idle
<1>3. ASSUME w'.pc \in {"recover", "update"}, ~Polling(w'.obj), w'.obj.status.obs = w'.obj.gen
      PROVE  Calm'
  BY <1>3 DEF Calm, Creates, Polling
<1>4. ASSUME w'.obj = w.obj, w'.pc \in Creates => w.pc \in Creates,
             w'.pc \in {"recoverForDelete", "deprovision"}
               => w.pc \in {"recoverForDelete", "deprovision"}
      PROVE  Calm'
  BY <1>4 DEF Calm, Creates, Polling
<1>5. CASE User \/ Deliver \/ Resync \/ Restart \/ ServiceManager \/ UNCHANGED vars
  BY <1>1, <1>2, <1>4, <1>5, OthersLeaveWorker
<1>6. CASE Poll \/ createInstance \/ updateInstance \/ RecoverForDelete \/ Deprovision
  BY <1>1, <1>2, <1>6, PollOutcome, createInstanceOutcome, updateInstanceOutcome,
     RecoverForDeleteOutcome, DeprovisionOutcome DEF Quiet
<1>7. CASE Recover
  <2>1. \/ w'.pc = "status"
        \/ w'.pc = "provision" /\ w'.obj = w.obj /\ w.pc = "recover"
    BY <1>7 DEF Recover, Save, Saving, Goto, At
  <2> QED
    BY <1>2, <1>4, <2>1 DEF Creates
<1>8. CASE Reconcile
  <2>1. w.pc = "idle"
    BY <1>8, <1>1, ReconcileOutcome
  <2>2. CASE w' = Dispatch(cache, watch = <<>>)
    <3>1. CASE w'.pc \in {"recoverForDelete", "deprovision"} /\ ~Polling(w'.obj)
      BY <3>1 DEF Calm, Creates, Polling
    <3> QED
      BY <1>1, <1>2, <1>3, <2>2, <3>1, DispatchIsCalm
  <2>3. CASE UNCHANGED w
    BY <1>2, <2>1, <2>3
  <2>4. CASE w' = Saving(setBlockedCondition(cache), watch = <<>>, "noClient")
    BY <1>2, <2>4 DEF Saving
  <2> QED
    BY <1>8, <2>2, <2>3, <2>4, Zenon DEF Reconcile, ReconcileWith
<1>9. ASSUME NEW o \in Objects, NEW f, w.next = "init" => ~Polling(o), w' = Continue(o, f, w.next)
      PROVE  Calm'
  <2>1. CASE w.next = "init" /\ w' = ObserveSpec(o, f)
    BY <1>2, <1>3, <1>9, <2>1, ObservedIsCalm
  <2>2. CASE w' = Idle \/ w' = At("removeFinalizer", o, f) \/ w' = NoClient(o, f)
    BY <1>2, <2>2 DEF At, NoClient, Saving
  <2> QED
    BY <1>9, <2>1, <2>2 DEF Continue
<1>10. CASE StatusUpdate
  <2>1. w.pc = "status" /\ Exists(w.obj)
    BY <1>1, <1>10 DEF StatusUpdate, StatusUpdateThen, Held
  <2>2. CASE w.fresh /\ apiObj' = w.obj /\ w' = Continue(apiObj', TRUE, w.next)
    <3>1. Exists(apiObj)
      BY <1>1, <2>1, <2>2 DEF Held, Objects, Exists
    <3>2. w.next = "init" => ~Polling(w.obj)
      BY <1>1, <2>1, <3>1 DEF Infant, NothingPolled, Setting
    <3> QED
      BY <1>1, <1>9, <2>2, <3>2
  <2>3. CASE w' = [w EXCEPT !.try = 2]
    BY <1>1, <1>2, <2>1, <2>3 DEF Workers
  <2> QED
    <3>1. w.fresh /\ Write([apiObj EXCEPT !.status = w.obj.status]) => apiObj' = w.obj
      BY <1>1 DEF Held, Write
    <3> QED
      BY <1>10, <2>2, <2>3, <3>1, Zenon DEF StatusUpdate, StatusUpdateThen
<1>11. CASE StatusRetry
  <2>1. w.pc = "status"
    BY <1>11 DEF StatusRetry, StatusRetryThen
  <2>2. CASE Exists(cache) /\ watch = <<>> /\ w' = Continue(cache, cache.status = w.obj.status, w.next)
    <3>1. cache = apiObj
      BY <1>1, <2>2, CacheIsCurrent DEF BaseInv
    <3>2. w.next = "init" => ~Polling(cache)
      BY <1>1, <2>1, <2>2, <3>1 DEF Infant, NothingPolled, Setting
    <3> QED
      BY <1>1, <1>9, <2>2, <3>2
  <2>3. ASSUME NEW o, NEW f, w' = [w EXCEPT !.obj = o, !.fresh = f, !.try = @ + 1]
        PROVE  w'.pc = "status"
    BY <1>1, <2>1, <2>3 DEF Workers
  <2>4. ASSUME NEW o, NEW f, w' = GiveUp(o, f, w.next) PROVE w' = Idle \/ w'.pc = "status"
    BY <2>4 DEF GiveUp, NoClient, Saving
  <2>5. \/ Exists(cache) /\ watch = <<>> /\ w' = Continue(cache, cache.status = w.obj.status, w.next)
        \/ \E o, f : \/ w' = [w EXCEPT !.obj = o, !.fresh = f, !.try = @ + 1]
                     \/ w' = GiveUp(o, f, w.next)
    BY <1>11, Zenon DEF StatusRetry, StatusRetryThen
  <2> QED
    BY <1>2, <2>2, <2>3, <2>4, <2>5
<1>12. CASE AddFinalizer \/ RemoveFinalizer
  BY <1>1, <1>2, <1>12, AddFinalizerOutcome, RemoveFinalizerOutcome
<1> QED
  BY <1>5, <1>6, <1>7, <1>8, <1>10, <1>11, <1>12 DEF Next, Worker

------------------------------------------------------------------------------
(* Ready means synced: what the statuses say *)

\* A status that tells of a success tells of an instance SM has, or had, and that is of
\* no older generation than the one observed.
Done(things, st) ==
  st.cond.reason \in {"Created", "Updated"} /\ st.obs > 0 =>
    st.id # NoId /\ (things[st.id].alive => st.obs <= things[st.id].spec.gen)

\* One that tells of an operation tells of one that was asked for with no older one.
Doing(things, st) ==
  st.op # NoOp /\ st.op.type # "DELETE" =>
    st.op.id = st.id /\ st.obs <= things[st.op.id].ops[st.op.n].spec.gen

\* The versions of the resource say so, and the worker's copy unless it is about to
\* create or change the instance, for which it has observed the generation in advance.
Synced ==
  /\ \A k \in 0..Len(watch) : Done(sm, Version(k).status)
  /\ w.pc \notin Creates => Done(sm, w.obj.status)
  /\ \A o \in Copies : Doing(sm, o.status)

\* SM changes nothing that makes it false.
LEMMA SayingStays ==
  ASSUME TInv, [Next]_vars, NeverOlder, NEW st \in Statuses, Recorded(sm, st)
  PROVE  (Done(sm, st) => Done(sm', st)) /\ (Doing(sm, st) => Doing(sm', st))
<1>1. SMInv /\ SMInv' /\ (UNCHANGED sm \/ \E i \in IDs : Advanced(i))
  BY StepIsAsked, RecordsGrow DEF Asked, TInv, IInv, SMInv, TypeOK, Truthful
<1>2. st.id \in IDs \cup {NoId} /\ st.obs \in Nat /\ st.op \in OpRefs
  BY DEF Statuses
<1>3. \A j \in IDs : sm[j].spec.gen \in Nat /\ sm'[j].spec.gen \in Nat
  BY <1>1 DEF SMInv, Things, Requests
<1>4. ASSUME Done(sm, st), st.cond.reason \in {"Created", "Updated"}, st.obs > 0
      PROVE  st.id # NoId /\ (sm'[st.id].alive => st.obs <= sm'[st.id].spec.gen)
  <2>1. st.id \in IDs /\ (sm[st.id].alive => st.obs <= sm[st.id].spec.gen)
    BY <1>2, <1>4 DEF Done
  <2>2. st.id \in Used
    BY <1>4, <2>1 DEF Recorded, Done, Used, FreeIDs
  <2>3. sm'[st.id].alive => sm[st.id].alive /\ sm[st.id].spec.gen <= sm'[st.id].spec.gen
    BY <2>2 DEF NeverOlder
  <2> QED
    BY <1>2, <1>3, <1>4, <2>1, <2>3 DEF Done
<1>5. ASSUME Doing(sm, st), st.op # NoOp, st.op.type # "DELETE"
      PROVE  st.op.id = st.id /\ st.obs <= sm'[st.op.id].ops[st.op.n].spec.gen
  <2>1. st.op.id \in IDs /\ st.op.n \in DOMAIN sm[st.op.id].ops
    BY <1>2, <1>5 DEF Recorded, OpRefs
  <2>2. sm'[st.op.id].ops[st.op.n].spec = sm[st.op.id].ops[st.op.n].spec
    BY <1>1, <2>1 DEF Advanced
  <2> QED
    BY <1>5, <2>2 DEF Doing
<1> QED
  BY <1>4, <1>5 DEF Done, Doing

\* What the worker's copy has to say of SM after a step.
Says(x) ==
  /\ x.pc \notin Creates => Done(sm', x.obj.status)
  /\ Doing(sm', x.obj.status)

\* When the resource and the worker's copy say what is true, all do.
LEMMA SyncedKept ==
  ASSUME TInv, [Next]_vars, NeverOlder, Synced,
         Done(sm', apiObj'.status), Doing(sm', apiObj'.status), Says(w')
  PROVE  Synced'
<1>1. /\ BaseInv /\ Kinds /\ Truthful /\ BaseInv'
      /\ \A o \in Copies : o.status \in Statuses /\ Recorded(sm, o.status)
  <2>1. BaseInv /\ Kinds /\ Truthful /\ BaseInv'
    BY KnownParts, KindsOfSteps, NextTInv, Parts DEF TInv
  <2>2. \A o \in Copies : o \in Objects
    BY <2>1, CopiesType DEF BaseInv
  <2> QED
    BY <2>1, <2>2 DEF Truthful, Objects
<1>2. \A k \in 0..Len(watch) : Version(k) \in Copies
  BY <1>1 DEF Version, Copies, BaseInv, BaseTypes
<1>3. \A o \in Copies' : Doing(sm', o.status)
  BY <1>1, NewCopies, SayingStays DEF Synced, Says
<1>4. ASSUME NEW k \in 0..Len(watch') PROVE Done(sm', Version(k)'.status)
  <2>1. CASE Version(k)' = apiObj'
    BY <2>1
  <2>2. ASSUME NEW j \in 0..Len(watch), Version(k)' = Version(j)
        PROVE  Done(sm', Version(k)'.status)
    BY <1>1, <1>2, <2>2, SayingStays DEF Synced
  <2> QED
    BY <1>1, <2>1, <2>2, NewVersions
<1> QED
  BY <1>3, <1>4 DEF Synced, Says

\* A status with neither a success nor an operation that is not a deletion says nothing.
LEMMA NothingSaid ==
  ASSUME NEW things, NEW st
  PROVE  /\ st.cond.reason \notin {"Created", "Updated"} => Done(things, st)
         /\ st.op = NoOp \/ st.op.type = "DELETE" => Doing(things, st)
BY DEF Done, Doing

\* The conditions that tell of no success leave the rest of the status as it is.
LEMMA SettersSay ==
  ASSUME NEW o \in Objects, NEW type \in OperationCategories, NEW things, Doing(things, o.status),
         NEW p \in {setInProgressCondition(type, o), setFailureConditions(type, o),
                    setBlockedCondition(o)}
  PROVE  Done(things, p.status) /\ Doing(things, p.status)
<1>1. ASSUME NEW c PROVE LET q == WithConditions(o, c).status
                         IN q.cond = c /\ q.id = o.status.id /\ q.op = o.status.op
                            /\ q.obs = o.status.obs
  BY DEF WithConditions, Objects, Statuses
<1>2. p.status.cond.reason \notin {"Created", "Updated"}
  BY <1>1 DEF setInProgressCondition, setFailureConditions, setBlockedCondition,
     getConditionReason, OperationCategories
<1>3. p.status.id = o.status.id /\ p.status.op = o.status.op /\ p.status.obs = o.status.obs
  BY <1>1 DEF setInProgressCondition, setFailureConditions, setBlockedCondition
<1> QED
  BY <1>2, <1>3 DEF Done, Doing

\* A success says what it said before of the instance, and a failure that is final only
\* that a generation was observed.
LEMMA EndsSay ==
  ASSUME NEW o \in Objects, NEW type \in OperationCategories
  PROVE  /\ LET st == setSuccessConditions(type, o).status
            IN /\ st.id = o.status.id /\ st.op = o.status.op /\ st.obs = o.status.obs
               /\ type = "DELETE" => st.cond.reason = "Deleted"
         /\ LET st == markAsNonTransientError(type, o).status
            IN st.op = o.status.op /\ st.cond.reason \notin {"Created", "Updated"}
<1>1. \A p \in Objects : \A c :
         LET q == WithConditions(p, c).status
         IN q.cond = c /\ q.id = p.status.id /\ q.op = p.status.op /\ q.obs = p.status.obs
  BY DEF WithConditions, Objects, Statuses
<1>2. \A p \in Objects : observe(p).status.op = p.status.op /\ observe(p).status.cond = p.status.cond
  BY DEF observe, Objects, Statuses
<1>3. setFailureConditions(type, o) \in Objects
  BY SettersType
<1>4. LET st == setSuccessConditions(type, o).status
      IN /\ st.id = o.status.id /\ st.op = o.status.op /\ st.obs = o.status.obs
         /\ type = "DELETE" => st.cond.reason = "Deleted"
  BY <1>1 DEF setSuccessConditions, getConditionReason
<1>5. LET st == setFailureConditions(type, o).status
      IN st.op = o.status.op /\ st.cond.reason \notin {"Created", "Updated"}
  BY <1>1 DEF setFailureConditions, getConditionReason, OperationCategories
<1> QED
  BY <1>2, <1>3, <1>4, <1>5 DEF markAsNonTransientError

\* An operation that was accepted is in the status with the generation it was asked for.
LEMMA AcceptedSays ==
  ASSUME NEW o \in Objects, NEW type \in OperationCategories, NEW i \in IDs, NEW n \in Nat,
         NEW things, type = "DELETE" \/ o.status.obs <= things[i].ops[n].spec.gen,
         NEW p, p = InOperation(type, i, n, o)
  PROVE  Done(things, p.status) /\ Doing(things, p.status)
<1> DEFINE op == [type |-> type, id |-> i, n |-> n]
           q == [o EXCEPT !.status.id = i, !.status.op = op]
<1>1. op \in OpRefs /\ op.id = i /\ op.n = n /\ op.type = type
  BY DEF OpRefs
<1> HIDE DEF op
<1>2. q \in Objects /\ q.status.id = i /\ q.status.op = op /\ q.status.obs = o.status.obs
  BY <1>1 DEF Objects, Statuses
<1>3. Doing(things, q.status)
  BY <1>1, <1>2 DEF Doing
<1>4. p = setInProgressCondition(type, q)
  BY DEF InOperation, op
<1> HIDE DEF q
<1> QED
  BY <1>2, <1>3, <1>4, SettersSay

\* A status that is saved is what the worker says.
LEMMA SavedSays ==
  ASSUME NEW p, NEW next, Save(p, next), Done(sm', p.status), Doing(sm', p.status)
  PROVE  Says(w')
BY DEF Save, Saving, Says

\* A worker that returns says nothing.
LEMMA IdleSays == ASSUME w' = Idle PROVE Says(w')
<1>1. Idle.obj.status = EmptyStatus
  BY DEF Idle, NoObject
<1> QED
  BY <1>1, NothingSaid DEF EmptyStatus, NoConditions, Says

\* A request that failed tells of no success and of no operation.
LEMMA AnswersSay ==
  ASSUME w.obj \in Objects, ~Polling(w.obj), NEW type \in OperationCategories,
         \/ Transient(type) \/ NonTransient(type)
         \/ \E next : Save(setFailureConditions(type, w.obj), next)
  PROVE  Says(w')
<1>1. w.obj.status.op = NoOp /\ Doing(sm', w.obj.status)
  BY NothingSaid DEF Polling
<1>2. ASSUME NEW p \in {setInProgressCondition(type, w.obj), setFailureConditions(type, w.obj)},
             NEW next, Save(p, next)
      PROVE  Says(w')
  BY <1>1, <1>2, SettersSay, SavedSays
<1>3. ASSUME NonTransient(type) PROVE Says(w')
  <2> DEFINE st == markAsNonTransientError(type, w.obj).status
  <2>1. Done(sm', st) /\ Doing(sm', st)
    BY <1>1, EndsSay, NothingSaid
  <2> QED
    BY <1>3, <2>1, SavedSays DEF NonTransient
<1> QED
  BY <1>2, <1>3 DEF Transient

\* poll: the operation that succeeded is among those that SM says it has done.
LEMMA PollSays ==
  ASSUME TInv, Synced, Latest, Poll
  PROVE  Says(w')
<1> DEFINE st == w.obj.status
           op == w.obj.status.op
           failed == setFailureConditions(op.type, w.obj)
           succeeded == setSuccessConditions(op.type, w.obj)
           unread == freshStatus(w.obj, failed.status.cond)
<1>1. /\ w.pc = "poll" /\ UNCHANGED sm /\ SMInv
      /\ w.obj \in Objects /\ st \in Statuses /\ Recorded(sm, st) /\ w.obj \in Copies
  BY RequestIsNamed DEF Poll
<1>2. op \in OpRefs /\ op # NoOp /\ op.type \in OperationCategories /\ op.id \in IDs
  BY <1>1 DEF TInv, IInv, CallsAreMeant, Polling, Statuses, OpRefs
<1>3. failed \in Objects /\ succeeded \in Objects
  BY <1>1, <1>2, SettersType
<1>4. Doing(sm, st)
  BY <1>1 DEF Synced
<1>5. Done(sm', failed.status)
  BY <1>1, <1>2, <1>4, SettersSay
<1>6. failed.status.cond.reason \notin {"Created", "Updated"}
  BY <1>1, <1>2 DEF setFailureConditions, WithConditions, getConditionReason, OperationCategories,
     Objects, Statuses
<1>7. /\ succeeded.status.id = st.id /\ succeeded.status.op = op /\ succeeded.status.obs = st.obs
      /\ op.type = "DELETE" => succeeded.status.cond.reason = "Deleted"
  BY <1>1, <1>2, EndsSay
<1> HIDE DEF failed, succeeded
<1>8. \A p \in Objects : LET q == ClearOp(p).status
                         IN q.id = p.status.id /\ q.op = NoOp /\ q.obs = p.status.obs
                            /\ q.cond = p.status.cond
  BY DEF ClearOp, Objects, Statuses
<1>9. ASSUME NEW p \in {failed, succeeded}, NEW next, Save(ClearOp(p), next), Done(sm', p.status)
      PROVE  Says(w')
  <2>1. Done(sm', ClearOp(p).status)
    BY <1>3, <1>8, <1>9 DEF Done
  <2>2. Doing(sm', ClearOp(p).status)
    BY <1>3, <1>8, NothingSaid
  <2> QED
    BY <1>9, <2>1, <2>2, SavedSays
<1>10. CASE Save([w.obj EXCEPT !.status = freshStatus(w.obj, failed.status.cond)], "requeue")
  <2>1. unread.op = NoOp /\ unread.cond = failed.status.cond
    BY DEF freshStatus, EmptyStatus
  <2>2. [w.obj EXCEPT !.status = unread].status = unread
    BY <1>1 DEF Objects
  <2>3. Done(sm', unread) /\ Doing(sm', unread)
    BY <1>6, <2>1, NothingSaid
  <2> HIDE DEF unread
  <2> QED
    BY <1>10, <2>2, <2>3, SavedSays DEF unread
<1>11. CASE op.type # "DELETE" /\ sm[op.id].ops[op.n].state = "SUCCEEDED"
            /\ Save(ClearOp(succeeded), "done")
  <2>1. op.id = st.id /\ st.obs <= sm[op.id].ops[op.n].spec.gen
    BY <1>2, <1>4, <1>11 DEF Doing
  <2>2. st.id # NoId /\ st.id \in IDs /\ st.id \in Used
    BY <1>1, <1>2, <2>1, ServiceManagerAssumption DEF Recorded, Used, FreeIDs
  <2>3. op.n \in DOMAIN sm[op.id].ops /\ sm[op.id].ops[op.n].type = op.type
    BY <1>1, <1>2 DEF Recorded
  <2>4. /\ sm[op.id].ops[op.n] \in Ops(op.id) /\ sm[op.id].ops[op.n].spec.gen \in Nat
        /\ sm[op.id].spec.gen \in Nat /\ st.obs \in Nat
    BY <1>1, <1>2, <2>3, SpecsType DEF Statuses
  <2>5. sm[op.id].alive => sm[op.id].ops[op.n].spec.gen <= sm[op.id].spec.gen
    BY <1>2, <1>11, <2>1, <2>2, <2>3, <2>4 DEF Latest, OperationCategories
  <2>6. sm[st.id].alive => st.obs <= sm[st.id].spec.gen
    <3>1. \A g, h, k \in Nat : g <= h /\ h <= k => g <= k
      OBVIOUS
    <3>2. sm[op.id].alive => st.obs <= sm[op.id].spec.gen
      BY <2>1, <2>4, <2>5, <3>1, Zenon
    <3> HIDE DEF op
    <3> QED
      BY <2>1, <3>2, Zenon
  <2>7. Done(sm', succeeded.status)
    BY <1>1, <1>7, <2>2, <2>6 DEF Done
  <2> QED
    BY <1>9, <1>11, <2>7
<1>12. CASE op.type = "DELETE"
            /\ w' = [At("removeFinalizer", succeeded, w.fresh) EXCEPT !.next = "clearOp"]
  <2>1. w'.obj = succeeded
    BY <1>12 DEF At
  <2>2. Done(sm', succeeded.status) /\ Doing(sm', succeeded.status)
    BY <1>7, <1>12, NothingSaid
  <2> QED
    BY <2>1, <2>2 DEF Says
<1>13. CASE Requeue
  BY <1>13, IdleSays DEF Requeue
<1>14. \/ Save([w.obj EXCEPT !.status = freshStatus(w.obj, failed.status.cond)], "requeue")
       \/ Requeue
       \/ \E next : Save(ClearOp(failed), next)
       \/ op.type # "DELETE" /\ sm[op.id].ops[op.n].state = "SUCCEEDED"
            /\ Save(ClearOp(succeeded), "done")
       \/ op.type = "DELETE"
            /\ w' = [At("removeFinalizer", succeeded, w.fresh) EXCEPT !.next = "clearOp"]
  BY DEF Poll, failed, succeeded
<1> QED
  BY <1>5, <1>9, <1>10, <1>11, <1>12, <1>13, <1>14

\* Recovery tells of the first generation when there was no other, and else of none.
LEMMA ResyncedSays ==
  ASSUME TInv, Aged, w.pc # "idle", UNCHANGED sm, NEW i \in IDs, sm[i].alive,
         NEW p, p = resyncInstanceStatus(w.obj, i)
  PROVE  Done(sm', p.status) /\ Doing(sm', p.status)
<1> DEFINE o == w.obj
           type == Last(i).type
           found == [o EXCEPT !.status.id = i, !.status.op = NoOp, !.status.obs = ResyncedGeneration(o)]
<1>1. SMInv /\ o \in Objects /\ o.gen \in Nat /\ NoId \notin IDs /\ NoOp \in OpRefs
  BY RequestIsNamed, ServiceManagerAssumption DEF Objects, OpRefs
<1>2. i \in Used
  BY <1>1 DEF SMInv, LiveIsRecorded, Used, FreeIDs
<1>3. /\ Last(i) \in Operations /\ Last(i).spec \in SpecsOf(i) /\ sm[i].spec \in SpecsOf(i)
      /\ Len(sm[i].ops) \in Nat /\ Last(i) = sm[i].ops[Len(sm[i].ops)]
      /\ \A s \in SpecsOf(i) : s.gen \in Nat /\ s \in Specs
  BY <1>1, <1>2, SpecsType DEF Last, Specs
<1>4. /\ Last(i).spec.gen \in Nat /\ Last(i).spec.gen > 0
      /\ sm[i].spec.gen \in Nat /\ sm[i].spec.gen > 0
  BY <1>3 DEF Aged
<1>5. type \in OperationCategories /\ Last(i).state \in OperationStates
  BY <1>3 DEF Operations
<1>6. ResyncedGeneration(o) \in {0, 1}
  BY DEF ResyncedGeneration
<1>7. /\ found \in Objects /\ found.status.id = i /\ found.status.op = NoOp
      /\ found.status.obs = ResyncedGeneration(o)
  <2>1. ASSUME NEW r \in Nat
        PROVE  LET q == [o EXCEPT !.status.id = i, !.status.op = NoOp, !.status.obs = r]
               IN q \in Objects /\ q.status.id = i /\ q.status.op = NoOp /\ q.status.obs = r
    BY <1>1 DEF Objects, Statuses
  <2>2. ResyncedGeneration(o) \in Nat
    BY <1>6
  <2> QED
    BY <2>1, <2>2
<1>8. /\ found.status.obs <= sm'[i].ops[Len(sm[i].ops)].spec.gen
      /\ found.status.obs <= sm'[i].spec.gen
  <2>1. \A g \in Nat : g > 0 => ResyncedGeneration(o) <= g
    BY <1>6
  <2>2. ResyncedGeneration(o) <= sm[i].ops[Len(sm[i].ops)].spec.gen
    BY <1>3, <1>4, <2>1
  <2>3. ResyncedGeneration(o) <= sm[i].spec.gen
    BY <1>4, <2>1
  <2> QED
    BY <1>7, <2>2, <2>3
<1>9. \/ p = InOperation(type, i, Len(sm[i].ops), found)
      \/ p = setSuccessConditions(type, found)
      \/ p = setFailureConditions(type, found)
  BY <1>5 DEF resyncInstanceStatus, OperationStates
<1> HIDE DEF found, type
<1>10. Doing(sm', found.status)
  BY <1>7, NothingSaid
<1>11. CASE p = InOperation(type, i, Len(sm[i].ops), found)
  BY <1>3, <1>5, <1>7, <1>8, <1>11, AcceptedSays
<1>12. CASE p = setSuccessConditions(type, found)
  <2>1. p.status.id = i /\ p.status.op = NoOp /\ p.status.obs = found.status.obs
    BY <1>5, <1>7, <1>12, EndsSay
  <2> QED
    BY <1>1, <1>8, <2>1 DEF Done, Doing
<1>13. CASE p = setFailureConditions(type, found)
  BY <1>5, <1>7, <1>10, <1>13, SettersSay
<1> QED
  BY <1>9, <1>11, <1>12, <1>13

LEMMA RecoverSays ==
  ASSUME TInv, Calm, Aged, Recover
  PROVE  Says(w')
<1>1. w.pc = "recover" /\ w.obj \in Objects /\ ~Polling(w.obj) /\ UNCHANGED sm
  BY RequestIsNamed DEF Recover, Calm, Creates
<1>2. CASE Save(setFailureConditions("CREATE", w.obj), "requeue")
  BY <1>1, <1>2, AnswersSay DEF OperationCategories
<1>3. ASSUME NEW i \in Matches(w.obj.name), Save(resyncInstanceStatus(w.obj, i), "done")
      PROVE  Says(w')
  <2>1. i \in IDs /\ sm[i].alive
    BY DEF Matches
  <2> QED
    BY <1>1, <1>3, <2>1, ResyncedSays, SavedSays
<1>4. CASE Goto("provision", w.obj)
  <2>1. w'.pc \in Creates /\ w'.obj = w.obj
    BY <1>4 DEF Goto, At, Creates
  <2>2. Doing(sm', w.obj.status)
    BY <1>1, NothingSaid DEF Polling
  <2> QED
    BY <2>1, <2>2 DEF Says
<1> QED
  BY <1>2, <1>3, <1>4 DEF Recover

\* A creation that SM accepted was asked for with the generation observed.
LEMMA createInstanceSays ==
  ASSUME TInv, Calm, createInstance
  PROVE  Says(w')
<1> DEFINE o == w.obj
           spec == RequestOf(w.obj)
<1>1. /\ w.pc = "provision" /\ o \in Objects /\ o.gen \in Nat /\ o.status.obs = o.gen
      /\ ~Polling(o) /\ sm \in [IDs -> Things] /\ LiveIsRecorded /\ NoId \notin IDs
      /\ spec \in Requests /\ spec.gen = o.gen
  BY RequestIsNamed, ServiceManagerAssumption DEF createInstance, Calm, Creates, Objects, SMInv, RequestOf
<1>2. ASSUME NEW i \in FreeIDs, NEW state \in {"SUCCEEDED", "IN_PROGRESS"}, SMCreate(i, spec, state)
      PROVE  i \in IDs /\ sm'[i].spec.gen = o.gen /\ sm'[i].ops[1].spec.gen = o.gen
  <2>1. i \in IDs /\ sm[i].ops = <<>>
    BY DEF FreeIDs
  <2>2. /\ sm'[i].spec = spec /\ 1 \in DOMAIN sm'[i].ops
        /\ Adds(i, Operation("CREATE", state, spec))
    BY <1>1, <1>2, <2>1, CreateFacts
  <2>3. sm'[i].ops[1] = Operation("CREATE", state, spec)
    BY <2>1, <2>2 DEF Adds
  <2> QED
    BY <1>1, <2>1, <2>2, <2>3 DEF Operation
<1>3. ASSUME NEW i \in FreeIDs, SMCreate(i, spec, "SUCCEEDED"),
             Save(setSuccessConditions("CREATE", [o EXCEPT !.status.id = i]), "done")
      PROVE  Says(w')
  <2> DEFINE q == [o EXCEPT !.status.id = i]
             p == setSuccessConditions("CREATE", q)
  <2>1. i \in IDs /\ sm'[i].spec.gen = o.gen
    BY <1>2, <1>3
  <2>2. q \in Objects /\ q.status.id = i /\ q.status.op = NoOp /\ q.status.obs = o.gen
    BY <1>1, <2>1 DEF Objects, Statuses, Polling
  <2> HIDE DEF q
  <2>3. p.status.id = i /\ p.status.op = NoOp /\ p.status.obs = o.gen
    BY <2>2, EndsSay DEF OperationCategories
  <2>4. i # NoId /\ o.gen \in Nat
    BY <1>1, <2>1
  <2>5. Done(sm', p.status) /\ Doing(sm', p.status)
    <3> HIDE DEF p, o
    <3> QED
      BY <2>1, <2>3, <2>4 DEF Done, Doing
  <2> QED
    BY <1>3, <2>5, SavedSays DEF q
<1>4. ASSUME NEW i \in FreeIDs, SMCreate(i, spec, "IN_PROGRESS"),
             Save(InOperation("CREATE", i, 1, o), "requeue")
      PROVE  Says(w')
  <2>1. i \in IDs /\ o.status.obs <= sm'[i].ops[1].spec.gen
    BY <1>1, <1>2, <1>4
  <2>2. Done(sm', InOperation("CREATE", i, 1, o).status) /\ Doing(sm', InOperation("CREATE", i, 1, o).status)
    BY <1>1, <2>1, AcceptedSays DEF OperationCategories
  <2> QED
    BY <1>4, <2>2, SavedSays
<1>5. CASE Transient("CREATE") \/ NonTransient("CREATE")
  BY <1>1, <1>5, AnswersSay DEF OperationCategories
<1> QED
  BY <1>3, <1>4, <1>5 DEF createInstance, Unanswered

\* So was an update.
LEMMA updateInstanceSays ==
  ASSUME TInv, Calm, updateInstance
  PROVE  Says(w')
<1> DEFINE o == w.obj
           i == w.obj.status.id
           spec == RequestOf(w.obj)
           n == Len(sm[i].ops) + 1
<1>1. /\ w.pc = "update" /\ o \in Objects /\ o.gen \in Nat /\ o.status.obs = o.gen
      /\ ~Polling(o) /\ sm \in [IDs -> Things] /\ LiveIsRecorded /\ NoId \notin IDs
      /\ spec \in Requests /\ spec.gen = o.gen /\ i \in IDs
  BY RequestIsNamed, ServiceManagerAssumption DEF updateInstance, Calm, Creates, Objects, SMInv,
     RequestOf, Used
<1>2. CASE /\ SMPatch(i, spec, "SUCCEEDED")
           /\ Save(setSuccessConditions("UPDATE", o), "done")
  <2> DEFINE p == setSuccessConditions("UPDATE", o)
  <2>1. sm'[i].spec = spec
    BY <1>1, <1>2, PatchFacts
  <2>2. p.status.id = i /\ p.status.op = NoOp /\ p.status.obs = o.gen
    BY <1>1, EndsSay DEF OperationCategories, Polling
  <2>3. i # NoId /\ o.status.obs = o.gen /\ sm'[i].spec.gen = o.gen /\ o.gen \in Nat
    BY <1>1, <2>1
  <2>4. Done(sm', p.status) /\ Doing(sm', p.status)
    <3> HIDE DEF p, i, o, spec
    <3> QED
      BY <2>2, <2>3 DEF Done, Doing
  <2> QED
    BY <1>2, <2>4, SavedSays
<1>3. CASE /\ SMPatch(i, spec, "IN_PROGRESS")
           /\ Save(InOperation("UPDATE", i, n, o), "requeue")
  <2>1. n \in DOMAIN sm'[i].ops /\ Adds(i, Operation("UPDATE", "IN_PROGRESS", spec))
    <3>1. /\ sm \in [IDs -> Things] /\ LiveIsRecorded /\ i \in IDs /\ spec \in Requests
          /\ SMPatch(i, spec, "IN_PROGRESS")
      BY <1>1, <1>3
    <3> HIDE DEF i, spec
    <3> QED
      BY <3>1, PatchFacts
  <2>2. n \in Nat /\ n \notin DOMAIN sm[i].ops
    <3> DEFINE ops == sm[i].ops
    <3>1. ops \in Seq(Operations) /\ n = Len(ops) + 1
      BY <1>1 DEF Things
    <3> HIDE DEF ops, n
    <3>2. n \in Nat /\ n \notin DOMAIN ops
      BY <3>1
    <3> QED
      BY <3>2 DEF ops
  <2>3. sm'[i].ops[n].spec = spec
    <3> HIDE DEF n, i, spec
    <3>1. sm'[i].ops[n] = Operation("UPDATE", "IN_PROGRESS", spec)
      BY <2>1, <2>2, Zenon DEF Adds
    <3> QED
      BY <3>1 DEF Operation
  <2>4. o.status.obs <= sm'[i].ops[n].spec.gen
    <3>1. o.gen \in Nat /\ o.status.obs = o.gen /\ spec.gen = o.gen
      BY <1>1
    <3> HIDE DEF o, i, n, spec
    <3> QED
      BY <2>3, <3>1
  <2>5. Done(sm', InOperation("UPDATE", i, n, o).status) /\ Doing(sm', InOperation("UPDATE", i, n, o).status)
    <3>1. o \in Objects /\ i \in IDs /\ n \in Nat /\ "UPDATE" \in OperationCategories
      BY <1>1, <2>2 DEF OperationCategories
    <3> HIDE DEF o, i, n
    <3> QED
      BY <2>4, <3>1, AcceptedSays
  <2> QED
    BY <1>3, <2>5, SavedSays
<1>4. CASE Transient("UPDATE") \/ NonTransient("UPDATE")
  BY <1>1, <1>4, AnswersSay DEF OperationCategories
<1> QED
  BY <1>2, <1>3, <1>4 DEF updateInstance, Unanswered

\* What is deleted is said to be.
LEMMA DeletionSays ==
  ASSUME TInv, Calm, RecoverForDelete \/ Deprovision,
         w'.pc = "removeFinalizer" => Done(sm', w.obj.status)
  PROVE  Says(w')
<1> DEFINE o == w.obj
           i == w.obj.status.id
           n == Len(sm[i].ops) + 1
<1>1. o \in Objects /\ ~Polling(o) /\ sm \in [IDs -> Things] /\ NoId \notin IDs
  BY RequestIsNamed, ServiceManagerAssumption DEF RecoverForDelete, Deprovision, Calm, SMInv
<1>2. ASSUME NEW j \in IDs \cup {NoId}
      PROVE  /\ [o EXCEPT !.status.id = j] \in Objects
             /\ [o EXCEPT !.status.id = j].status.op = NoOp
  BY <1>1 DEF Objects, Statuses, Polling
<1>3. ASSUME NEW j \in IDs \cup {NoId}, NEW next, NEW p, Save(p, next),
             p \in {setInProgressCondition("DELETE", [o EXCEPT !.status.id = j]),
                    setSuccessConditions("DELETE", [o EXCEPT !.status.id = j])}
      PROVE  Says(w')
  <2> DEFINE q == [o EXCEPT !.status.id = j]
  <2>1. q \in Objects /\ q.status.op = NoOp
    BY <1>2
  <2>2. p = setInProgressCondition("DELETE", q) \/ p = setSuccessConditions("DELETE", q)
    BY <1>3
  <2> HIDE DEF q
  <2>3. Doing(sm', q.status)
    BY <2>1, NothingSaid
  <2>4. Done(sm', p.status) /\ Doing(sm', p.status)
    <3>1. CASE p = setInProgressCondition("DELETE", q)
      BY <2>1, <2>3, <3>1, SettersSay DEF OperationCategories
    <3>2. CASE p = setSuccessConditions("DELETE", q)
      <4>1. p.status.op = NoOp /\ p.status.cond.reason = "Deleted"
        BY <2>1, <3>2, EndsSay DEF OperationCategories
      <4> QED
        BY <4>1, NothingSaid
    <3> QED
      BY <2>2, <3>1, <3>2
  <2> QED
    BY <1>3, <2>4, SavedSays
<1>4. CASE \/ Transient("DELETE")
           \/ Save(setFailureConditions("DELETE", o), "requeue")
  BY <1>1, <1>4, AnswersSay DEF OperationCategories
<1>5. CASE RecoverForDelete
  <2>1. CASE Requeue
    BY <2>1, IdleSays DEF Requeue
  <2>2. ASSUME NEW j \in Matches(o.name),
               Save(setInProgressCondition("DELETE", [o EXCEPT !.status.id = j]), "done")
        PROVE  Says(w')
    BY <1>3, <2>2 DEF Matches
  <2>3. CASE Goto("removeFinalizer", o)
    <3>1. w'.pc = "removeFinalizer" /\ w'.obj = o
      BY <2>3 DEF Goto, At
    <3>2. Doing(sm', o.status)
      BY <1>1, NothingSaid DEF Polling
    <3> QED
      BY <3>1, <3>2 DEF Says
  <2> QED
    BY <1>5, <2>1, <2>2, <2>3 DEF RecoverForDelete
<1>6. CASE Deprovision
  <2>1. i \in IDs /\ n \in Nat
    BY <1>1, <1>6, RequestIsNamed DEF Deprovision, Used, Things
  <2>2. CASE Save(setSuccessConditions("DELETE", [o EXCEPT !.status.id = NoId]), "finalize")
    BY <1>3, <2>2
  <2>3. CASE Save(InOperation("DELETE", i, n, o), "requeue")
    <3>1. /\ Done(sm', InOperation("DELETE", i, n, o).status)
          /\ Doing(sm', InOperation("DELETE", i, n, o).status)
      BY <1>1, <2>1, AcceptedSays DEF OperationCategories
    <3> QED
      BY <2>3, <3>1, SavedSays
  <2> QED
    BY <1>4, <1>6, <2>2, <2>3 DEF Deprovision, UnansweredDelete
<1> QED
  BY <1>5, <1>6

\* A worker that is about to create or to change something says nothing yet.
LEMMA CreatesSay ==
  ASSUME Calm', w'.pc \in Creates
  PROVE  Says(w')
<1>1. ~Polling(w'.obj)
  BY DEF Calm, Polling
<1> QED
  BY <1>1, NothingSaid DEF Polling, Says

\* Reconcile goes on with the copy it has.
LEMMA ContinueSays ==
  ASSUME NEW o \in Objects, Done(sm', o.status), Doing(sm', o.status), Calm', NEW f, NEW next,
         w' = Continue(o, f, next)
  PROVE  Says(w')
<1>1. CASE w' = Idle
  BY <1>1, IdleSays
<1>2. CASE w' = ObserveSpec(o, f)
  <2>1. w' = Idle \/ w'.pc \in Creates
    BY <1>2 DEF ObserveSpec, At, Creates
  <2> QED
    BY <1>1, <2>1, CreatesSay
<1>3. CASE w' = At("removeFinalizer", o, f)
  <2>1. w'.obj = o
    BY <1>3 DEF At
  <2> QED
    BY <2>1 DEF Says
<1>4. CASE w' = NoClient(o, f)
  <2>1. w'.obj = setFailureConditions("CREATE", o)
    BY <1>4 DEF NoClient, Saving
  <2>2. Done(sm', w'.obj.status) /\ Doing(sm', w'.obj.status)
    BY <2>1, SettersSay DEF OperationCategories
  <2> QED
    BY <2>2 DEF Says
<1> QED
  BY <1>1, <1>2, <1>3, <1>4 DEF Continue

\* What the resource and the worker's copy have to say after a step.
Told == Done(sm', apiObj'.status) /\ Doing(sm', apiObj'.status) /\ Says(w')

\* What is known before it.
LEMMA ToldBefore ==
  ASSUME TInv, Synced
  PROVE  /\ BaseInv /\ Held /\ w \in Workers
         /\ apiObj \in Objects /\ cache \in Objects /\ w.obj \in Objects
         /\ \A o \in {apiObj, cache} : Done(sm, o.status) /\ Doing(sm, o.status)
         /\ Doing(sm, w.obj.status) /\ (w.pc \notin Creates => Done(sm, w.obj.status))
<1>1. /\ BaseInv /\ Held /\ w \in Workers
      /\ apiObj \in Objects /\ cache \in Objects /\ w.obj \in Objects
      /\ apiObj \in Copies /\ cache \in Copies /\ w.obj \in Copies
  BY KnownParts, CopiesType DEF TInv, IInv, TypeOK, BaseInv, BaseTypes
<1>2. Done(sm, apiObj.status) /\ Done(sm, cache.status)
  BY <1>1, LastVersion DEF Synced
<1> QED
  BY <1>1, <1>2 DEF Synced

LEMMA ReconcileTells ==
  ASSUME TInv, Synced, Calm', Reconcile
  PROVE  Told
<1>1. UNCHANGED <<apiObj, sm>> /\ w.pc = "idle" /\ w.pc \notin Creates
  BY ReconcileOutcome DEF Creates
<1>2. /\ cache \in Objects /\ Done(sm', apiObj'.status) /\ Doing(sm', apiObj'.status)
      /\ Done(sm', cache.status) /\ Doing(sm', cache.status)
      /\ Done(sm', w.obj.status) /\ Doing(sm', w.obj.status)
  BY <1>1, ToldBefore
<1>3. CASE UNCHANGED w
  BY <1>2, <1>3 DEF Says, Told
<1>4. CASE w' = Saving(setBlockedCondition(cache), watch = <<>>, "noClient")
  <2>1. w'.obj = setBlockedCondition(cache)
    BY <1>4 DEF Saving
  <2>2. Done(sm', w'.obj.status) /\ Doing(sm', w'.obj.status)
    BY <1>2, <2>1, SettersSay DEF OperationCategories
  <2> QED
    BY <1>2, <2>2 DEF Says, Told
<1>5. CASE w' = Dispatch(cache, watch = <<>>)
  <2>1. w' = Idle \/ w'.pc \in Creates \/ w'.obj = cache
    BY <1>5 DEF Dispatch, ObserveSpec, At, Creates
  <2>2. w'.obj = cache => Says(w')
    BY <1>2 DEF Says
  <2> QED
    BY <1>2, <2>1, <2>2, IdleSays, CreatesSay DEF Told
<1> QED
  BY <1>3, <1>4, <1>5, Zenon DEF Reconcile, ReconcileWith

LEMMA StatusTells ==
  ASSUME TInv, Synced, Calm', StatusUpdate \/ StatusRetry
  PROVE  Told
<1>1. UNCHANGED sm /\ w.pc = "status" /\ w.pc \notin Creates
  BY DEF StatusUpdate, StatusUpdateThen, StatusRetry, StatusRetryThen, Creates
<1>2. /\ w \in Workers /\ cache \in Objects /\ apiObj \in Objects /\ w.obj \in Objects
      /\ \A o \in {apiObj, cache, w.obj} : Done(sm', o.status) /\ Doing(sm', o.status)
  BY <1>1, ToldBefore
<1>3. UNCHANGED apiObj \/ apiObj' = [apiObj EXCEPT !.status = w.obj.status]
      \/ apiObj' = [cache EXCEPT !.status = w.obj.status]
  BY DEF StatusUpdate, StatusUpdateThen, StatusRetry, StatusRetryThen, Write
<1>4. apiObj' \in Objects /\ (apiObj'.status = w.obj.status \/ UNCHANGED apiObj)
  BY <1>2, <1>3 DEF Objects
<1>5. Done(sm', apiObj'.status) /\ Doing(sm', apiObj'.status)
  BY <1>2, <1>4
<1>6. CASE StatusUpdate
  <2>1. CASE w' = Continue(apiObj', TRUE, w.next)
    BY <1>4, <1>5, <2>1, ContinueSays DEF Told
  <2>2. CASE w' = [w EXCEPT !.try = 2]
    <3>1. w'.obj = w.obj
      BY <1>2, <2>2 DEF Workers
    <3> QED
      BY <1>2, <1>5, <3>1 DEF Told, Says
  <2> QED
    BY <1>6, <2>1, <2>2, Zenon DEF StatusUpdate, StatusUpdateThen
<1>7. CASE StatusRetry
  <2>1. CASE w' = Continue(cache, cache.status = w.obj.status, w.next)
    BY <1>2, <1>5, <2>1, ContinueSays DEF Told
  <2>2. ASSUME NEW o \in {cache, w.obj}, NEW f, w' = [w EXCEPT !.obj = o, !.fresh = f, !.try = @ + 1]
        PROVE  Told
    <3>1. w'.obj = o
      BY <1>2, <2>2 DEF Workers
    <3> QED
      BY <1>2, <1>5, <3>1 DEF Told, Says
  <2>3. ASSUME NEW o \in {cache, w.obj}, NEW f, w' = GiveUp(o, f, w.next)
        PROVE  Told
    <3>1. CASE w' = Idle
      BY <1>5, <3>1, IdleSays DEF Told
    <3>2. CASE w' = NoClient(o, f)
      <4>1. w'.obj = setFailureConditions("CREATE", o) /\ o \in Objects /\ Doing(sm', o.status)
        BY <1>2, <3>2 DEF NoClient, Saving
      <4>2. Done(sm', w'.obj.status) /\ Doing(sm', w'.obj.status)
        BY <4>1, SettersSay DEF OperationCategories
      <4> QED
        BY <1>5, <4>2 DEF Says, Told
    <3> QED
      BY <2>3, <3>1, <3>2 DEF GiveUp
  <2>4. \/ w' = Continue(cache, cache.status = w.obj.status, w.next)
        \/ \E o \in {cache, w.obj}, f \in BOOLEAN :
             \/ w' = [w EXCEPT !.obj = o, !.fresh = f, !.try = @ + 1]
             \/ w' = GiveUp(o, f, w.next)
    BY <1>7, Zenon DEF StatusRetry, StatusRetryThen
  <2> QED
    BY <2>1, <2>2, <2>3, <2>4
<1> QED
  BY <1>6, <1>7

LEMMA FinalizerTells ==
  ASSUME TInv, Synced, AddFinalizer \/ RemoveFinalizer
  PROVE  Told
<1>1. UNCHANGED sm /\ w.pc \notin Creates
  BY ToldBefore, AddFinalizerOutcome, RemoveFinalizerOutcome DEF Creates
<1>2. /\ BaseInv /\ Held /\ cache \in Objects /\ apiObj \in Objects /\ w.obj \in Objects
      /\ \A o \in {apiObj, cache, w.obj} : Done(sm', o.status) /\ Doing(sm', o.status)
  BY <1>1, ToldBefore
<1>3. \A o \in Objects, b \in BOOLEAN :
        [o EXCEPT !.finalizer = b] \in Objects /\ [o EXCEPT !.finalizer = b].status = o.status
  BY DEF Objects
<1>4. NoObject.status.op = NoOp /\ NoObject.status.cond.reason = "none"
  BY DEF NoObject, EmptyStatus, NoConditions
<1>5. CASE AddFinalizer
  <2>1. CASE w' = Idle /\ UNCHANGED apiObj
    BY <1>2, <2>1, IdleSays DEF Told
  <2>2. ASSUME NEW o \in {apiObj, w.obj}, w'.obj = setInProgressCondition("CREATE", [o EXCEPT !.finalizer = TRUE]),
               UNCHANGED apiObj \/ apiObj' = [apiObj EXCEPT !.finalizer = TRUE]
        PROVE  Told
    <3> DEFINE p == [o EXCEPT !.finalizer = TRUE]
    <3>1. p \in Objects /\ Doing(sm', p.status)
      BY <1>2, <1>3
    <3>2. apiObj'.status = apiObj.status
      BY <1>2, <1>3, <2>2
    <3> HIDE DEF p
    <3>3. Done(sm', w'.obj.status) /\ Doing(sm', w'.obj.status)
      BY <2>2, <3>1, SettersSay DEF OperationCategories, p
    <3> QED
      BY <1>2, <3>2, <3>3 DEF Told, Says
  <2> QED
    BY <1>2, <1>5, <2>1, <2>2, AddFinalizerOutcome
<1>6. CASE RemoveFinalizer
  <2>1. Done(sm', apiObj'.status) /\ Doing(sm', apiObj'.status)
    <3>1. UNCHANGED apiObj \/ apiObj' = NoObject \/ apiObj' = [apiObj EXCEPT !.finalizer = FALSE]
      BY <1>2, <1>6, RemoveFinalizerOutcome DEF Released
    <3>2. apiObj'.status = apiObj.status \/ apiObj' = NoObject
      BY <1>2, <1>3, <3>1
    <3> QED
      BY <1>2, <1>4, <3>2, NothingSaid
  <2>2. ASSUME NEW o \in {w.obj, cache, apiObj}, NEW b \in BOOLEAN,
               w'.obj = ClearOp([o EXCEPT !.finalizer = b])
        PROVE  Told
    <3> DEFINE p == [o EXCEPT !.finalizer = b]
    <3>1. p \in Objects /\ p.status = o.status /\ Done(sm', p.status)
      BY <1>2, <1>3
    <3> HIDE DEF p
    <3>2. LET st == ClearOp(p).status
          IN st.op = NoOp /\ st.id = p.status.id /\ st.obs = p.status.obs /\ st.cond = p.status.cond
      BY <3>1 DEF ClearOp, Objects, Statuses
    <3>3. Done(sm', ClearOp(p).status) /\ Doing(sm', ClearOp(p).status)
      BY <3>1, <3>2 DEF Done, Doing
    <3> QED
      BY <2>1, <2>2, <3>3 DEF Told, Says, p
  <2>3. CASE w' = Idle
    BY <2>1, <2>3, IdleSays DEF Told
  <2> QED
    BY <1>2, <1>6, <2>2, <2>3, RemoveFinalizerOutcome
<1> QED
  BY <1>5, <1>6

LEMMA OthersTell ==
  ASSUME TInv, Synced, NeverOlder, [Next]_vars,
         User \/ Deliver \/ Resync \/ Restart \/ ServiceManager \/ UNCHANGED vars
  PROVE  Told
<1>1. /\ BaseInv /\ Truthful /\ w \in Workers /\ apiObj \in Objects
      /\ apiObj.status \in Statuses /\ Recorded(sm, apiObj.status)
      /\ w.obj.status \in Statuses /\ Recorded(sm, w.obj.status)
      /\ w.pc \notin Creates => Done(sm, w.obj.status)
      /\ Doing(sm, w.obj.status) /\ Done(sm, apiObj.status) /\ Doing(sm, apiObj.status)
  <2>1. apiObj \in Copies /\ w.obj \in Copies /\ apiObj \in Objects /\ w.obj \in Objects
    BY KnownParts, CopiesType DEF BaseInv
  <2> QED
    BY <2>1, ToldBefore, KnownParts DEF Truthful, Objects
<1>2. Done(sm', apiObj.status) /\ Doing(sm', apiObj.status)
  BY <1>1, SayingStays
<1>3. apiObj'.status = apiObj.status \/ apiObj'.status = EmptyStatus
  <2>1. CASE User
    <3>1. \A g, name, s : /\ [apiObj EXCEPT !.gen = g, !.name = name, !.secretName = s].status = apiObj.status
                         /\ [NoObject EXCEPT !.uid = g, !.gen = 1, !.name = name,
                                             !.secretName = s].status = EmptyStatus
      BY <1>1 DEF NoObject, Objects
    <3>2. NoObject.status = EmptyStatus /\ [apiObj EXCEPT !.deleting = TRUE].status = apiObj.status
      BY <1>1 DEF NoObject, Objects
    <3>3. UserDelete \/ \E name, s : UserCreate(name, s) \/ UserEdit(name, s)
      BY <2>1 DEF User
    <3>4. CASE UserDelete
      BY <3>2, <3>4 DEF UserDelete, Write
    <3>5. ASSUME NEW name, NEW s, UserCreate(name, s) \/ UserEdit(name, s)
          PROVE  apiObj'.status = apiObj.status \/ apiObj'.status = EmptyStatus
      <4>1. \/ apiObj' = [NoObject EXCEPT !.uid = lives + 1, !.gen = 1, !.name = name, !.secretName = s]
            \/ apiObj' = [apiObj EXCEPT !.gen = @ + 1, !.name = name, !.secretName = s]
        BY <3>5 DEF UserCreate, UserEdit, Write
      <4>2. /\ [NoObject EXCEPT !.uid = lives + 1, !.gen = 1, !.name = name,
                                !.secretName = s].status = EmptyStatus
            /\ [apiObj EXCEPT !.gen = @ + 1, !.name = name, !.secretName = s].status = apiObj.status
        BY <1>1, <3>1 DEF Objects
      <4> QED
        BY <4>1, <4>2
    <3> QED
      BY <3>3, <3>4, <3>5
  <2>2. CASE Deliver \/ Resync \/ Restart \/ ServiceManager \/ UNCHANGED vars
    BY <2>2 DEF Deliver, Resync, Restart, ServiceManager, SMComplete, vars, baseVars
  <2> QED
    BY <2>1, <2>2
<1>4. EmptyStatus.op = NoOp /\ EmptyStatus.cond.reason = "none"
  BY DEF EmptyStatus, NoConditions
<1>5. Done(sm', apiObj'.status) /\ Doing(sm', apiObj'.status)
  BY <1>2, <1>3, <1>4, NothingSaid
<1>6. CASE w' = Idle
  BY <1>5, <1>6, IdleSays DEF Told
<1>7. CASE w'.pc = w.pc /\ w'.obj = w.obj
  BY <1>1, <1>5, <1>7, SayingStays DEF Told, Says
<1> QED
  BY <1>1, <1>6, <1>7, OthersLeaveWorker

\* Whatever step is taken, the statuses say what is true.
LEMMA NextSynced ==
  ASSUME TInv, Synced, Aged, Latest, NeverOlder, Calm, Calm', [Next]_vars
  PROVE  Synced'
<1>1. Told => Synced'
  BY SyncedKept DEF Told
<1>2. CASE Poll \/ Recover \/ createInstance \/ updateInstance \/ RecoverForDelete \/ Deprovision
  <2>1. UNCHANGED apiObj
    BY <1>2, CallsAreQuiet
  <2>2. Done(sm', apiObj.status) /\ Doing(sm', apiObj.status)
    <3>1. apiObj.status \in Statuses /\ Recorded(sm, apiObj.status)
      BY KnownParts, CopiesType DEF Truthful, BaseInv, Objects
    <3> QED
      BY <3>1, ToldBefore, SayingStays
  <2>3. Says(w')
    <3>1. CASE RecoverForDelete \/ Deprovision
      <4>1. w'.pc = "removeFinalizer" => Done(sm', w.obj.status)
        <5>1. CASE RecoverForDelete
          BY <5>1, ToldBefore DEF RecoverForDelete, Creates
        <5>2. CASE Deprovision
          BY <5>2 DEF Deprovision, UnansweredDelete, Transient, Save, Saving
        <5> QED
          BY <3>1, <5>1, <5>2
      <4> QED
        BY <3>1, <4>1, DeletionSays
    <3> QED
      BY <1>2, <3>1, PollSays, RecoverSays, createInstanceSays, updateInstanceSays
  <2> QED
    BY <1>1, <2>1, <2>2, <2>3 DEF Told
<1>3. CASE User \/ Deliver \/ Resync \/ Restart \/ ServiceManager \/ UNCHANGED vars
  BY <1>1, <1>3, OthersTell
<1>4. CASE Reconcile \/ StatusUpdate \/ StatusRetry \/ AddFinalizer \/ RemoveFinalizer
  BY <1>1, <1>4, ReconcileTells, StatusTells, FinalizerTells
<1> QED
  BY <1>2, <1>3, <1>4 DEF Next, Worker

\* A resource that does not exist has nothing to say.
Blank == ~Exists(apiObj) => apiObj = NoObject

LEMMA BlankKept ==
  ASSUME TInv, Blank, [Next]_vars
  PROVE  Blank'
<1>1. BaseInv /\ Held /\ apiObj \in Objects /\ w.obj \in Objects /\ lives \in Nat
  BY KnownParts DEF BaseInv, BaseTypes
<1>2. CASE apiObj' = NoObject
  BY <1>2 DEF Blank
<1>3. ASSUME Exists(apiObj) => Exists(apiObj'), Exists(apiObj) \/ UNCHANGED apiObj \/ Exists(apiObj')
      PROVE  Blank'
  BY <1>3 DEF Blank, Exists
<1>4. CASE StatusUpdate
  <2>1. w.pc = "status" /\ Exists(w.obj) /\ (UNCHANGED apiObj \/ apiObj' = w.obj)
    BY <1>1, <1>4, StatusUpdateOutcome DEF Held
  <2> QED
    BY <1>3, <2>1
<1>5. CASE StatusRetry
  <2>1. UNCHANGED apiObj \/ (Exists(apiObj) /\ apiObj' = [apiObj EXCEPT !.status = w.obj.status])
    BY <1>5, StatusRetryOutcome
  <2> QED
    BY <1>1, <1>3, <2>1 DEF Exists, Objects
<1>6. CASE AddFinalizer
  <2>1. UNCHANGED apiObj \/ (Exists(apiObj) /\ apiObj' = [apiObj EXCEPT !.finalizer = TRUE])
    BY <1>1, <1>6, AddFinalizerOutcome
  <2> QED
    BY <1>1, <1>3, <2>1 DEF Exists, Objects
<1>7. CASE RemoveFinalizer
  <2>1. \/ UNCHANGED apiObj \/ apiObj' = NoObject
        \/ ~apiObj.deleting /\ apiObj' = [apiObj EXCEPT !.finalizer = FALSE]
    BY <1>1, <1>7, RemoveFinalizerOutcome DEF Released
  <2>2. CASE apiObj' = [apiObj EXCEPT !.finalizer = FALSE] /\ ~Exists(apiObj)
    <3>1. apiObj = NoObject /\ ~apiObj.finalizer
      BY <2>2 DEF Blank, NoObject
    <3>2. \A o \in Objects : ~o.finalizer => [o EXCEPT !.finalizer = FALSE] = o
      BY DEF Objects
    <3> QED
      BY <1>1, <1>2, <2>2, <3>1, <3>2
  <2> QED
    BY <1>1, <1>2, <1>3, <2>1, <2>2 DEF Exists, Objects
<1>8. CASE User
  <2>1. UserDelete \/ \E name, s : UserCreate(name, s) \/ UserEdit(name, s)
    BY <1>8 DEF User
  <2>2. CASE UserDelete
    <3>1. Exists(apiObj) /\ (apiObj' = NoObject \/ apiObj' = [apiObj EXCEPT !.deleting = TRUE])
      BY <2>2 DEF UserDelete, Write
    <3> QED
      BY <1>1, <1>2, <1>3, <3>1 DEF Exists, Objects
  <2>3. ASSUME NEW name, NEW s, UserCreate(name, s) PROVE Blank'
    <3>1. apiObj'.uid = lives + 1
      BY <2>3 DEF UserCreate, Write, NoObject
    <3> QED
      BY <1>1, <1>3, <3>1 DEF Exists
  <2>4. ASSUME NEW name, NEW s, UserEdit(name, s) PROVE Blank'
    <3>1. Exists(apiObj) /\ apiObj'.uid = apiObj.uid
      BY <1>1, <2>4 DEF UserEdit, Write, Objects
    <3> QED
      BY <1>3, <3>1 DEF Exists
  <2> QED
    BY <2>1, <2>2, <2>3, <2>4
<1>9. CASE \/ Deliver \/ Resync \/ Restart \/ ServiceManager \/ UNCHANGED vars \/ Reconcile
           \/ Poll \/ Recover \/ createInstance \/ updateInstance \/ RecoverForDelete \/ Deprovision
  <2>1. UNCHANGED apiObj
    BY <1>9, CallsAreQuiet, ReconcileOutcome DEF Deliver, Resync, Restart, ServiceManager,
       SMComplete, vars, baseVars
  <2> QED
    BY <1>3, <2>1
<1> QED
  BY <1>4, <1>5, <1>6, <1>7, <1>8, <1>9 DEF Next, Worker

\* All that is known of a prompt controller.
PInv == GInv /\ Marked /\ Blank /\ Infant /\ Calm /\ Aged /\ Latest /\ Synced

LEMMA NextPInv ==
  ASSUME MaxLives <= 1, Names = {K8sName}, DropsFailed = FALSE, PInv, [Prompt]_vars
  PROVE  PInv'
<1>1. [Next]_vars /\ TInv
  BY PromptSteps DEF PInv, GInv
<1>2. GInv' /\ OneStep(Calls)
  BY <1>1, NextGInv, StepIsOne DEF PInv
<1>3. Marked' /\ Blank'
  BY <1>1, KnownParts, AlwaysTouched, MarkedKept, BlankKept DEF PInv
<1>4. Infant' /\ Calm'
  BY <1>1, InfantKept, CalmKept DEF PInv
<1>5. Aged' /\ Latest' /\ NeverOlder
  BY <1>1, <1>2, AlwaysHeir, AgedKept DEF PInv
<1>6. Synced'
  BY <1>1, <1>4, <1>5, NextSynced DEF PInv
<1> QED
  BY <1>2, <1>3, <1>4, <1>5, <1>6 DEF PInv

LEMMA InitPInv == Init => PInv
<1> SUFFICES ASSUME Init PROVE PInv
  OBVIOUS
<1>1. GInv
  BY InitGInv
<1>2. /\ Copies = {NoObject} /\ w.obj = NoObject /\ w.pc = "idle" /\ apiObj = NoObject
      /\ \A k \in 0..Len(watch) : Version(k) = NoObject
  BY DEF Init, Copies, Idle, Version
<1>3. /\ ~Exists(NoObject) /\ ~NoObject.deleting /\ NoObject.status.op = NoOp
      /\ NoObject.status.cond.reason = "none"
  BY DEF NoObject, Exists, EmptyStatus, NoConditions
<1>4. Used = {} /\ Specs = {}
  BY DEF Init, Unused, Used, FreeIDs, Specs
<1>5. Marked /\ Blank /\ Infant /\ Calm
  BY <1>2, <1>3 DEF Marked, Blank, Infant, Calm, Creates
<1>6. Aged /\ Latest
  BY <1>2, <1>3, <1>4 DEF Aged, Latest
<1>7. Synced
  BY <1>2, <1>3, NothingSaid DEF Synced
<1> QED
  BY <1>1, <1>5, <1>6, <1>7 DEF PInv

\* A resource that says it was created or updated at its current generation has an
\* instance in SM with the spec of that generation, for one incarnation that is given
\* to Reconcile only after the informer has shown what init did.
THEOREM ReadyIsSynced ==
  ASSUME MaxLives <= 1, Names = {K8sName}, DropsFailed = FALSE
  PROVE  PromptSpec => []ReadyMeansSynced
<1>1. PInv /\ [Prompt]_vars => PInv'
  BY NextPInv
<1>2. PInv => ReadyMeansSynced
  <2> SUFFICES ASSUME PInv, apiObj.status.cond.reason \in {"Created", "Updated"},
                      apiObj.status.obs = apiObj.gen
               PROVE  LET i == apiObj.status.id
                      IN i # NoId /\ (sm[i].alive => sm[i].spec = RequestOf(apiObj))
    BY DEF ReadyMeansSynced
  <2> DEFINE i == apiObj.status.id
  <2>1. /\ BaseInv /\ Truthful /\ SMInv /\ apiObj \in Objects /\ apiObj \in Copies
        /\ apiObj.gen \in Nat /\ apiObj.name \in Names \cup {NoName}
        /\ i \in IDs \cup {NoId} /\ lives \in Nat /\ MaxLives \in Nat
    <3>1. BaseInv /\ Truthful /\ apiObj \in Objects /\ apiObj \in Copies /\ lives \in Nat
      BY KnownParts, CopiesType DEF PInv, GInv, BaseInv, BaseTypes
    <3>2. SMInv
      BY DEF PInv, GInv, TInv, IInv, TypeOK, Truthful, SMInv
    <3> QED
      BY <3>1, <3>2, ConstantsAssumption DEF Objects, Statuses
  <2>2. Exists(apiObj)
    BY DEF PInv, Blank, NoObject, EmptyStatus, NoConditions
  <2>3. apiObj.gen > 0 /\ apiObj.uid = lives /\ lives <= MaxLives /\ apiObj.name \in Names
    BY <2>1, <2>2 DEF PInv, GInv, Backlog, Aged, Truthful
  <2>4. i # NoId /\ (sm[i].alive => apiObj.gen <= sm[i].spec.gen)
    BY <2>1, <2>3, ToldBefore DEF PInv, GInv, Done
  <2>5. ASSUME sm[i].alive PROVE sm[i].spec = RequestOf(apiObj)
    <3>1. i \in IDs /\ i \in Used
      BY <2>1, <2>4, <2>5 DEF SMInv, LiveIsRecorded, Used, FreeIDs
    <3>2. sm[i].spec \in Specs /\ sm[i].spec \in Requests /\ sm[i].spec.name \in Names
      BY <2>1, <3>1, SpecsType DEF Specs, Truthful, RequestsNamed
    <3>3. sm[i].spec.gen <= apiObj.gen /\ sm[i].spec.uid \in 1..lives
      BY <2>1, <2>2, <3>2 DEF PInv, Aged
    <3>4. sm[i].spec.gen = apiObj.gen /\ sm[i].spec.uid = apiObj.uid
          /\ sm[i].spec.name = apiObj.name
      BY <2>1, <2>3, <2>4, <2>5, <3>2, <3>3 DEF Requests
    <3> QED
      BY <3>2, <3>4 DEF Requests, RequestOf
  <2> QED
    BY <2>4, <2>5
<1> QED
  BY InitPInv, <1>1, <1>2, PTL DEF PromptSpec

------------------------------------------------------------------------------
(* The id of the instance: a status without one is not final *)

\* A status without an id, and so without an operation, tells that it was computed
\* anew or that something is in progress.
Named(st) ==
  /\ st.op # NoOp => st.id # NoId
  /\ st.id = NoId => st.obs = 0 \/ (st.cond.ready = "False" /\ ~st.cond.failed)

\* So does the worker's copy, unless the generation has been observed in advance.
NamedBy(x) ==
  ~x.obj.deleting => /\ x.obj.status.op # NoOp => x.obj.status.id # NoId
                     /\ x.pc \notin Creates => Named(x.obj.status)

\* Until the resource is deleted, and there being an SM client.
Identified ==
  /\ \A k \in 0..Len(watch) : ~Version(k).deleting => Named(Version(k).status)
  /\ NamedBy(w)
  /\ w.pc = "status" => w.next # "noClient"

\* Neither a listing, a reply nor a request is lost, and there is an SM client.
Answering == ClientFaults = FALSE /\ SMFaults \cap {"refused", "lost", "list"} = {}

\* What the resource and the worker have to show after a step.
Identifies ==
  /\ ~apiObj'.deleting => Named(apiObj'.status)
  /\ NamedBy(w')
  /\ w'.pc = "status" => w'.next # "noClient"

LEMMA IdentifiedKept ==
  ASSUME BaseInv, BaseInv', Kinds, Identified, Identifies
  PROVE  Identified'
<1>1. ASSUME NEW k \in 0..Len(watch'), ~Version(k)'.deleting PROVE Named(Version(k)'.status)
  <2>1. ASSUME NEW j \in 0..Len(watch), Version(k)' = Version(j) PROVE Named(Version(k)'.status)
    BY <1>1, <2>1 DEF Identified
  <2> QED
    BY <1>1, <2>1, NewVersions DEF Identifies
<1> QED
  BY <1>1 DEF Identified, Identifies, NamedBy, Named

\* A status with an id may say anything; a copy in progress need not have one.
LEMMA SettersName ==
  ASSUME NEW o \in Objects, NEW type \in OperationCategories, o.status.op # NoOp => o.status.id # NoId
  PROVE  /\ Named(setInProgressCondition(type, o).status)
         /\ o.status.id # NoId => /\ Named(o.status) /\ Named(setSuccessConditions(type, o).status)
                                  /\ Named(setFailureConditions(type, o).status)
                                  /\ Named(markAsNonTransientError(type, o).status)
                                  /\ Named(ClearOp(setSuccessConditions(type, o)).status)
                                  /\ Named(ClearOp(setFailureConditions(type, o)).status)
<1>1. \A p \in Objects : observe(p).status.id = p.status.id /\ ClearOp(p).status.id = p.status.id
  BY DEF observe, ClearOp, Objects, Statuses
<1>2. setSuccessConditions(type, o) \in Objects /\ setFailureConditions(type, o) \in Objects
  BY SettersType
<1>3. /\ setSuccessConditions(type, o).status.id = o.status.id
      /\ setFailureConditions(type, o).status.id = o.status.id
  BY DEF setSuccessConditions, setFailureConditions, WithConditions, Objects, Statuses
<1>4. Named(setInProgressCondition(type, o).status)
  <2> DEFINE c == [ready |-> "False", failed |-> FALSE, reason |-> getConditionReason(type, "IN_PROGRESS")]
  <2>1. c.ready = "False" /\ ~c.failed
    OBVIOUS
  <2>2. setInProgressCondition(type, o) = WithConditions(o, c)
    BY DEF setInProgressCondition
  <2> HIDE DEF c
  <2>3. LET q == WithConditions(o, c).status
        IN q.cond = c /\ q.id = o.status.id /\ q.op = o.status.op
    BY DEF WithConditions, Objects, Statuses
  <2> QED
    BY <2>1, <2>2, <2>3 DEF Named
<1>5. markAsNonTransientError(type, o).status.id = o.status.id
  BY <1>1, <1>2, <1>3 DEF markAsNonTransientError
<1> QED
  BY <1>1, <1>2, <1>3, <1>4, <1>5 DEF Named

\* A status that is saved.
LEMMA SavedNames ==
  ASSUME UNCHANGED apiObj, Identified, BaseInv, NEW p, Named(p.status), NEW next, next # "noClient",
         Save(p, next)
  PROVE  Identifies
<1>1. ~apiObj'.deleting => Named(apiObj'.status)
  BY LastVersion DEF Identified
<1>2. w'.obj = p /\ w'.next = next
  BY DEF Save, Saving
<1> QED
  BY <1>1, <1>2 DEF Identifies, NamedBy, Named

\* An id comes from SM, and is not given up unless it is to be found again.
LEMMA CallsIdentify ==
  ASSUME TInv, Remembers, Identified, Answering,
         Poll \/ Recover \/ createInstance \/ updateInstance \/ RecoverForDelete \/ Deprovision
  PROVE  Identifies
<1> DEFINE o == w.obj
<1>1. /\ BaseInv /\ o \in Objects /\ NoId \notin IDs
      /\ UNCHANGED apiObj /\ w.pc # "idle"
      /\ ~apiObj'.deleting => Named(apiObj'.status)
      /\ {"refused", "lost", "list"} \cap SMFaults = {}
  BY RequestIsNamed, KnownParts, CallsAreQuiet, LastVersion, ServiceManagerAssumption
  DEF Identified, Answering
<1>2. w'.pc = "status" => w'.next # "noClient"
  BY PollOutcome, RecoverOutcome, createInstanceOutcome, updateInstanceOutcome,
     RecoverForDeleteOutcome, DeprovisionOutcome DEF Quiet
<1>3. ASSUME w' = Idle \/ w'.obj.deleting PROVE Identifies
  BY <1>1, <1>2, <1>3 DEF Identifies, NamedBy, Named, Idle, NoObject, EmptyStatus
<1>4. CASE o.deleting
  <2>1. Computed
    BY PollOutcome, RecoverOutcome, createInstanceOutcome, updateInstanceOutcome,
       RecoverForDeleteOutcome, DeprovisionOutcome
  <2>2. w' = Idle \/ w'.obj.deleting = o.deleting
    BY <1>1, <2>1, SameGeneration DEF Computed, Carries
  <2> QED
    BY <1>3, <1>4, <2>2
<1>5. ASSUME ~o.deleting
      PROVE  /\ ~RecoverForDelete /\ ~Deprovision
             /\ o.status.op # NoOp => o.status.id # NoId
    BY <1>5 DEF TInv, IInv, CallsAreMeant, RecoverForDelete, Deprovision, Identified, NamedBy
<1>6. ASSUME ~o.deleting, NEW p, NEW next, Named(p.status), next # "noClient", Save(p, next)
      PROVE  Identifies
  BY <1>1, <1>6, SavedNames
<1>7. CASE ~o.deleting /\ Poll
  <2> DEFINE failed == setFailureConditions(o.status.op.type, o)
             succeeded == setSuccessConditions(o.status.op.type, o)
             fresh == freshStatus(o, failed.status.cond)
  <2>1. o.status.op # NoOp /\ o.status.op.type \in OperationCategories /\ o.status.id # NoId
    BY <1>1, <1>5, <1>7 DEF Poll, TInv, IInv, CallsAreMeant, Polling, Objects, Statuses, OpRefs
  <2>2. Named(ClearOp(failed).status) /\ Named(ClearOp(succeeded).status) /\ Named(succeeded.status)
    BY <1>1, <2>1, SettersName
  <2>3. Named([o EXCEPT !.status = fresh].status)
    <3>1. fresh.op = NoOp /\ fresh.obs = 0
      BY DEF freshStatus, EmptyStatus
    <3>2. [o EXCEPT !.status = fresh].status = fresh
      BY <1>1 DEF Objects
    <3> QED
      BY <3>1, <3>2 DEF Named
  <2> HIDE DEF failed, succeeded
  <2>4. \/ Save([o EXCEPT !.status = fresh], "requeue")
        \/ w' = Idle
        \/ Save(ClearOp(failed), "done") \/ Save(ClearOp(failed), "requeue")
        \/ Save(ClearOp(succeeded), "done")
        \/ w' = [At("removeFinalizer", succeeded, w.fresh) EXCEPT !.next = "clearOp"]
    BY <1>7 DEF Poll, failed, succeeded, Requeue
  <2>5. CASE w' = [At("removeFinalizer", succeeded, w.fresh) EXCEPT !.next = "clearOp"]
    <3>1. w'.obj = succeeded
      BY <2>5 DEF At
    <3> QED
      BY <1>1, <1>2, <2>2, <3>1 DEF Identifies, NamedBy, Named
  <2> QED
    BY <1>3, <1>6, <1>7, <2>2, <2>3, <2>4, <2>5
<1>8. CASE ~o.deleting /\ Recover
  <2>1. ASSUME NEW i \in Matches(o.name), Save(resyncInstanceStatus(o, i), "done") PROVE Identifies
    <3> DEFINE type == Last(i).type
               found == [o EXCEPT !.status.id = i, !.status.op = NoOp,
                                  !.status.obs = ResyncedGeneration(o)]
               found2 == [found EXCEPT !.status.id = i,
                            !.status.op = [type |-> type, id |-> i, n |-> Len(sm[i].ops)]]
    <3>1. i \in IDs /\ i # NoId /\ sm[i].alive /\ SMInv
      BY <1>1, <1>8, RequestIsNamed DEF Matches, Recover
    <3>2. type \in OperationCategories /\ Last(i).state \in OperationStates /\ Len(sm[i].ops) \in Nat
      <4>1. i \in Used
        BY <3>1 DEF SMInv, LiveIsRecorded, Used, FreeIDs
      <4>2. Last(i) \in Operations
        BY <3>1, <4>1, SpecsType DEF Last
      <4> QED
        BY <3>1, <4>2, SpecsType DEF Operations
    <3>3. found \in Objects /\ found.status.id = i
      <4>1. ASSUME NEW r \in Nat
            PROVE  LET q == [o EXCEPT !.status.id = i, !.status.op = NoOp, !.status.obs = r]
                   IN q \in Objects /\ q.status.id = i
        BY <1>1, <3>1 DEF Objects, Statuses, OpRefs
      <4>2. ResyncedGeneration(o) \in Nat
        BY DEF ResyncedGeneration
      <4> QED
        BY <4>1, <4>2
    <3>4. found2 \in Objects /\ found2.status.id = i
      <4>1. [type |-> type, id |-> i, n |-> Len(sm[i].ops)] \in OpRefs
        BY <3>1, <3>2 DEF OpRefs
      <4> HIDE DEF found, type
      <4> QED
        BY <3>1, <3>3, <4>1 DEF Objects, Statuses
    <3>5. \/ resyncInstanceStatus(o, i) = setInProgressCondition(type, found2)
          \/ resyncInstanceStatus(o, i) = setSuccessConditions(type, found)
          \/ resyncInstanceStatus(o, i) = setFailureConditions(type, found)
      BY <3>2 DEF resyncInstanceStatus, OperationStates, InOperation
    <3> HIDE DEF found, found2, type
    <3>6. Named(resyncInstanceStatus(o, i).status)
      BY <3>1, <3>2, <3>3, <3>4, <3>5, SettersName
    <3> QED
      BY <1>6, <1>8, <2>1, <3>6
  <2>2. CASE Goto("provision", o)
    <3>1. w'.obj = o /\ w'.pc = "provision"
      BY <2>2 DEF Goto, At
    <3> QED
      BY <1>1, <1>2, <1>5, <1>8, <3>1 DEF Identifies, NamedBy, Creates, Named
  <2> QED
    BY <1>1, <1>8, <2>1, <2>2 DEF Recover
<1>9. CASE ~o.deleting /\ createInstance
  <2>1. ASSUME NEW i \in FreeIDs,
               \/ Save(setSuccessConditions("CREATE", [o EXCEPT !.status.id = i]), "done")
               \/ Save(InOperation("CREATE", i, 1, o), "requeue")
        PROVE  Identifies
    <3> DEFINE q == [o EXCEPT !.status.id = i]
               r == [o EXCEPT !.status.id = i, !.status.op = [type |-> "CREATE", id |-> i, n |-> 1]]
    <3>1. i \in IDs /\ i # NoId
      BY <1>1 DEF FreeIDs
    <3>2. [type |-> "CREATE", id |-> i, n |-> 1] \in OpRefs
      BY <3>1 DEF OpRefs, OperationCategories
    <3>3. q \in Objects /\ q.status.id = i /\ r \in Objects /\ r.status.id = i
      BY <1>1, <3>1, <3>2 DEF Objects, Statuses
    <3>4. InOperation("CREATE", i, 1, o) = setInProgressCondition("CREATE", r)
      BY DEF InOperation
    <3> HIDE DEF q, r
    <3>5. /\ Named(setSuccessConditions("CREATE", q).status)
          /\ Named(InOperation("CREATE", i, 1, o).status)
      BY <3>1, <3>3, <3>4, SettersName DEF OperationCategories
    <3> QED
      BY <1>6, <1>9, <2>1, <3>5 DEF q
  <2>2. CASE Transient("CREATE")
    <3>1. Named(setInProgressCondition("CREATE", o).status)
      BY <1>1, <1>5, <1>9, SettersName DEF OperationCategories
    <3> QED
      BY <1>6, <1>9, <2>2, <3>1 DEF Transient
  <2> QED
    BY <1>1, <1>9, <2>1, <2>2 DEF createInstance
<1>10. CASE ~o.deleting /\ updateInstance
  <2> DEFINE i == o.status.id
             n == Len(sm[i].ops) + 1
             r == [o EXCEPT !.status.id = i, !.status.op = [type |-> "UPDATE", id |-> i, n |-> n]]
  <2>1. i # NoId /\ i \in IDs /\ n \in Nat
    BY <1>1, <1>10, RequestIsNamed DEF updateInstance, Objects, Statuses, SMInv, Things
  <2>2. r \in Objects /\ r.status.id = i
    <3>1. [type |-> "UPDATE", id |-> i, n |-> n] \in OpRefs
      BY <2>1 DEF OpRefs, OperationCategories
    <3> HIDE DEF n
    <3> QED
      BY <1>1, <2>1, <3>1 DEF Objects, Statuses
  <2>3. InOperation("UPDATE", i, n, o) = setInProgressCondition("UPDATE", r)
    BY DEF InOperation
  <2> HIDE DEF r
  <2>4. /\ Named(setSuccessConditions("UPDATE", o).status)
        /\ Named(InOperation("UPDATE", i, n, o).status)
        /\ Named(setInProgressCondition("UPDATE", o).status)
        /\ Named(markAsNonTransientError("UPDATE", o).status)
    BY <1>1, <2>1, <2>2, <2>3, SettersName DEF OperationCategories
  <2>5. \/ Save(setSuccessConditions("UPDATE", o), "done")
        \/ Save(InOperation("UPDATE", i, n, o), "requeue")
        \/ Save(setInProgressCondition("UPDATE", o), "requeue")
        \/ Save(markAsNonTransientError("UPDATE", o), "done")
    BY <1>1, <1>10 DEF updateInstance, Transient, NonTransient
  <2> QED
    BY <1>6, <1>10, <2>4, <2>5
<1> QED
  BY <1>4, <1>5, <1>7, <1>8, <1>9, <1>10

\* Reconcile goes on with a copy that is named.
LEMMA ContinueNames ==
  ASSUME NEW o \in Objects, ~o.deleting => Named(o.status), NEW f, NEW next, next # "noClient",
         \/ w' = Continue(o, f, next)
         \/ w' = Dispatch(o, f)
         \/ w' = Idle
  PROVE  NamedBy(w') /\ w'.pc # "status"
<1>1. CASE w' = Idle
  BY <1>1 DEF Idle, NoObject, EmptyStatus, NamedBy, Named
<1>2. CASE w'.obj = o /\ w'.pc # "status"
  BY <1>2 DEF NamedBy, Named
<1>3. CASE w' = ObserveSpec(o, f)
  <2>1. CASE w'.obj = observe(o) /\ w'.pc \in {"recover", "update"}
    <3>1. /\ observe(o).status.op = o.status.op /\ observe(o).status.id = o.status.id
          /\ observe(o).deleting = o.deleting
      BY DEF observe, Objects, Statuses
    <3> QED
      BY <2>1, <3>1 DEF NamedBy, Named, Creates
  <2> QED
    BY <1>1, <1>3, <2>1 DEF ObserveSpec, At
<1> QED
  BY <1>1, <1>2, <1>3 DEF Continue, Dispatch, DeleteCall, At

\* What is known before a step.
LEMMA NamedBefore ==
  ASSUME TInv, Identified
  PROVE  /\ BaseInv /\ Held /\ w \in Workers
         /\ apiObj \in Objects /\ cache \in Objects /\ w.obj \in Objects
         /\ \A o \in {apiObj, cache} : ~o.deleting => Named(o.status)
         /\ w.pc \notin Creates /\ ~w.obj.deleting => Named(w.obj.status)
BY KnownParts, LastVersion DEF TInv, IInv, TypeOK, BaseInv, BaseTypes, Identified, NamedBy

\* A worker that has nothing to write, or that writes for a resource marked for
\* deletion, is no exception.
LEMMA StatusIdentifies ==
  ASSUME TInv, Identified, Answering, w.obj.deleting => Doomed,
         Reconcile \/ StatusUpdate \/ StatusRetry
  PROVE  Identifies
<1>1. /\ BaseInv /\ Held /\ w \in Workers /\ ClientFaults = FALSE
      /\ apiObj \in Objects /\ cache \in Objects /\ w.obj \in Objects
      /\ \A o \in {apiObj, cache} : ~o.deleting => Named(o.status)
      /\ w.pc \notin Creates /\ ~w.obj.deleting => Named(w.obj.status)
  BY NamedBefore DEF Answering
<1>2. CASE Reconcile
  <2>1. UNCHANGED apiObj /\ w.pc = "idle"
    BY <1>2, ReconcileOutcome
  <2>2. UNCHANGED w \/ w' = Dispatch(cache, watch = <<>>)
    BY <1>1, <1>2 DEF Reconcile, ReconcileWith
  <2>3. NamedBy(w') /\ w'.pc # "status"
    <3>1. CASE UNCHANGED w
      BY <1>1, <2>1, <3>1 DEF NamedBy, Named, Creates
    <3>2. CASE w' = Dispatch(cache, watch = <<>>)
      BY <1>1, <3>2, ContinueNames
    <3> QED
      BY <2>2, <3>1, <3>2
  <2> QED
    BY <1>1, <2>1, <2>3 DEF Identifies
<1>3. ASSUME w.pc = "status", NEW o \in {apiObj, cache, w.obj}, w'.obj = o, w'.next = w.next
      PROVE  NamedBy(w') /\ w'.next # "noClient"
  BY <1>1, <1>3 DEF NamedBy, Named, Identified, Creates
<1>4. CASE StatusUpdate
  <2>1. w.pc = "status" /\ w.next # "noClient" /\ w.pc \notin Creates
    BY <1>4 DEF StatusUpdate, StatusUpdateThen, Identified, Creates
  <2>2. CASE w.fresh /\ apiObj' = w.obj /\ w' = Continue(apiObj', TRUE, w.next)
    <3>1. NamedBy(w') /\ w'.pc # "status"
      BY <1>1, <2>1, <2>2, ContinueNames
    <3> QED
      BY <1>1, <2>1, <2>2, <3>1 DEF Identifies
  <2>3. CASE UNCHANGED apiObj /\ w' = [w EXCEPT !.try = 2]
    <3>1. w'.obj = w.obj /\ w'.next = w.next
      BY <1>1, <2>3 DEF Workers
    <3> QED
      BY <1>1, <1>3, <2>1, <2>3, <3>1 DEF Identifies
  <2>4. w.fresh /\ Write([apiObj EXCEPT !.status = w.obj.status]) => apiObj' = w.obj
    BY <1>1 DEF Held, Write
  <2> QED
    BY <1>4, <2>2, <2>3, <2>4, Zenon DEF StatusUpdate, StatusUpdateThen
<1>5. CASE StatusRetry
  <2>1. w.pc = "status" /\ w.next # "noClient" /\ w.pc \notin Creates
    BY <1>5 DEF StatusRetry, StatusRetryThen, Identified, Creates
  <2>2. CASE /\ Exists(cache) /\ apiObj' = [cache EXCEPT !.status = w.obj.status]
             /\ w' = Continue(cache, cache.status = w.obj.status, w.next)
    <3>1. NamedBy(w') /\ w'.pc # "status"
      BY <1>1, <2>1, <2>2, ContinueNames
    <3>2. apiObj'.deleting = cache.deleting /\ apiObj'.status = w.obj.status
      BY <1>1, <2>2 DEF Objects
    <3>3. w.obj.deleting => cache.deleting
      BY <1>1, <2>2, LastVersion DEF Doomed
    <3> QED
      BY <1>1, <2>1, <3>1, <3>2, <3>3 DEF Identifies
  <2>3. ASSUME NEW o \in {cache, w.obj}, NEW f, UNCHANGED apiObj,
               w' = [w EXCEPT !.obj = o, !.fresh = f, !.try = @ + 1]
        PROVE  Identifies
    <3>1. w'.obj = o /\ w'.next = w.next
      BY <1>1, <2>3 DEF Workers
    <3> QED
      BY <1>1, <1>3, <2>1, <2>3, <3>1 DEF Identifies
  <2>4. ASSUME NEW o \in {cache, w.obj}, NEW f, UNCHANGED apiObj, w' = GiveUp(o, f, w.next)
        PROVE  Identifies
    <3>1. w' = Idle
      BY <2>1, <2>4 DEF GiveUp
    <3> QED
      BY <1>1, <2>1, <2>4, <3>1, ContinueNames DEF Identifies
  <2>5. \/ /\ Exists(cache) /\ apiObj' = [cache EXCEPT !.status = w.obj.status]
           /\ w' = Continue(cache, cache.status = w.obj.status, w.next)
        \/ \E o \in {cache, w.obj}, f \in BOOLEAN :
             /\ UNCHANGED apiObj
             /\ \/ w' = [w EXCEPT !.obj = o, !.fresh = f, !.try = @ + 1]
                \/ w' = GiveUp(o, f, w.next)
    BY <1>5, Zenon DEF StatusRetry, StatusRetryThen, Write
  <2> QED
    BY <2>2, <2>3, <2>4, <2>5
<1> QED
  BY <1>2, <1>4, <1>5

\* The finalizer says nothing of the status.
LEMMA FinalizerNames ==
  ASSUME apiObj \in Objects, ~apiObj.deleting => Named(apiObj.status),
         \/ UNCHANGED apiObj \/ apiObj' = NoObject
         \/ \E b \in BOOLEAN : apiObj' = [apiObj EXCEPT !.finalizer = b]
  PROVE  ~apiObj'.deleting => Named(apiObj'.status)
<1>1. Named(NoObject.status)
  BY DEF NoObject, EmptyStatus, Named
<1>2. ASSUME NEW b \in BOOLEAN, apiObj' = [apiObj EXCEPT !.finalizer = b]
      PROVE  apiObj'.status = apiObj.status /\ apiObj'.deleting = apiObj.deleting
  BY <1>2 DEF Objects
<1>3. CASE apiObj' = NoObject
  <2>1. apiObj'.status = NoObject.status
    BY <1>3
  <2> QED
    BY <1>1, <2>1
<1> QED
  BY <1>2, <1>3

LEMMA FinalizerIdentifies ==
  ASSUME TInv, Identified, AddFinalizer \/ RemoveFinalizer
  PROVE  Identifies
<1>1. /\ BaseInv /\ Held /\ w.pc \notin Creates
      /\ apiObj \in Objects /\ cache \in Objects /\ w.obj \in Objects
      /\ \A o \in {apiObj, cache, w.obj} : ~o.deleting => Named(o.status)
  BY NamedBefore, AddFinalizerOutcome, RemoveFinalizerOutcome DEF Creates
<1>2. \A o \in Objects, b \in BOOLEAN : LET p == [o EXCEPT !.finalizer = b]
                                        IN p \in Objects /\ p.status = o.status /\ p.deleting = o.deleting
  BY DEF Objects
<1>3. CASE w' = Idle
  <2>1. NamedBy(w') /\ w'.pc # "status"
    BY <1>3 DEF Idle, NoObject, EmptyStatus, NamedBy, Named
  <2>2. ~apiObj'.deleting => Named(apiObj'.status)
    <3>1. \/ UNCHANGED apiObj \/ apiObj' = NoObject
          \/ \E b \in BOOLEAN : apiObj' = [apiObj EXCEPT !.finalizer = b]
      BY <1>1, AddFinalizerOutcome, RemoveFinalizerOutcome DEF Released
    <3> QED
      BY <1>1, <3>1, FinalizerNames
  <2> QED
    BY <2>1, <2>2 DEF Identifies
<1>4. CASE AddFinalizer /\ w' # Idle
  <2>1. PICK o \in {apiObj, w.obj} :
          /\ w'.obj = setInProgressCondition("CREATE", [o EXCEPT !.finalizer = TRUE])
          /\ w'.next = "init"
          /\ UNCHANGED apiObj \/ apiObj' = [apiObj EXCEPT !.finalizer = TRUE]
    BY <1>1, <1>2, <1>4, AddFinalizerOutcome
  <2> DEFINE p == [o EXCEPT !.finalizer = TRUE]
  <2>2. p \in Objects /\ p.status = o.status /\ p.deleting = o.deleting
    BY <1>1, <1>2
  <2> HIDE DEF p
  <2>3. w'.obj.deleting = o.deleting
    BY <2>1, <2>2, SettersType DEF Same, OperationCategories, p
  <2>4. ~o.deleting => Named(w'.obj.status)
    <3>1. ~o.deleting => (p.status.op # NoOp => p.status.id # NoId)
      BY <1>1, <2>2 DEF Named
    <3>2. w'.obj = setInProgressCondition("CREATE", p)
      BY <2>1 DEF p
    <3> QED
      BY <2>2, <3>1, <3>2, SettersName DEF OperationCategories
  <2>5. ~apiObj'.deleting => Named(apiObj'.status)
    BY <1>1, <1>2, <2>1
  <2> QED
    BY <2>1, <2>3, <2>4, <2>5 DEF Identifies, NamedBy, Named
<1>5. CASE RemoveFinalizer /\ w' # Idle
  <2>1. PICK o \in {w.obj, cache, apiObj}, b \in BOOLEAN : w'.obj = ClearOp([o EXCEPT !.finalizer = b])
    BY <1>1, <1>5, RemoveFinalizerOutcome
  <2>2. w'.next = "done"
    BY <1>1, <1>5, RemoveFinalizerOutcome
  <2> DEFINE p == [o EXCEPT !.finalizer = b]
  <2>3. p \in Objects /\ p.status = o.status /\ p.deleting = o.deleting
    BY <1>1, <1>2
  <2> HIDE DEF p
  <2>4. LET q == ClearOp(p)
        IN /\ q.deleting = p.deleting /\ q.status.op = NoOp /\ q.status.id = p.status.id
           /\ q.status.cond = p.status.cond /\ q.status.obs = p.status.obs
    BY <2>3 DEF ClearOp, Objects, Statuses
  <2>5. NamedBy(w')
    BY <1>1, <2>1, <2>3, <2>4 DEF NamedBy, Named, p
  <2>6. ~apiObj'.deleting => Named(apiObj'.status)
    <3>1. \/ UNCHANGED apiObj \/ apiObj' = NoObject
          \/ \E c \in BOOLEAN : apiObj' = [apiObj EXCEPT !.finalizer = c]
      BY <1>1, <1>5, RemoveFinalizerOutcome DEF Released
    <3> QED
      BY <1>1, <3>1, FinalizerNames
  <2> QED
    BY <2>2, <2>5, <2>6 DEF Identifies
<1> QED
  BY <1>3, <1>4, <1>5

LEMMA OthersIdentify ==
  ASSUME TInv, Identified, User \/ Deliver \/ Resync \/ Restart \/ ServiceManager \/ UNCHANGED vars
  PROVE  Identifies
<1>1. /\ BaseInv /\ w \in Workers /\ apiObj \in Objects /\ (~apiObj.deleting => Named(apiObj.status))
  BY NamedBefore
<1>2. NamedBy(w') /\ (w'.pc = "status" => w'.next # "noClient")
  <2>1. CASE w' = Idle
    BY <2>1 DEF Idle, NoObject, EmptyStatus, NamedBy, Named
  <2>2. CASE w'.pc = w.pc /\ w'.next = w.next /\ w'.obj = w.obj
    BY <2>2 DEF Identified, NamedBy, Named
  <2> QED
    BY <1>1, <2>1, <2>2, OthersLeaveWorker
<1>3. /\ \A g, name, s : /\ [apiObj EXCEPT !.gen = g, !.name = name, !.secretName = s].status = apiObj.status
                         /\ [apiObj EXCEPT !.gen = g, !.name = name, !.secretName = s].deleting = apiObj.deleting
                         /\ [NoObject EXCEPT !.uid = g, !.gen = 1, !.name = name,
                                             !.secretName = s].status = EmptyStatus
      /\ [apiObj EXCEPT !.deleting = TRUE].deleting
      /\ NoObject.status = EmptyStatus
  BY <1>1 DEF NoObject, Objects
<1>4. Named(EmptyStatus)
  BY DEF EmptyStatus, Named
<1>5. ~apiObj'.deleting => Named(apiObj'.status)
  <2>1. CASE UserDelete
    BY <1>3, <1>4, <2>1 DEF UserDelete, Write
  <2>2. ASSUME NEW name, NEW s, UserCreate(name, s) PROVE apiObj'.status = EmptyStatus
    BY <1>3, <2>2 DEF UserCreate, Write
  <2>3. ASSUME NEW name, NEW s, UserEdit(name, s)
        PROVE  apiObj'.status = apiObj.status /\ apiObj'.deleting = apiObj.deleting
    <3>1. apiObj' = [apiObj EXCEPT !.gen = apiObj.gen + 1, !.name = name, !.secretName = s]
      BY <2>3 DEF UserEdit, Write
    <3> QED
      BY <1>3, <3>1
  <2>4. CASE Deliver \/ Resync \/ Restart \/ ServiceManager \/ UNCHANGED vars
    BY <1>1, <2>4 DEF Deliver, Resync, Restart, ServiceManager, SMComplete, vars, baseVars
  <2> QED
    BY <1>1, <1>4, <2>1, <2>2, <2>3, <2>4 DEF User
<1> QED
  BY <1>2, <1>5 DEF Identifies

\* All of it, for any order of the steps.
FInv == GInv /\ Heeded /\ Aged /\ Latest /\ Identified

\* It holds in the beginning ...
LEMMA InitFInv == Init => FInv
<1> SUFFICES ASSUME Init PROVE FInv
  OBVIOUS
<1>1. GInv /\ Aged /\ Latest
  BY InitPInv DEF PInv
<1>2. Heeded
  BY DEF Init, Heeded, Marked, Owed, NoObject, Exists
<1>3. Identified
  BY DEF Init, Identified, Version, NamedBy, Named, Idle, NoObject, EmptyStatus
<1> QED
  BY <1>1, <1>2, <1>3 DEF FInv

\* ... and every step keeps it.
LEMMA NextFInv ==
  ASSUME MaxLives <= 1, Names = {K8sName}, DropsFailed = FALSE, ApiFaults = FALSE, Answering,
         FInv, [Next]_vars
  PROVE  FInv'
<1>1. GInv /\ GInv' /\ OneStep(Calls) /\ TInv /\ Identified
  BY NextGInv, StepIsOne DEF FInv, GInv
<1>2. Heeded'
  BY <1>1, NextHeeded DEF FInv
<1>3. Aged' /\ Latest'
  BY <1>1, AlwaysHeir, AgedKept DEF FInv
<1>4. BaseInv /\ BaseInv' /\ Kinds /\ Remembers /\ (w.obj.deleting => Doomed)
  BY <1>1, KnownParts, KindsOfSteps, StepIsAsked DEF OneStep, GInv, OneLife, TInv
<1>5. Identifies
  <2>1. CASE Poll \/ Recover \/ createInstance \/ updateInstance \/ RecoverForDelete \/ Deprovision
    BY <1>1, <1>4, <2>1, CallsIdentify
  <2>2. CASE Reconcile \/ StatusUpdate \/ StatusRetry \/ AddFinalizer \/ RemoveFinalizer
    BY <1>1, <1>4, <2>2, StatusIdentifies, FinalizerIdentifies
  <2>3. CASE User \/ Deliver \/ Resync \/ Restart \/ ServiceManager \/ UNCHANGED vars
    BY <1>1, <2>3, OthersIdentify
  <2> QED
    BY <2>1, <2>2, <2>3 DEF Next, Worker
<1>6. Identified'
  BY <1>1, <1>4, <1>5, IdentifiedKept
<1> QED
  BY <1>1, <1>2, <1>3, <1>6 DEF FInv

\* The id of an instance SM has ends up in the status, for one incarnation and one
\* name, whatever is lost of the worker's own memory: SM may answer late, or that it
\* cannot answer now, and operations may fail, but it does not refuse a request, its
\* replies and listings arrive, and so do writes to the API server but for conflicts.
THEOREM IdIsFound ==
  ASSUME MaxLives <= 1, Names = {K8sName}, DropsFailed = FALSE, ApiFaults = FALSE, Answering
  PROVE  Spec => []InstanceIDFilled
<1>1. Init => FInv
  BY InitFInv
<1>2. FInv /\ [Next]_vars => FInv'
  BY NextFInv
<1>3. FInv => InstanceIDFilled
  <2> SUFFICES ASSUME FInv, Quiescent, Exists(apiObj), ~apiObj.deleting, NEW j \in Live
               PROVE  apiObj.status.id \in Live
    BY DEF InstanceIDFilled
  <2> DEFINE i == apiObj.status.id
  <2>1. Settled(apiObj) /\ BaseInv /\ SMInv /\ Truthful /\ apiObj \in Objects /\ apiObj \in Copies
    <3>1. TInv
      BY DEF FInv, GInv
    <3>2. BaseInv /\ Truthful /\ apiObj \in Objects /\ apiObj \in Copies
      BY <3>1, KnownParts, CopiesType DEF BaseInv, BaseTypes
    <3>3. SMInv
      BY <3>1 DEF TInv, IInv, TypeOK, Truthful, SMInv
    <3> QED
      BY <3>2, <3>3 DEF FInv, Heeded, Owed, Quiescent
  <2>2. Named(apiObj.status) /\ apiObj.gen > 0
    BY <2>1, LastVersion DEF FInv, Identified, Aged
  <2>3. i # NoId
    BY <2>1, <2>2 DEF Named, Settled, isInProgress
  <2>4. i \in Used
    BY <2>1, <2>3 DEF Truthful, Recorded, Objects, Statuses, Used, FreeIDs
  <2>5. j \in Used
    BY <2>1 DEF Live, SMInv, LiveIsRecorded, Used, FreeIDs
  <2>6. i = j
    BY <2>4, <2>5 DEF FInv, GInv, OneLife
  <2> QED
    BY <2>6
<1> QED
  BY <1>1, <1>2, <1>3, PTL DEF Spec

------------------------------------------------------------------------------
(* A failure is not final if SM refuses nothing *)

\* SM refuses nothing and loses neither a reply nor a listing, its operations succeed,
\* and there is an SM client.
Obliging == ClientFaults = FALSE /\ SMFaults \cap (Refusals \cup {"list"}) = {}

\* A copy of the first generation tells of an instance only when it has observed the
\* generation, and of no failure then; it has nothing to do but to poll.
Healthy(o) ==
  /\ o.gen = 1
  /\ o.status.id # NoId \/ Polling(o) => o.status.obs = 1
  /\ o.status.id # NoId /\ ~Polling(o) => ~isInProgress(o)
  /\ o.status.cond.failed => o.status.obs = 0

\* So does the worker's copy, unless the generation has been observed in advance in
\* order to create what there is not.  Nothing is updated.
HealthyBy(x) ==
  /\ x.pc # "update"
  /\ IF x.pc \in Creates
     THEN /\ x.obj.gen = 1 /\ x.obj.status.obs = 1
          /\ ~Polling(x.obj) /\ x.obj.status.id = NoId
     ELSE Healthy(x.obj)

\* The user has not deleted the resource.
Open == Exists(apiObj) /\ ~apiObj.deleting

\* SM was asked for nothing before init, and every operation goes well.
Unspoilt ==
  /\ ~apiObj.finalizer \/ Setting => Used = {}
  /\ \A i \in IDs : \A k \in DOMAIN sm[i].ops : sm[i].ops[k].state # "FAILED"

\* Until then.
Untroubled ==
  Open => /\ \A k \in 0..Len(watch) : Exists(Version(k)) => Healthy(Version(k))
          /\ Exists(w.obj) => HealthyBy(w)
          /\ Unspoilt

\* What the resource and the worker have to show after a step.
Heals ==
  Open' => /\ Healthy(apiObj')
           /\ Exists(w'.obj) => HealthyBy(w')

\* All that is known of it.
UInv == FInv /\ Infant /\ Untroubled

\* Before a resource there is nothing, and one that is not deleted was not deleted before.
LEMMA OpenBefore ==
  ASSUME MaxLives <= 1, Names = {K8sName}, DropsFailed = FALSE, GInv, [Next]_vars, Open'
  PROVE  \/ Open /\ ~Doomed
         \/ ~Exists(apiObj) /\ Used = {} /\ w.pc = "idle" /\ \A o \in Copies : ~Exists(o)
<1>1. /\ BaseInv /\ Kinds /\ Held /\ OneLife(Creates, Removes) /\ SMInv
      /\ apiObj \in Objects /\ lives \in Nat
  BY StepIsOne, OneStepFacts, KnownParts DEF GInv, Calls, BaseInv, BaseTypes, TInv, IInv, TypeOK, Truthful, SMInv
<1>2. CASE Exists(apiObj)
  <2>1. ~apiObj.deleting
    BY <1>1, <1>2 DEF Kinds, Undisturbed, Rewritten, Begun, Deliver, Restart, Write, Open
  <2> QED
    BY <1>1, <1>2, <2>1, LastVersion DEF Open, Doomed
<1>3. CASE ~Exists(apiObj)
  <2>1. lives = 0 /\ \A o \in Copies : ~Exists(o)
    BY <1>1, <1>3, NothingYet DEF Open
  <2>2. Live = {} /\ ~Dismantled
    BY <1>1, <1>3, <2>1 DEF OneLife, Guarded, Doomed
  <2>3. Used = {}
    BY <2>2 DEF Dismantled, Live, Used
  <2>4. w.pc = "idle"
    BY <1>1, <2>1, CopiesType DEF Held, BaseInv
  <2> QED
    BY <1>3, <2>1, <2>3, <2>4
<1> QED
  BY <1>2, <1>3

\* What a worker that is at something knows.
LEMMA HealthyBefore ==
  ASSUME MaxLives <= 1, Names = {K8sName}, DropsFailed = FALSE, UInv, [Next]_vars, Open'
  PROVE  /\ BaseInv /\ Held /\ TInv /\ w \in Workers /\ SMInv /\ Remembers
         /\ apiObj \in Objects /\ cache \in Objects /\ w.obj \in Objects
         /\ Exists(cache) => Healthy(cache)
         /\ Open => /\ ~Doomed /\ ~w.obj.deleting /\ Healthy(apiObj) /\ Unspoilt
                    /\ w.pc # "idle" => HealthyBy(w) /\ Exists(w.obj)
         /\ w.pc # "idle" => Open
         /\ w.pc = "status" => w.next # "noClient"
<1>1. GInv /\ TInv /\ Untroubled /\ Identified
  BY DEF UInv, FInv, GInv
<1>2. /\ BaseInv /\ Held /\ w \in Workers /\ SMInv /\ OneLife(Creates, Removes) /\ Remembers
      /\ apiObj \in Objects /\ cache \in Objects /\ w.obj \in Objects
      /\ cache \in Copies
  BY <1>1, KnownParts, StepIsAsked, CopiesType
     DEF GInv, BaseInv, BaseTypes, TInv, IInv, TypeOK, Truthful, SMInv
<1>3. \/ Open /\ ~Doomed
      \/ ~Open /\ w.pc = "idle" /\ \A o \in Copies : ~Exists(o)
  BY <1>1, OpenBefore DEF Open
<1>4. CASE Open /\ ~Doomed
  <2>1. /\ \A k \in 0..Len(watch) : Exists(Version(k)) => Healthy(Version(k))
        /\ Exists(w.obj) => HealthyBy(w)
        /\ Unspoilt
    BY <1>1, <1>4 DEF Untroubled
  <2>2. Healthy(apiObj) /\ (Exists(cache) => Healthy(cache))
    BY <1>2, <1>4, <2>1, LastVersion DEF Open
  <2>3. ~w.obj.deleting
    BY <1>2, <1>4 DEF OneLife
  <2> QED
    BY <1>1, <1>2, <1>4, <2>1, <2>2, <2>3 DEF Held, Identified
<1> QED
  BY <1>1, <1>2, <1>3, <1>4 DEF Identified

\* A status that tells of something in progress is harmless as long as there is no
\* instance or the operation is known, one that tells of success when it has observed
\* the generation.
LEMMA SettersHeal ==
  ASSUME NEW o \in Objects, o.gen = 1, NEW type \in OperationCategories,
         o.status.id # NoId \/ Polling(o) => o.status.obs = 1
  PROVE  /\ o.status.id = NoId \/ Polling(o) => Healthy(setInProgressCondition(type, o))
         /\ Healthy(setSuccessConditions(type, o))
         /\ Healthy(ClearOp(setSuccessConditions(type, o)))
<1>1. ASSUME NEW c, ~c.failed, o.status.id = NoId \/ Polling(o) \/ c.ready # "False",
             NEW p, p = WithConditions(o, c)
      PROVE  Healthy(p) /\ (c.ready # "False" => Healthy(ClearOp(p)))
  <2>1. /\ p.gen = 1 /\ p.status.cond = c /\ p.status.id = o.status.id
        /\ p.status.op = o.status.op /\ p.status.obs = o.status.obs
    BY <1>1 DEF WithConditions, Objects, Statuses
  <2>2. LET q == ClearOp(p)
        IN /\ q.gen = 1 /\ q.status.cond = c /\ q.status.id = o.status.id
           /\ q.status.op = NoOp /\ q.status.obs = o.status.obs
    BY <1>1 DEF ClearOp, WithConditions, Objects, Statuses
  <2> QED
    BY <1>1, <2>1, <2>2 DEF Healthy, Polling, isInProgress
<1> DEFINE c == [ready |-> "False", failed |-> FALSE,
                 reason |-> getConditionReason(type, "IN_PROGRESS")]
           d == [ready |-> "True", failed |-> FALSE,
                 reason |-> getConditionReason(type, "SUCCEEDED")]
<1>2. ~c.failed /\ ~d.failed /\ d.ready # "False"
  OBVIOUS
<1>3. setInProgressCondition(type, o) = WithConditions(o, c) /\ setSuccessConditions(type, o) = WithConditions(o, d)
  BY DEF setInProgressCondition, setSuccessConditions
<1> HIDE DEF c, d
<1> QED
  BY <1>1, <1>2, <1>3

\* A resource that has an instance and nothing to poll is left alone.
LEMMA ObserveSpecHeals ==
  ASSUME NEW o \in Objects, Healthy(o), ~Polling(o), NEW f, NEW x, x = ObserveSpec(o, f),
         Exists(x.obj)
  PROVE  HealthyBy(x)
<1>1. x # Idle
  BY DEF Idle, NoObject, Exists
<1>2. o.status.id = NoId /\ x = At("recover", observe(o), f)
  BY <1>1 DEF ObserveSpec, Healthy
<1>3. LET p == observe(o)
      IN p.gen = 1 /\ p.status.obs = 1 /\ p.status.id = NoId /\ p.status.op = NoOp
  BY <1>2 DEF observe, Healthy, Polling, Objects, Statuses
<1> QED
  BY <1>2, <1>3 DEF HealthyBy, At, Creates, Polling

\* Reconcile with a healthy copy ...
LEMMA DispatchHeals ==
  ASSUME NEW o \in Objects, Healthy(o), NEW f, NEW x, x = Dispatch(o, f), Exists(x.obj)
  PROVE  HealthyBy(x)
<1>1. x # Idle
  BY DEF Idle, NoObject, Exists
<1>2. ASSUME x.obj = o, x.pc \notin Creates PROVE HealthyBy(x)
  BY <1>2 DEF HealthyBy, Healthy, Creates
<1>3. CASE x = At("poll", o, f) \/ x = At(DeleteCall(o), o, f) \/ x = At("addFinalizer", o, f)
  BY <1>2, <1>3 DEF At, DeleteCall, Creates
<1>4. CASE ~Polling(o) /\ x = ObserveSpec(o, f)
  BY <1>4, ObserveSpecHeals
<1> QED
  BY <1>1, <1>3, <1>4 DEF Dispatch

\* ... and its continuation after a status update, when init has nothing to poll.
LEMMA ContinueHeals ==
  ASSUME NEW o \in Objects, Healthy(o), NEW f, NEW next, next # "noClient",
         next = "init" => ~Polling(o), NEW x, x = Continue(o, f, next), Exists(x.obj)
  PROVE  HealthyBy(x)
<1>1. x # Idle
  BY DEF Idle, NoObject, Exists
<1>2. CASE x = At("removeFinalizer", o, f)
  BY <1>2 DEF At, HealthyBy, Creates
<1>3. CASE ~Polling(o) /\ x = ObserveSpec(o, f)
  BY <1>3, ObserveSpecHeals
<1> QED
  BY <1>1, <1>2, <1>3 DEF Continue

\* A healthy status that is saved.
LEMMA SavedHeals ==
  ASSUME UNCHANGED apiObj, Healthy(apiObj), NEW p, Healthy(p), NEW next, Save(p, next)
  PROVE  Heals
<1>1. w'.obj = p /\ w'.pc = "status"
  BY DEF Save, Saving
<1> QED
  BY <1>1 DEF Heals, HealthyBy, Creates

\* The calls to SM.
LEMMA CallsHeal ==
  ASSUME MaxLives <= 1, Names = {K8sName}, DropsFailed = FALSE, Obliging, UInv, [Next]_vars,
         Poll \/ Recover \/ createInstance \/ updateInstance \/ RecoverForDelete \/ Deprovision
  PROVE  Heals
<1> SUFFICES ASSUME Open' PROVE Heals
  BY DEF Heals
<1> DEFINE o == w.obj
<1>1. /\ BaseInv /\ TInv /\ SMInv /\ o \in Objects /\ NoId \notin IDs
      /\ UNCHANGED apiObj /\ Healthy(apiObj) /\ HealthyBy(w) /\ Unspoilt /\ ~o.deleting
      /\ {"refused", "lost", "list", "operation"} \cap SMFaults = {}
  BY HealthyBefore, CallsAreQuiet, ServiceManagerAssumption DEF Obliging, Refusals
<1>2. CASE w' = Idle
  BY <1>1, <1>2 DEF Heals, Idle, NoObject, Exists
<1>3. ASSUME NEW p, NEW next, Healthy(p), Save(p, next) PROVE Heals
  BY <1>1, <1>3, SavedHeals
<1>4. ~updateInstance /\ ~RecoverForDelete /\ ~Deprovision
  BY <1>1 DEF HealthyBy, updateInstance, RecoverForDelete, Deprovision, TInv, IInv, CallsAreMeant
<1>5. CASE Poll
  <2> DEFINE op == o.status.op
             failed == setFailureConditions(op.type, o)
             succeeded == setSuccessConditions(op.type, o)
             fresh == freshStatus(o, failed.status.cond)
  <2>1. op # NoOp /\ op.type \in OperationCategories /\ Healthy(o) /\ o.status.obs = 1 /\ o.gen = 1
    BY <1>1, <1>5 DEF Poll, TInv, IInv, CallsAreMeant, HealthyBy, Healthy, Creates, Polling, Objects,
       Statuses, OpRefs
  <2>2. sm[op.id].ops[op.n].state # "FAILED"
    <3>1. w.pc # "idle" /\ op.id \in IDs
      BY <1>1, <1>5, <2>1 DEF Poll, Objects, Statuses, OpRefs
    <3>2. op.n \in DOMAIN sm[op.id].ops
      BY <1>1, <2>1, <3>1, RequestIsNamed, KnownParts DEF Truthful, Recorded
    <3> QED
      BY <1>1, <3>1, <3>2 DEF Unspoilt
  <2>3. Healthy(succeeded) /\ Healthy(ClearOp(succeeded))
    BY <1>1, <2>1, SettersHeal
  <2>4. Healthy([o EXCEPT !.status = fresh])
    <3>1. fresh.op = NoOp /\ fresh.obs = 0 /\ fresh.id = NoId
      BY <1>1 DEF freshStatus, EmptyStatus, isDelete
    <3>2. LET p == [o EXCEPT !.status = fresh] IN p.status = fresh /\ p.gen = 1
      BY <1>1, <2>1 DEF Objects
    <3> QED
      BY <3>1, <3>2 DEF Healthy, Polling
  <2> HIDE DEF failed, succeeded, op, fresh
  <2>5. \/ Save([o EXCEPT !.status = fresh], "requeue")
        \/ w' = Idle
        \/ Save(ClearOp(succeeded), "done")
        \/ w' = [At("removeFinalizer", succeeded, w.fresh) EXCEPT !.next = "clearOp"]
    BY <1>5, <2>2 DEF Poll, failed, succeeded, op, fresh, Requeue
  <2>6. CASE w' = [At("removeFinalizer", succeeded, w.fresh) EXCEPT !.next = "clearOp"]
    <3>1. w'.obj = succeeded /\ w'.pc = "removeFinalizer"
      BY <2>6 DEF At
    <3> QED
      BY <1>1, <2>3, <3>1 DEF Heals, HealthyBy, Creates
  <2> QED
    BY <1>2, <1>3, <2>3, <2>4, <2>5, <2>6
<1>6. ASSUME w.pc \in Creates
      PROVE  o.gen = 1 /\ ~Polling(o) /\ o.status.id = NoId /\ o.status.obs = 1
  BY <1>1, <1>6 DEF HealthyBy
<1>7. CASE Recover
  <2>1. ASSUME NEW i \in Matches(o.name), Save(resyncInstanceStatus(o, i), "done") PROVE Heals
    <3> DEFINE type == Last(i).type
               found == [o EXCEPT !.status.id = i, !.status.op = NoOp,
                                  !.status.obs = ResyncedGeneration(o)]
               op == [type |-> type, id |-> i, n |-> Len(sm[i].ops)]
               found2 == [found EXCEPT !.status.id = i, !.status.op = op]
    <3>1. i \in IDs /\ i # NoId /\ i \in Used
      BY <1>1 DEF Matches, SMInv, LiveIsRecorded, Used, FreeIDs
    <3>2. /\ type \in OperationCategories /\ Last(i).state \in OperationStates \ {"FAILED"}
          /\ Len(sm[i].ops) \in Nat
      <4>1. Last(i) \in Operations /\ Len(sm[i].ops) \in DOMAIN sm[i].ops
        BY <1>1, <3>1, SpecsType DEF Last
      <4>2. Last(i).state # "FAILED"
        BY <1>1, <3>1, <4>1 DEF Unspoilt, Last
      <4> QED
        BY <1>1, <3>1, <4>1, <4>2, SpecsType DEF Operations
    <3>3. ResyncedGeneration(o) = 1 /\ o.gen = 1
      BY <1>6, <1>7 DEF ResyncedGeneration, Recover, Creates
    <3>4. found \in Objects /\ found.gen = 1 /\ found.status.obs = 1
      BY <1>1, <3>1, <3>3 DEF Objects, Statuses, OpRefs
    <3>5. op \in OpRefs /\ op # NoOp
      BY <3>1, <3>2 DEF OpRefs, NoOp
    <3>6. found2 \in Objects /\ found2.gen = 1 /\ found2.status.obs = 1 /\ Polling(found2)
      <4> HIDE DEF found, op
      <4> QED
        BY <3>1, <3>4, <3>5 DEF Objects, Statuses, Polling
    <3>7. \/ resyncInstanceStatus(o, i) = setInProgressCondition(type, found2)
          \/ resyncInstanceStatus(o, i) = setSuccessConditions(type, found)
      BY <3>2 DEF resyncInstanceStatus, OperationStates, InOperation
    <3> HIDE DEF found, found2, type, op
    <3>8. Healthy(resyncInstanceStatus(o, i))
      BY <3>2, <3>4, <3>6, <3>7, SettersHeal
    <3> QED
      BY <1>3, <2>1, <3>8
  <2>2. CASE Goto("provision", o)
    <3>1. w'.obj = o /\ w'.pc = "provision"
      BY <2>2 DEF Goto, At
    <3>2. w.pc \in Creates
      BY <1>7 DEF Recover, Creates
    <3> QED
      BY <1>1, <1>6, <3>1, <3>2 DEF Heals, HealthyBy, Creates
  <2> QED
    BY <1>1, <1>7, <2>1, <2>2 DEF Recover
<1>8. CASE createInstance
  <2>0. o.gen = 1 /\ ~Polling(o) /\ o.status.id = NoId /\ o.status.obs = 1
    BY <1>6, <1>8 DEF createInstance, Creates
  <2>1. ASSUME NEW i \in FreeIDs,
               \/ Save(setSuccessConditions("CREATE", [o EXCEPT !.status.id = i]), "done")
               \/ Save(InOperation("CREATE", i, 1, o), "requeue")
        PROVE  Heals
    <3> DEFINE op == [type |-> "CREATE", id |-> i, n |-> 1]
               q == [o EXCEPT !.status.id = i]
               r == [o EXCEPT !.status.id = i, !.status.op = op]
    <3>1. i \in IDs /\ i # NoId
      BY <1>1 DEF FreeIDs
    <3>2. op \in OpRefs /\ op # NoOp
      BY <3>1 DEF OpRefs, OperationCategories, NoOp
    <3> HIDE DEF op
    <3>3. /\ q \in Objects /\ q.gen = 1 /\ q.status.obs = 1
          /\ r \in Objects /\ r.gen = 1 /\ r.status.obs = 1 /\ Polling(r)
      BY <1>1, <2>0, <3>1, <3>2 DEF Objects, Statuses, Polling
    <3>4. InOperation("CREATE", i, 1, o) = setInProgressCondition("CREATE", r)
      BY DEF InOperation, op
    <3> HIDE DEF q, r
    <3>5. /\ Healthy(setSuccessConditions("CREATE", q))
          /\ Healthy(InOperation("CREATE", i, 1, o))
      BY <3>3, <3>4, SettersHeal DEF OperationCategories
    <3> QED
      BY <1>3, <2>1, <3>5 DEF q
  <2>2. CASE Transient("CREATE")
    <3>1. Healthy(setInProgressCondition("CREATE", o))
      BY <1>1, <2>0, SettersHeal DEF OperationCategories
    <3> QED
      BY <1>3, <2>2, <3>1 DEF Transient
  <2> QED
    BY <1>1, <1>8, <2>1, <2>2 DEF createInstance
<1> QED
  BY <1>4, <1>5, <1>7, <1>8

\* Reconcile, and the status updates, of which init's leaves nothing to poll.
LEMMA StatusHeals ==
  ASSUME MaxLives <= 1, Names = {K8sName}, DropsFailed = FALSE, Obliging, UInv, [Next]_vars,
         Reconcile \/ StatusUpdate \/ StatusRetry
  PROVE  Heals
<1> SUFFICES ASSUME Open' PROVE Heals
  BY DEF Heals
<1>1. /\ BaseInv /\ Held /\ TInv /\ w \in Workers /\ ClientFaults = FALSE
      /\ apiObj \in Objects /\ cache \in Objects /\ w.obj \in Objects
      /\ apiObj \in Copies /\ w.obj \in Copies
      /\ Exists(cache) => Healthy(cache)
      /\ ~Exists(Idle.obj)
  BY HealthyBefore, CopiesType DEF Obliging, BaseInv, Idle, NoObject, Exists
<1>2. CASE Reconcile
  <2>1. UNCHANGED apiObj /\ w.pc = "idle"
    BY <1>1, <1>2, ReconcileOutcome
  <2>2. Healthy(apiObj)
    <3>1. Open
      BY <2>1 DEF Open, Exists
    <3> QED
      BY <3>1, HealthyBefore
  <2>3. UNCHANGED w \/ (Exists(cache) /\ w' = Dispatch(cache, watch = <<>>))
    BY <1>1, <1>2 DEF Reconcile, ReconcileWith
  <2>4. Exists(w'.obj) => HealthyBy(w')
    <3>1. CASE UNCHANGED w
      BY <2>1, <3>1, HealthyBefore DEF UInv, Untroubled, Open, Exists
    <3>2. CASE Exists(cache) /\ w' = Dispatch(cache, watch = <<>>)
      BY <1>1, <3>2, DispatchHeals
    <3> QED
      BY <2>3, <3>1, <3>2
  <2> QED
    BY <2>1, <2>2, <2>4 DEF Heals
<1>3. ASSUME w.pc = "status"
      PROVE  /\ Healthy(apiObj) /\ Healthy(w.obj) /\ w.next # "noClient"
             /\ w.next = "init" => ~Polling(w.obj) /\ (cache = apiObj => ~Polling(cache))
  <2>1. /\ Healthy(apiObj) /\ HealthyBy(w) /\ Exists(w.obj) /\ w.next # "noClient" /\ Exists(apiObj)
    BY <1>3, HealthyBefore DEF Open
  <2>2. Healthy(w.obj)
    BY <1>3, <2>1 DEF HealthyBy, Creates
  <2>3. w.next = "init" => NothingPolled
    BY <1>3, <2>1 DEF UInv, Infant, Setting
  <2> QED
    BY <1>1, <2>1, <2>2, <2>3 DEF NothingPolled
<1>4. CASE StatusUpdate
  <2>1. w.pc = "status"
    BY <1>4 DEF StatusUpdate, StatusUpdateThen
  <2>2. CASE w.fresh /\ apiObj' = w.obj /\ w' = Continue(apiObj', TRUE, w.next)
    <3>1. ASSUME NEW f, f = TRUE, Exists(w'.obj) PROVE HealthyBy(w')
      <4>1. w' = Continue(w.obj, f, w.next)
        BY <2>2, <3>1
      <4> QED
        BY <1>1, <1>3, <2>1, <3>1, <4>1, ContinueHeals
    <3> QED
      BY <1>3, <2>1, <2>2, <3>1 DEF Heals
  <2>3. CASE UNCHANGED apiObj /\ w' = [w EXCEPT !.try = 2]
    <3>1. w'.obj = w.obj /\ w'.pc = w.pc
      BY <1>1, <2>3 DEF Workers
    <3> QED
      BY <1>3, <2>1, <2>3, <3>1 DEF Heals, HealthyBy, Creates
  <2>4. w.fresh /\ Write([apiObj EXCEPT !.status = w.obj.status]) => apiObj' = w.obj
    BY <1>1 DEF Held, Write
  <2> QED
    BY <1>4, <2>2, <2>3, <2>4, Zenon DEF StatusUpdate, StatusUpdateThen
<1>5. CASE StatusRetry
  <2>1. w.pc = "status"
    BY <1>5 DEF StatusRetry, StatusRetryThen
  <2>2. CASE /\ Exists(cache) /\ watch = <<>> /\ apiObj' = [cache EXCEPT !.status = w.obj.status]
             /\ w' = Continue(cache, cache.status = w.obj.status, w.next)
    <3>1. cache = apiObj
      BY <1>1, <2>2, CacheIsCurrent DEF BaseInv
    <3>2. Exists(w'.obj) => HealthyBy(w')
      BY <1>1, <1>3, <2>1, <2>2, <3>1, ContinueHeals
    <3>3. Healthy(apiObj')
      <4>1. apiObj'.gen = cache.gen /\ apiObj'.status = w.obj.status
        BY <1>1, <2>2 DEF Objects
      <4> QED
        BY <1>1, <1>3, <2>1, <2>2, <4>1 DEF Healthy, Polling, isInProgress
    <3> QED
      BY <3>2, <3>3 DEF Heals
  <2>3. ASSUME NEW o, o = IF Exists(cache) THEN cache ELSE w.obj, NEW f, UNCHANGED apiObj,
               w' = [w EXCEPT !.obj = o, !.fresh = f, !.try = @ + 1]
        PROVE  Heals
    <3>1. w'.obj = o /\ w'.pc = w.pc /\ Healthy(o)
      BY <1>1, <1>3, <2>1, <2>3 DEF Workers
    <3> QED
      BY <1>3, <2>1, <2>3, <3>1 DEF Heals, HealthyBy, Creates
  <2>4. ASSUME NEW o, NEW f, UNCHANGED apiObj, w' = GiveUp(o, f, w.next)
        PROVE  Heals
    <3>1. w' = Idle
      BY <1>3, <2>1, <2>4 DEF GiveUp
    <3> QED
      BY <1>1, <1>3, <2>1, <2>4, <3>1 DEF Heals
  <2>5. \/ /\ Exists(cache) /\ watch = <<>> /\ apiObj' = [cache EXCEPT !.status = w.obj.status]
           /\ w' = Continue(cache, cache.status = w.obj.status, w.next)
        \/ \E o, f :
             /\ o = IF Exists(cache) THEN cache ELSE w.obj
             /\ UNCHANGED apiObj
             /\ \/ w' = [w EXCEPT !.obj = o, !.fresh = f, !.try = @ + 1]
                \/ w' = GiveUp(o, f, w.next)
    BY <1>5, Zenon DEF StatusRetry, StatusRetryThen, Write
  <2> QED
    BY <2>2, <2>3, <2>4, <2>5
<1> QED
  BY <1>2, <1>4, <1>5

\* The finalizer is added before there is an instance, and removed after the resource
\* was deleted.
LEMMA FinalizerHeals ==
  ASSUME MaxLives <= 1, Names = {K8sName}, DropsFailed = FALSE, UInv, [Next]_vars,
         AddFinalizer \/ RemoveFinalizer
  PROVE  Heals
<1> SUFFICES ASSUME Open' PROVE Heals
  BY DEF Heals
<1>1. w.pc \in {"addFinalizer", "removeFinalizer"}
  BY DEF AddFinalizer, RemoveFinalizer
<1>2. /\ BaseInv /\ Held /\ TInv /\ w.obj \in Objects /\ apiObj \in Objects
      /\ apiObj \in Copies /\ w.obj \in Copies /\ Truthful /\ OneLife(Creates, Removes)
      /\ Open /\ ~Doomed /\ Healthy(apiObj) /\ HealthyBy(w) /\ Unspoilt /\ Exists(w.obj)
  BY <1>1, HealthyBefore, KnownParts, CopiesType DEF UInv, FInv, GInv, BaseInv
<1>3. AddFinalizer
  BY <1>1, <1>2 DEF OneLife, Removing, Removes, RemoveFinalizer
<1>4. Used = {}
  BY <1>2, <1>3 DEF UInv, Infant, Unspoilt, AddFinalizer, Open
<1>5. ASSUME NEW o \in {apiObj, w.obj} PROVE o.status.id = NoId /\ ~Polling(o) /\ o.gen = 1
  <2>1. o \in Objects /\ Recorded(sm, o.status)
    BY <1>2 DEF Truthful
  <2>2. o.gen = 1
    BY <1>2, <1>3 DEF HealthyBy, Healthy, AddFinalizer, Creates
  <2>3. ASSUME NEW i \in IDs PROVE sm[i].ops = <<>>
    BY <1>4 DEF Used, FreeIDs
  <2>4. o.status.id = NoId
    BY <2>1, <2>3 DEF Recorded, Objects, Statuses
  <2>5. o.status.op = NoOp
    <3>1. ASSUME o.status.op # NoOp PROVE FALSE
      <4>1. o.status.op.id \in IDs /\ o.status.op.n \in DOMAIN sm[o.status.op.id].ops
        BY <2>1, <3>1 DEF Recorded, Objects, Statuses, OpRefs
      <4>2. DOMAIN sm[o.status.op.id].ops = {}
        BY <2>3, <4>1
      <4> QED
        BY <4>1, <4>2
    <3> QED
      BY <3>1
  <2> QED
    BY <2>2, <2>4, <2>5 DEF Polling
<1>6. ASSUME NEW o \in {apiObj, w.obj}, NEW p, p = [o EXCEPT !.finalizer = TRUE]
      PROVE  Healthy(setInProgressCondition("CREATE", p))
  <2>1. p \in Objects /\ p.gen = o.gen /\ p.status = o.status
    BY <1>2, <1>6 DEF Objects
  <2> QED
    BY <1>5, <1>6, <2>1, SettersHeal DEF OperationCategories, Polling
<1>7. Healthy(apiObj')
  <2>1. UNCHANGED apiObj \/ apiObj' = [apiObj EXCEPT !.finalizer = TRUE]
    BY <1>2, <1>3, AddFinalizerOutcome
  <2>2. [apiObj EXCEPT !.finalizer = TRUE].gen = apiObj.gen /\ [apiObj EXCEPT !.finalizer = TRUE].status = apiObj.status
    BY <1>2 DEF Objects
  <2> QED
    BY <1>2, <2>1, <2>2 DEF Healthy, Polling, isInProgress
<1>8. CASE w' = Idle
  BY <1>7, <1>8 DEF Heals, Idle, NoObject, Exists
<1>9. CASE w'.pc = "status" /\ \E o \in {apiObj, w.obj} :
             w'.obj = setInProgressCondition("CREATE", [o EXCEPT !.finalizer = TRUE])
  BY <1>6, <1>7, <1>9 DEF Heals, HealthyBy, Creates
<1> QED
  BY <1>2, <1>3, <1>8, <1>9, AddFinalizerOutcome

\* The user begins with nothing and, there being one generation, changes nothing.
LEMMA OthersHeal ==
  ASSUME MaxLives <= 1, MaxGen <= 1, Names = {K8sName}, DropsFailed = FALSE, UInv, [Next]_vars,
         User \/ Deliver \/ Resync \/ Restart \/ ServiceManager \/ UNCHANGED vars
  PROVE  Heals
<1> SUFFICES ASSUME Open' PROVE Heals
  BY DEF Heals
<1>1. /\ w \in Workers /\ apiObj \in Objects /\ apiObj \in Copies /\ w.obj \in Copies /\ BaseInv
      /\ Open => Healthy(apiObj)
  BY HealthyBefore, CopiesType DEF BaseInv
<1>2. Exists(w'.obj) => HealthyBy(w')
  <2>1. CASE w' = Idle
    BY <2>1 DEF Idle, NoObject, Exists
  <2>2. CASE w'.pc = w.pc /\ w'.obj = w.obj
    <3>1. Exists(w.obj) => HealthyBy(w)
      <4>1. CASE w.pc # "idle"
        BY <4>1, HealthyBefore
      <4>2. CASE Open
        BY <4>2 DEF UInv, Untroubled
      <4>3. CASE ~Open
        BY <1>1, <4>3, OpenBefore DEF UInv, FInv
      <4> QED
        BY <4>2, <4>3
    <3> QED
      BY <2>2, <3>1 DEF HealthyBy
  <2> QED
    BY <1>1, <2>1, <2>2, OthersLeaveWorker
<1>3. Healthy(apiObj')
  <2>1. CASE UserDelete
    <3>1. apiObj' = NoObject \/ apiObj' = [apiObj EXCEPT !.deleting = TRUE]
      BY <2>1 DEF UserDelete, Write
    <3>2. ~Exists(NoObject) /\ [apiObj EXCEPT !.deleting = TRUE].deleting
      BY <1>1 DEF NoObject, Exists, Objects
    <3>3. apiObj' = NoObject => FALSE
      BY <3>2 DEF Open, Exists
    <3> QED
      BY <3>1, <3>2, <3>3 DEF Open
  <2>2. ASSUME NEW name, NEW s, UserCreate(name, s) PROVE Healthy(apiObj')
    <3>1. apiObj'.gen = 1 /\ apiObj'.status = EmptyStatus
      BY <2>2 DEF UserCreate, Write, NoObject
    <3> QED
      BY <3>1 DEF Healthy, EmptyStatus, NoConditions, Polling, isInProgress
  <2>3. ASSUME NEW name, NEW s, UserEdit(name, s) PROVE FALSE
    <3>1. Exists(apiObj) /\ apiObj.gen < MaxGen
      BY <2>3 DEF UserEdit
    <3>2. apiObj.gen > 0 /\ apiObj.gen \in Nat
      BY <1>1, <3>1, CopiesType DEF UInv, FInv, Aged, Objects
    <3> QED
      BY <3>1, <3>2, ConstantsAssumption
  <2>4. CASE Deliver \/ Resync \/ Restart \/ ServiceManager \/ UNCHANGED vars
    <3>1. UNCHANGED apiObj
      BY <2>4 DEF Deliver, Resync, Restart, ServiceManager, SMComplete, vars, baseVars
    <3> QED
      BY <1>1, <3>1 DEF Open, Exists
  <2> QED
    BY <2>1, <2>2, <2>3, <2>4 DEF User
<1> QED
  BY <1>2, <1>3 DEF Heals

\* An operation ends well.
LEMMA FinishGoesWell ==
  ASSUME SMInv, NEW i \in IDs, SMFinish(i), "operation" \notin SMFaults,
         NEW j \in IDs, \A k \in DOMAIN sm[j].ops : sm[j].ops[k].state # "FAILED",
         NEW k \in DOMAIN sm'[j].ops
  PROVE  sm'[j].ops[k].state # "FAILED"
<1>1. /\ sm \in [IDs -> Things] /\ LiveIsRecorded /\ sm[i] \in Things
      /\ sm[i].ops \in Seq(Operations) /\ Len(sm[i].ops) \in DOMAIN sm[i].ops
      /\ Advanced(i) /\ DOMAIN sm'[i].ops = DOMAIN sm[i].ops
      /\ \A n \in DOMAIN sm[i].ops : n # Len(sm[i].ops) => sm'[i].ops[n] = sm[i].ops[n]
  BY FinishFacts DEF SMInv, Things
<1>2. sm'[i].ops[Len(sm[i].ops)].state = "SUCCEEDED"
  <2>1. PICK state \in {"SUCCEEDED"} \cup (IF "operation" \in SMFaults THEN {"FAILED"} ELSE {}),
             dropped \in {FALSE, DropsFailed} :
          LET op == Last(i)
              removed == \/ op.type = "DELETE" /\ state = "SUCCEEDED"
                         \/ op.type = "CREATE" /\ state = "FAILED" /\ dropped
          IN sm' = [sm EXCEPT
               ![i].alive = ~removed,
               ![i].spec = IF op.type = "UPDATE" /\ state = "SUCCEEDED" THEN op.spec ELSE @,
               ![i].ops[Len(sm[i].ops)].state = state]
    BY Zenon DEF SMFinish
  <2>2. sm'[i].ops = [sm[i].ops EXCEPT ![Len(sm[i].ops)].state = state]
    BY <1>1, <2>1 DEF Things
  <2>3. state = "SUCCEEDED"
    OBVIOUS
  <2>4. sm[i].ops[Len(sm[i].ops)] \in Operations
    BY <1>1
  <2> QED
    BY <1>1, <2>2, <2>3, <2>4 DEF Operations
<1> QED
  BY <1>1, <1>2 DEF Advanced

\* As long as the user has not deleted the resource nothing goes wrong at SM.
LEMMA UnspoiltKept ==
  ASSUME MaxLives <= 1, Names = {K8sName}, DropsFailed = FALSE, Obliging, UInv, [Prompt]_vars, Open'
  PROVE  Unspoilt'
<1>1. /\ [Next]_vars /\ GInv /\ Marked /\ Infant /\ TInv
      /\ "operation" \notin SMFaults
  BY PromptSteps DEF UInv, FInv, GInv, Heeded, Obliging, Refusals
<1>2. /\ BaseInv /\ Held /\ SMInv /\ Remembers /\ w \in Workers
      /\ apiObj \in Objects /\ apiObj.finalizer \in BOOLEAN
      /\ Open => ~Doomed /\ ~w.obj.deleting /\ Unspoilt
      /\ w.pc # "idle" => Open /\ HealthyBy(w)
  BY <1>1, HealthyBefore DEF Objects
<1>3. \/ UNCHANGED sm
      \/ w.pc = "provision" /\ \E i \in FreeIDs, state \in {"SUCCEEDED", "IN_PROGRESS"} :
                                 SMCreate(i, RequestOf(w.obj), state)
      \/ \E i \in IDs : SMFinish(i)
  <2>1. w.pc \notin {"update", "deprovision"}
    BY <1>1, <1>2 DEF HealthyBy, TInv, IInv, CallsAreMeant
  <2> QED
    BY <1>1, <2>1, EverythingRequested DEF RequestedBy, Calls
<1>4. ASSUME Used = {}, w.pc # "provision" PROVE UNCHANGED sm /\ Used' = {}
  <2>1. ASSUME NEW i \in IDs, SMFinish(i) PROVE FALSE
    BY <1>2, <1>4, <2>1 DEF SMFinish, Busy, SMInv, LiveIsRecorded, Used, FreeIDs
  <2> QED
    BY <1>3, <1>4, <2>1 DEF Used, FreeIDs
<1>5. CASE ~Open
  <2>1. Used = {} /\ w.pc = "idle"
    BY <1>1, <1>5, OpenBefore
  <2>2. UNCHANGED sm /\ Used' = {}
    BY <1>4, <2>1
  <2>3. ASSUME NEW i \in IDs PROVE DOMAIN sm'[i].ops = {}
    <3>1. sm'[i].ops = <<>>
      BY <2>1, <2>2 DEF Used, FreeIDs
    <3> QED
      BY <3>1
  <2> QED
    BY <2>2, <2>3 DEF Unspoilt
<1>6. CASE Open
  <2>1. ASSUME ~apiObj'.finalizer \/ Setting' PROVE Used' = {}
    <3>1. ~apiObj.finalizer \/ Setting
      <4>1. CASE ~apiObj'.finalizer
        BY <1>1, <1>6, <4>1, FinalizerGoesLast DEF Open, Exists
      <4>2. CASE Setting' /\ Worker
        <5>1. Setting \/ AddFinalizer
          BY <1>1, <1>2, <4>2, WorkersNext
        <5> QED
          BY <1>1, <1>6, <5>1 DEF Infant, AddFinalizer, Open
      <4>3. CASE Setting' /\ ~Worker
        <5>1. w' = Idle \/ (w'.pc = w.pc /\ w'.next = w.next)
          BY <1>2, <4>3, OthersLeaveWorker, PromptSteps
        <5> QED
          BY <4>3, <5>1 DEF Setting, Idle
      <4> QED
        BY <2>1, <4>1, <4>2, <4>3
    <3>2. Used = {}
      BY <1>2, <1>6, <3>1 DEF Unspoilt
    <3>3. w.pc # "provision"
      BY <1>1, <1>6, <3>1, InfantFacts DEF Setting, Creates, Open
    <3> QED
      BY <1>4, <3>2, <3>3
  <2>2. ASSUME NEW j \in IDs, NEW k \in DOMAIN sm'[j].ops PROVE sm'[j].ops[k].state # "FAILED"
    <3>1. \A n \in DOMAIN sm[j].ops : sm[j].ops[n].state # "FAILED"
      BY <1>2, <1>6 DEF Unspoilt
    <3>2. CASE UNCHANGED sm
      BY <2>2, <3>1, <3>2
    <3>3. ASSUME NEW i \in FreeIDs, NEW state \in {"SUCCEEDED", "IN_PROGRESS"},
                 SMCreate(i, RequestOf(w.obj), state)
          PROVE  sm'[j].ops[k].state # "FAILED"
      <4> DEFINE op == Operation("CREATE", state, RequestOf(w.obj))
      <4>1. op.state # "FAILED"
        BY DEF Operation
      <4>2. sm' = [sm EXCEPT ![i] = [alive |-> TRUE, spec |-> RequestOf(w.obj), ops |-> <<op>>]]
        BY <3>3 DEF SMCreate
      <4> HIDE DEF op
      <4>3. CASE j = i
        <5>1. sm'[j].ops = <<op>>
          BY <1>2, <4>2, <4>3 DEF SMInv
        <5> QED
          BY <2>2, <4>1, <5>1
      <4>4. CASE j # i
        BY <1>2, <2>2, <3>1, <4>2, <4>4 DEF SMInv
      <4> QED
        BY <4>3, <4>4
    <3>4. ASSUME NEW i \in IDs, SMFinish(i) PROVE sm'[j].ops[k].state # "FAILED"
      BY <1>1, <1>2, <2>2, <3>1, <3>4, FinishGoesWell
    <3> QED
      BY <1>3, <3>2, <3>3, <3>4
  <2> QED
    BY <2>1, <2>2 DEF Unspoilt
<1> QED
  BY <1>5, <1>6

\* Every prompt step keeps it all.
LEMMA NextUInv ==
  ASSUME MaxLives <= 1, MaxGen <= 1, Names = {K8sName}, DropsFailed = FALSE, ApiFaults = FALSE,
         Obliging, UInv, [Prompt]_vars
  PROVE  UInv'
<1>1. /\ [Next]_vars /\ FInv /\ GInv /\ Marked /\ Answering
  BY PromptSteps DEF UInv, FInv, Heeded, Obliging, Answering, Refusals
<1>2. FInv' /\ Infant'
  BY <1>1, NextFInv, InfantKept DEF UInv
<1>3. Heals
  <2>1. CASE Poll \/ Recover \/ createInstance \/ updateInstance \/ RecoverForDelete \/ Deprovision
    BY <1>1, <2>1, CallsHeal
  <2>2. CASE Reconcile \/ StatusUpdate \/ StatusRetry \/ AddFinalizer \/ RemoveFinalizer
    BY <1>1, <2>2, StatusHeals, FinalizerHeals
  <2>3. CASE User \/ Deliver \/ Resync \/ Restart \/ ServiceManager \/ UNCHANGED vars
    BY <1>1, <2>3, OthersHeal
  <2> QED
    BY <1>1, <2>1, <2>2, <2>3 DEF Next, Worker
<1>4. ASSUME Open', NEW k \in 0..Len(watch'), Exists(Version(k)') PROVE Healthy(Version(k)')
  <2>1. BaseInv /\ Kinds
    BY <1>1, KnownParts, KindsOfSteps DEF GInv, TInv
  <2>2. CASE Version(k)' = apiObj'
    BY <1>3, <1>4, <2>2 DEF Heals
  <2>3. ASSUME NEW j \in 0..Len(watch), Version(k)' = Version(j) PROVE Healthy(Version(k)')
    <3>1. Version(j) \in Copies /\ Exists(Version(j))
      BY <1>4, <2>1, <2>3 DEF Version, Copies, Exists, BaseInv, BaseTypes
    <3>2. Open
      BY <1>1, <1>4, <3>1, OpenBefore
    <3> QED
      BY <2>3, <3>1, <3>2 DEF UInv, Untroubled
  <2> QED
    BY <1>4, <2>1, <2>2, <2>3, NewVersions
<1>5. Open' => Unspoilt'
  BY UnspoiltKept
<1> QED
  BY <1>2, <1>3, <1>4, <1>5 DEF UInv, Untroubled, Heals, HealthyBy

\* A resource comes to rest as failed only if SM refused something or failed, for one
\* incarnation and one generation that is given to Reconcile only after the informer
\* has shown what init did: listings and the SM client are to be had, and writes to the
\* API server fail by conflict only.  A poll or a request may fail for a while.
THEOREM FailuresAreFinal ==
  ASSUME MaxLives <= 1, MaxGen <= 1, Names = {K8sName}, DropsFailed = FALSE, ApiFaults = FALSE,
         ClientFaults = FALSE, "list" \notin SMFaults
  PROVE  PromptSpec => []FailedIsFinal
<1>1. CASE SMFaults \cap Refusals # {}
  <2>1. FailedIsFinal
    BY <1>1 DEF FailedIsFinal
  <2> QED
    BY <2>1, PTL
<1>2. CASE SMFaults \cap Refusals = {}
  <2>1. Obliging
    BY <1>2 DEF Obliging
  <2>2. Init => UInv
    <3> SUFFICES ASSUME Init PROVE UInv
      OBVIOUS
    <3>1. FInv /\ Infant
      BY InitFInv, InitPInv DEF PInv
    <3>2. ~Open
      BY DEF Init, Open, NoObject, Exists
    <3> QED
      BY <3>1, <3>2 DEF UInv, Untroubled
  <2>3. UInv /\ [Prompt]_vars => UInv'
    BY <2>1, NextUInv
  <2>4. UInv => FailedIsFinal
    <3> SUFFICES ASSUME UInv, Quiescent, Exists(apiObj), apiObj.status.cond.failed PROVE FALSE
      BY DEF FailedIsFinal
    <3>1. Settled(apiObj) /\ Marked
      BY DEF UInv, FInv, Heeded, Owed, Quiescent
    <3>2. Open
      BY <3>1 DEF Settled, Marked, Open
    <3>3. BaseInv
      BY KnownParts DEF UInv, FInv, GInv
    <3>4. Healthy(apiObj)
      BY <3>2, <3>3, LastVersion DEF UInv, Untroubled, Open
    <3> QED
      BY <3>1, <3>4 DEF Healthy, Settled
  <2> QED
    BY <2>2, <2>3, <2>4, PTL DEF PromptSpec
<1> QED
  BY <1>1, <1>2

==============================================================================
