------------------- MODULE ServiceBindingController_proofs -------------------
(***************************************************************************)
(* Proofs about ServiceBindingController, for every value of its           *)
(* constants: one inductive invariant (IInv), and what follows from it;    *)
(* then, for one external name, at most one binding (Single); then, for    *)
(* one incarnation, the finalizer and the owner that keep it (GInv), and   *)
(* the promise of ManagedResource.                                         *)
(*                                                                         *)
(* What Reconcile computes between two calls is a function of one copy of  *)
(* the resource and of what the worker found.  Goes(x, o, f) says of a     *)
(* worker x all that the invariant needs to know about that function; the  *)
(* lemmas of the second part establish it for each place Reconcile can     *)
(* come to, and the proofs of the actions then look at the variables only. *)
(* The third part shows of each step what ManagedResource_proofs asks for, *)
(* and adds what only a binding has: its owner.  The fourth is about the   *)
(* specification in which Reconcile sees the finalizer (PromptSpec): the   *)
(* copies of a binding with an id are in order (UInv).  Two parts follow:  *)
(* on PromptSpec, that nothing is left undone (Heeded), and, for any order *)
(* of the steps, that what says it was created has credentials (EInv).     *)
(***************************************************************************)
EXTENDS ServiceBindingController, ManagedResource_proofs, FiniteSetTheorems

\* What the worker x sets out for agrees with its copy and with what it found.
Meant(x, found1) ==
  /\ x.pc = "poll" => Polling(x.obj)
  /\ x.pc = "unbind" => x.obj.deleting /\ x.obj.status.id # NoId
  /\ x.pc \in {"recover", "own"} /\ found1.id # NoId => found1.op # NoOp
  /\ x.pc = "bind" => found1.id = NoId

\* The worker x goes on with o, a copy that is fresh if f.
Goes(x, o, f) == x \in Workers /\ Carries(x, o, f) /\ Meant(x, found')

\* It goes on with the copy it had.
Moves == Goes(w', w.obj, w.fresh) /\ queued' \in BOOLEAN

\* What the controller adds to the state of BaseReconciler.
Own ==
  /\ inst \in Life!Instances
  /\ secrets \in [SecretNames -> SecretTypes] /\ secretCache \in [SecretNames -> SecretTypes]
  /\ found \in FoundTypes /\ FoundIsTrue

\* SM keeps its records and their names.
SMGoes == SMInv' /\ RequestsNamed' /\ Remembers

------------------------------------------------------------------------------
(* The parts of the invariant *)

\* The invariant is that of the resource and of SM, and what the controller keeps besides.
LEMMA Parts ==
  /\ IInv <=> BaseInv /\ Truthful /\ Held /\ w \in Workers /\ CallsAreMeant /\ Own
  /\ IInv' <=> BaseInv' /\ Truthful' /\ Held' /\ w' \in Workers /\ CallsAreMeant' /\ Own'
<1>1. \A x \in Workers : x.obj \in Objects
  BY DEF Workers
<1> QED
  BY <1>1 DEF IInv, BaseInv, TypeOK, BaseTypes, Own

\* What the worker holds, and what it can ask SM for.
LEMMA Holding ==
  ASSUME IInv
  PROVE  /\ SMInv /\ RequestsNamed /\ w \in Workers
         /\ w.obj \in Objects /\ w.fresh \in BOOLEAN /\ w.next \in Nexts /\ w.pc \in PCs
         /\ queued \in BOOLEAN /\ found \in FoundTypes
         /\ w.obj.status \in Statuses /\ Recorded(sm, w.obj.status)
         /\ w.obj.status.id # NoId => w.obj.status.id \in Used
         /\ w.pc # "idle" => /\ Exists(w.obj) /\ w.obj.name \in Names
                             /\ RequestOf(w.obj) \in Requests
                             /\ RequestOf(w.obj).name \in Names
<1>1. TypeOK /\ LiveIsRecorded /\ Truthful /\ Held
  BY DEF IInv
<1>2. SMInv /\ RequestsNamed
  BY <1>1 DEF SMInv, TypeOK, Truthful
<1>3. /\ w \in Workers /\ w.obj \in Objects /\ w.fresh \in BOOLEAN /\ w.next \in Nexts
      /\ w.pc \in PCs /\ queued \in BOOLEAN /\ found \in FoundTypes
  BY <1>1 DEF TypeOK, Workers
<1>4. w.obj.status \in Statuses /\ Recorded(sm, w.obj.status) /\ w.obj \in Copies
  BY <1>1, <1>3 DEF Truthful, Copies, Objects
<1>5. w.obj.status.id # NoId => w.obj.status.id \in Used
  BY <1>4 DEF Recorded, Statuses, Used, FreeIDs
<1>6. w.pc # "idle" => Exists(w.obj) /\ w.obj.name \in Names
  BY <1>1, <1>4 DEF Held, Truthful
<1> QED
  BY <1>2, <1>3, <1>4, <1>5, <1>6, SpecType DEF RequestOf

\* A call that does not reach SM leaves it what it was.
LEMMA SMStays == IInv /\ UNCHANGED sm => SMGoes
  BY Holding DEF SMGoes, SMInv, RemovedIsGone, LiveIsRecorded, RequestsNamed, Used, FreeIDs, Ops,
     Remembers

\* What was found stays found.
LEMMA FoundStays ==
  ASSUME found \in FoundTypes, FoundIsTrue, Remembers, UNCHANGED found
  PROVE  found' \in FoundTypes /\ FoundIsTrue'
<1> DEFINE st == [id |-> found.id, op |-> found.op, cond |-> NoConditions, obs |-> 0]
<1>1. st \in Statuses /\ st.id = found.id /\ st.op = found.op
  BY DEF FoundTypes, Statuses, Conditions, NoConditions
<1> HIDE DEF st
<1>2. Recorded(sm', st)
  BY <1>1 DEF FoundIsTrue, Recorded, Remembers
<1> QED
  BY <1>1, <1>2 DEF FoundIsTrue, Recorded

\* Nothing found is nothing wrong.
LEMMA NothingType ==
  ASSUME found' = Nothing
  PROVE  found' \in FoundTypes /\ FoundIsTrue'
BY DEF Nothing, FoundTypes, FoundIsTrue, Recorded, OpRefs

\* So does everything else that the worker found, when it forgets it at the end.
LEMMA OwnStays ==
  ASSUME IInv, Remembers, UNCHANGED <<inst, secrets, secretCache>>,
         UNCHANGED found \/ found' = Nothing
  PROVE  Own'
BY Parts, FoundStays, NothingType DEF Own

------------------------------------------------------------------------------
(* Where Reconcile goes on *)

\* The worker that returns goes on from any copy.
LEMMA IdleGoes == \A o, f : Goes(Idle, o, f)
  BY NoObjectType DEF Goes, Idle, Workers, PCs, Nexts, Carries, Meant

\* Setting out for a call.
LEMMA AtGoes ==
  ASSUME NEW o \in Objects, NEW p, Restates(p, o), Recorded(sm', o.status), NEW f \in BOOLEAN,
         NEW pc \in PCs, pc = "poll" => Polling(o),
         pc = "unbind" => o.deleting /\ o.status.id # NoId,
         pc \in {"recover", "own"} /\ found'.id # NoId => found'.op # NoOp,
         pc = "bind" => found'.id = NoId
  PROVE  Goes(At(pc, p, f), o, f)
<1>1. p \in Objects /\ p = [o EXCEPT !.status = p.status] /\ Recorded(sm', p.status)
  BY DEF Restates, Recorded
<1>2. At(pc, p, f) \in Workers
  BY <1>1 DEF At, Workers, Nexts
<1>3. p.deleting = o.deleting
  BY <1>1 DEF Objects
<1> QED
  BY <1>1, <1>2, <1>3 DEF At, Goes, Carries, Meant, Polling, Restates

\* Setting out for a status update.
LEMMA SavingGoes ==
  ASSUME NEW o \in Objects, NEW p \in Objects, p = [o EXCEPT !.status = p.status],
         Recorded(sm', p.status), NEW f \in BOOLEAN, NEW next \in Nexts
  PROVE  Goes(Saving(p, f, next), o, f)
BY DEF Saving, Goes, Workers, PCs, Carries, Meant

\* With new conditions only.
LEMMA RestatedGoes ==
  ASSUME NEW o \in Objects, NEW p, Restates(p, o), Recorded(sm', o.status), NEW f \in BOOLEAN,
         NEW next \in Nexts
  PROVE  Goes(Saving(p, f, next), o, f)
BY SavingGoes DEF Restates, Recorded

\* What follows init.
LEMMA ProceedGoes ==
  ASSUME NEW o \in Objects, Recorded(sm', o.status), NEW f \in BOOLEAN
  PROVE  Goes(Proceed(o, f), o, f)
BY IdleGoes, AtGoes, RestatesSelf DEF Proceed, PCs

\* What follows the check for an SM client.
LEMMA DispatchGoes ==
  ASSUME NEW o \in Objects, Recorded(sm', o.status), NEW f \in BOOLEAN
  PROVE  Goes(Dispatch(o, f), o, f)
<1>1. Restates(o, o) /\ o.deleting \in BOOLEAN
  BY RestatesSelf DEF Objects
<1>2. Polling(o) => Goes(At("poll", o, f), o, f)
  BY <1>1, AtGoes DEF PCs
<1>3. o.deleting => Goes(At(DeleteCall(o), o, f), o, f)
  <2>1. Goes(At("recoverForDelete", o, f), o, f)
    BY <1>1, AtGoes DEF PCs
  <2>2. o.deleting /\ o.status.id # NoId => Goes(At("unbind", o, f), o, f)
    BY <1>1, AtGoes DEF PCs
  <2> QED
    BY <2>1, <2>2 DEF DeleteCall
<1>4. Goes(At("addFinalizer", o, f), o, f)
  BY <1>1, AtGoes DEF PCs
<1> QED
  BY <1>2, <1>3, <1>4, IdleGoes, ProceedGoes DEF Dispatch, isDelete

\* What follows a status update.
LEMMA ContinueGoes ==
  ASSUME NEW o \in Objects, Recorded(sm', o.status), NEW f \in BOOLEAN, NEW next \in Nexts
  PROVE  Goes(Continue(o, f, next), o, f) /\ Goes(GiveUp(o, f, next), o, f)
<1>1. Goes(NoClient(o, f), o, f)
  BY RestatedGoes, SettersRestate DEF NoClient, OperationCategories, Nexts
<1>2. Goes(At("deleteSecret", o, f), o, f)
  BY AtGoes, RestatesSelf DEF PCs
<1> QED
  BY <1>1, <1>2, IdleGoes, ProceedGoes DEF Continue, GiveUp

\* What SM says of a binding that was found is taken over as it is.
LEMMA ResyncGoes ==
  ASSUME NEW o \in Objects, NEW g \in FoundTypes, Recorded(sm', g), g.id # NoId, g.op # NoOp,
         g.op.id = g.id, g.state \in OperationStates, NEW f \in BOOLEAN, NEW next \in Nexts
  PROVE  Goes(Saving(resyncBindingStatus(o, g), f, next), o, f)
<1> DEFINE r == [o EXCEPT !.status.obs = o.gen, !.status.id = g.id, !.status.op = NoOp]
           op == [type |-> g.op.type, id |-> g.id, n |-> g.op.n]
<1>1. /\ g.id \in IDs /\ g.op \in OpRefs /\ g.op.type \in OperationCategories
      /\ g.op.n \in Nat /\ op = g.op
  BY DEF FoundTypes, OpRefs
<1> HIDE DEF op
<1>2. /\ r \in Objects /\ r = [o EXCEPT !.status = r.status]
      /\ r.status.id = g.id /\ r.status.op = NoOp
  BY <1>1 DEF Objects, Statuses, OpRefs
<1> HIDE DEF r
<1>3. Recorded(sm', r.status)
  BY <1>2 DEF Recorded
<1>4. ASSUME NEW p \in Objects, p = [o EXCEPT !.status = p.status], Recorded(sm', p.status),
             NEW x, Restates(x, p)
      PROVE  Goes(Saving(x, f, next), o, f)
  <2>1. x \in Objects /\ x = [o EXCEPT !.status = x.status] /\ Recorded(sm', x.status)
    BY <1>4 DEF Restates, Recorded, Objects
  <2> QED
    BY <2>1, SavingGoes
<1>5. CASE \/ resyncBindingStatus(o, g) = setSuccessConditions(g.op.type, r)
           \/ resyncBindingStatus(o, g) = setFailureConditions(g.op.type, r)
  BY <1>1, <1>2, <1>3, <1>4, <1>5, SettersRestate
<1>6. CASE resyncBindingStatus(o, g) = InOperation(g.op.type, g.id, g.op.n, r)
  <2> DEFINE q == [r EXCEPT !.status.id = g.id, !.status.op = op]
  <2>1. q \in Objects /\ q = [r EXCEPT !.status = q.status]
        /\ q.status.id = g.id /\ q.status.op = g.op
    BY <1>1, <1>2 DEF Objects, Statuses
  <2>2. q = [o EXCEPT !.status = q.status]
    BY <1>2, <2>1 DEF Objects
  <2>3. Recorded(sm', q.status)
    BY <2>1 DEF Recorded
  <2>4. InOperation(g.op.type, g.id, g.op.n, r) = setInProgressCondition(g.op.type, q)
    BY DEF InOperation, op, q
  <2> HIDE DEF q
  <2> QED
    BY <1>1, <1>4, <1>6, <2>1, <2>2, <2>3, <2>4, SettersRestate
<1> QED
  BY <1>5, <1>6 DEF resyncBindingStatus, OperationStates, r

\* What follows the owner reference.
LEMMA AfterOwnerGoes ==
  ASSUME NEW o \in Objects, Recorded(sm', o.status), NEW f \in BOOLEAN,
         found' \in FoundTypes, FoundIsTrue', found'.id # NoId => found'.op # NoOp
  PROVE  Goes(AfterOwner(o, f, found'), o, f)
<1>1. Restates(o, o)
  BY RestatesSelf
<1>2. found'.id = NoId => Goes(At("bind", o, f), o, f)
  BY <1>1, AtGoes DEF PCs
<1>3. Goes(At("store", o, f), o, f)
  BY <1>1, AtGoes DEF PCs
<1>4. found'.id # NoId => Goes(Saving(resyncBindingStatus(o, found'), f, "done"), o, f)
  BY ResyncGoes DEF FoundIsTrue, Nexts
<1> QED
  BY <1>2, <1>3, <1>4 DEF AfterOwner

------------------------------------------------------------------------------
(* Steps *)

\* What Goes says is all there is to show of the worker.
LEMMA GoesKeeps ==
  ASSUME NEW o \in Objects, NEW f, Exists(o), o.name \in Names, Goes(w', o, f),
         Sound(sm', apiObj'), f => o = [apiObj' EXCEPT !.status = o.status]
  PROVE  /\ w' \in Workers /\ CallsAreMeant' /\ KeepsTruth
         /\ w'.obj \in Objects /\ (w'.obj = NoObject \/ Same(w'.obj, o))
<1>1. w' \in Workers /\ CallsAreMeant' /\ KeepsTruth
  BY CarrierIsTrue DEF Goes, Meant, CallsAreMeant, Polling
<1>2. w'.obj \in Objects /\ (w'.obj = NoObject \/ Same(w'.obj, o))
  <2>1. CASE w' = Idle
    BY <2>1, NoObjectType DEF Idle
  <2>2. CASE w'.obj \in Objects /\ w'.obj = [o EXCEPT !.status = w'.obj.status]
    BY <2>2 DEF Objects, Same
  <2> QED
    BY <2>1, <2>2 DEF Goes, Carries
<1> QED
  BY <1>1, <1>2

\* A step of the worker that writes nothing to the API server.
LEMMA LocalStep ==
  ASSUME IInv, NEW o \in Copies, NEW f, Exists(o), Goes(w', o, f),
         f => o = [apiObj EXCEPT !.status = o.status],
         UNCHANGED <<apiObj, cache, watch, lives>>, queued' \in BOOLEAN, SMGoes, Own'
  PROVE  IInv'
<1>1. BaseInv /\ Truthful /\ Held
  BY Parts
<1>2. o \in Objects /\ o.name \in Names /\ Sound(sm', apiObj')
  BY <1>1, CopiesStayTrue DEF SMGoes, Sound
<1>3. /\ w' \in Workers /\ CallsAreMeant' /\ KeepsTruth
      /\ w'.obj \in Objects /\ (w'.obj = NoObject \/ Same(w'.obj, o))
  BY <1>2, GoesKeeps
<1>4. BaseInv'
  BY <1>1, <1>3, QuietStep DEF SMGoes, SMInv
<1>5. Copies' \subseteq Copies \cup {apiObj', w'.obj}
  BY DEF Copies
<1>6. Truthful'
  BY <1>1, <1>3, <1>5, TruthKept DEF SMGoes
<1> QED
  BY <1>3, <1>4, <1>6, Parts DEF KeepsTruth

\* A step of the worker from the copy it has.
LEMMA MoveStep ==
  ASSUME IInv, w.pc # "idle", Moves, UNCHANGED <<apiObj, cache, watch, lives>>, SMGoes, Own'
  PROVE  IInv' /\ Moves
<1>1. w.obj \in Copies /\ Exists(w.obj) /\ (w.fresh => w.obj = [apiObj EXCEPT !.status = w.obj.status])
  BY Holding DEF Copies, IInv, Held
<1> QED
  BY <1>1, LocalStep DEF Moves

\* A step of the worker that writes p, the same incarnation or none at all.
LEMMA WriteStep ==
  ASSUME IInv, NEW p \in Objects, Write(p), p = NoObject \/ Same(p, apiObj), Sound(sm', p),
         NEW o \in Objects, NEW c \in Copies, Same(o, c), Exists(o), o.name \in Names,
         NEW f, Goes(w', o, f), f => o = [p EXCEPT !.status = o.status],
         UNCHANGED <<cache, lives, sm>>, queued' \in BOOLEAN, Own'
  PROVE  IInv'
<1>1. BaseInv /\ Truthful /\ Held /\ SMGoes
  BY Parts, SMStays
<1>2. apiObj' = p
  BY DEF Write
<1>3. /\ w' \in Workers /\ CallsAreMeant' /\ KeepsTruth
      /\ w'.obj \in Objects /\ (w'.obj = NoObject \/ Same(w'.obj, c))
  BY <1>2, GoesKeeps DEF Same
<1>4. BaseInv'
  BY <1>1, <1>3, WritingStep
<1>5. Copies' \subseteq Copies \cup {apiObj', w'.obj}
  BY <1>1, <1>2, WriteFollows DEF BaseInv, Copies
<1>6. Truthful'
  BY <1>1, <1>3, <1>5, TruthKept DEF SMGoes
<1> QED
  BY <1>3, <1>4, <1>6, Parts DEF KeepsTruth

\* A step of somebody else, or one that adds or removes the finalizer.
LEMMA OtherStep ==
  ASSUME IInv, BaseInv', KeepsTruth, w' \in Workers, CallsAreMeant', SMGoes, Own',
         Copies' \subseteq Copies \cup {apiObj', w'.obj}
  PROVE  IInv'
<1>1. Truthful'
  BY Parts, TruthKept DEF SMGoes
<1> QED
  BY <1>1, Parts DEF KeepsTruth

------------------------------------------------------------------------------
(* Ways a call ends *)

\* With a status update of new conditions, a requeue, or another call.
LEMMA EndingsMove ==
  ASSUME IInv, w.pc # "idle", Remembers
  PROVE  /\ \A p : \A next \in Nexts : Restates(p, w.obj) /\ Save(p, next) => Moves
         /\ Requeue => Moves
         /\ \A type \in OperationCategories : Transient(type) \/ NonTransient(type) => Moves
<1>1. w.obj \in Objects /\ w.fresh \in BOOLEAN /\ queued \in BOOLEAN
  BY Holding
<1>2. Recorded(sm', w.obj.status)
  BY Holding DEF Remembers
<1>3. ASSUME NEW p, NEW next \in Nexts, Restates(p, w.obj), Save(p, next) PROVE Moves
  <2>1. Goes(Saving(p, w.fresh, next), w.obj, w.fresh)
    BY <1>1, <1>2, <1>3, RestatedGoes
  <2> QED
    BY <1>1, <1>3, <2>1 DEF Save, Moves
<1>4. Requeue => Moves
  BY IdleGoes DEF Requeue, Moves
<1>5. ASSUME NEW type \in OperationCategories, Transient(type) \/ NonTransient(type) PROVE Moves
  <2>1. /\ Restates(setInProgressCondition(type, w.obj), w.obj)
        /\ Restates(markAsNonTransientError(type, w.obj), w.obj)
    BY <1>1, SettersRestate
  <2>2. "requeue" \in Nexts /\ "done" \in Nexts
    BY DEF Nexts
  <2> QED
    BY <1>3, <1>5, <2>1, <2>2 DEF Transient, NonTransient
<1> QED
  BY <1>3, <1>4, <1>5

\* With a status update of a status computed before.
LEMMA SavedMoves ==
  ASSUME IInv, Computed, NEW p, NEW next \in Nexts, Save(p, next)
  PROVE  Moves
<1>1. w' = Saving(p, w.fresh, next) /\ queued' \in BOOLEAN /\ w.fresh \in BOOLEAN
  BY Holding DEF Save
<1>2. w'.pc = "status" /\ w'.obj = p /\ p \in Objects
  BY <1>1 DEF Saving, Computed, Carries, Idle
<1>3. w' \in Workers
  BY <1>1, <1>2 DEF Saving, Workers, PCs
<1> QED
  BY <1>1, <1>2, <1>3 DEF Moves, Goes, Computed, Meant

\* With the id, or the operation, that SM assigned.
LEMMA AcceptedMoves ==
  ASSUME IInv, w.pc # "idle", Remembers, NEW type \in OperationCategories,
         NEW i \in IDs \cup {NoId}, i # NoId => sm'[i].ops # <<>>, NEW n \in Nat,
         NEW next \in Nexts,
         \/ Save(setSuccessConditions(type, [w.obj EXCEPT !.status.id = i]), next)
         \/ Save(setInProgressCondition(type, [w.obj EXCEPT !.status.id = i]), next)
         \/ /\ i \in IDs /\ n \in DOMAIN sm'[i].ops /\ sm'[i].ops[n].type = type
            /\ Save(InOperation(type, i, n, w.obj), next)
  PROVE  Moves
<1>1. w.obj \in Objects /\ Recorded(sm', w.obj.status)
  BY Holding DEF Remembers
<1>2. Computed
  BY <1>1, AcceptedComputed
<1> QED
  BY <1>2, SavedMoves

\* With another call for the same copy.
LEMMA GotoMoves ==
  ASSUME IInv, w.pc # "idle", Remembers, NEW p, Restates(p, w.obj), NEW pc \in PCs, Goto(pc, p),
         pc \notin {"poll", "unbind"},
         pc \in {"recover", "own"} /\ found'.id # NoId => found'.op # NoOp,
         pc = "bind" => found'.id = NoId
  PROVE  Moves
<1>1. w.obj \in Objects /\ w.fresh \in BOOLEAN /\ queued \in BOOLEAN /\ Recorded(sm', w.obj.status)
  BY Holding DEF Remembers
<1>2. Goes(At(pc, p, w.fresh), w.obj, w.fresh)
  BY <1>1, AtGoes
<1> QED
  BY <1>1, <1>2 DEF Goto, Moves

\* SM creates a binding when asked.
LEMMA CreateGoes ==
  ASSUME IInv, w.pc # "idle", NEW i \in FreeIDs, NEW state \in {"SUCCEEDED", "IN_PROGRESS"},
         SMCreate(i, RequestOf(w.obj), state)
  PROVE  /\ SMGoes /\ i \in IDs /\ i # NoId
         /\ 1 \in DOMAIN sm'[i].ops /\ sm'[i].ops # <<>> /\ sm'[i].ops[1].type = "CREATE"
<1>1. /\ SMInv /\ RequestsNamed /\ RequestOf(w.obj) \in Requests /\ RequestOf(w.obj).name \in Names
      /\ i \in IDs
  BY Holding DEF FreeIDs
<1>2. Advanced(i) /\ SMInv' /\ RequestsNamed'
  BY <1>1, RequestAdvances, RequestKeepsNames
<1>3. 1 \in DOMAIN sm'[i].ops /\ sm'[i].ops[1].type = "CREATE"
  BY <1>1, CreateFacts DEF SMInv
<1> QED
  BY <1>1, <1>2, <1>3, AdvanceIsRemembered, ServiceManagerAssumption DEF SMGoes, SMInv

\* SM deletes a binding it assigned the id of.
LEMMA DeleteGoes ==
  ASSUME IInv, NEW i \in Used, SMDeleteNow(i) \/ SMDeleteAsync(i)
  PROVE  /\ SMGoes /\ i \in IDs
         /\ SMDeleteAsync(i) => /\ Len(sm[i].ops) + 1 \in DOMAIN sm'[i].ops
                                /\ sm'[i].ops[Len(sm[i].ops) + 1].type = "DELETE"
                                /\ sm'[i].ops # <<>> /\ Len(sm[i].ops) + 1 \in Nat
<1>1. SMInv /\ RequestsNamed /\ i \in IDs /\ NoRequest \in Requests
  BY Holding DEF Used, NoRequest, Requests
<1>2. Advanced(i) /\ SMInv' /\ RequestsNamed'
  BY <1>1, RequestAdvances, OthersKeepNames
<1>3. SMDeleteAsync(i) => /\ Len(sm[i].ops) + 1 \in DOMAIN sm'[i].ops
                          /\ sm'[i].ops[Len(sm[i].ops) + 1].type = "DELETE"
  BY <1>1, DeleteAsyncFacts DEF SMInv
<1>4. Len(sm[i].ops) + 1 \in Nat
  <2>1. sm[i].ops \in Seq(Operations)
    BY <1>1 DEF SMInv, Things
  <2> QED
    BY <2>1
<1> QED
  BY <1>1, <1>2, <1>3, <1>4, AdvanceIsRemembered DEF SMGoes, SMInv

\* SM finishes what it has in progress.
LEMMA FinishGoes ==
  ASSUME IInv, NEW i \in IDs, SMFinish(i)
  PROVE  SMGoes
<1>1. SMInv /\ RequestsNamed
  BY Holding
<1>2. i \in Used
  BY <1>1 DEF SMFinish, Busy, SMInv, LiveIsRecorded, Used, FreeIDs
<1> QED
  BY <1>1, <1>2, FinishAdvances, OthersKeepNames, AdvanceIsRemembered DEF SMGoes, SMInv

------------------------------------------------------------------------------
(* The actions of the worker: what every Reconcile does *)

\* The steps of BaseReconciler leave what the controller adds alone.
LEMMA SharedStep ==
  ASSUME IInv, UNCHANGED <<sm, ownVars>>
  PROVE  SMGoes /\ Remembers /\ Own'
<1>1. SMGoes /\ Remembers
  BY SMStays DEF SMGoes
<1> QED
  BY <1>1, OwnStays DEF ownVars

\* The invariant makes every copy one that tells the truth.
LEMMA CopyIsTrue ==
  ASSUME IInv, NEW o \in Copies
  PROVE  o \in Objects /\ Sound(sm, o) /\ (Remembers => Recorded(sm', o.status))
<1>1. o \in Objects /\ Sound(sm, o) /\ o.status \in Statuses
  BY Parts, CopiesType DEF BaseInv, Truthful, Sound, Objects
<1> QED
  BY <1>1 DEF Sound, Remembers

\* The start of a Reconcile keeps the invariant.
LEMMA ReconcileStep == IInv /\ Reconcile => IInv'
<1> SUFFICES ASSUME IInv, Reconcile PROVE IInv'
  OBVIOUS
<1>1. /\ UNCHANGED <<apiObj, cache, watch, lives>> /\ w.pc = "idle" /\ queued' \in BOOLEAN
      /\ SMGoes /\ Remembers /\ Own'
  BY SharedStep DEF Reconcile, ReconcileWith
<1>2. cache \in Copies /\ cache \in Objects /\ Recorded(sm', cache.status)
  BY <1>1, CopyIsTrue DEF Copies
<1>3. CacheFollows /\ (watch = <<>>) \in BOOLEAN
  BY DEF IInv
<1>4. ASSUME Exists(cache), Goes(w', cache, watch = <<>>) PROVE IInv'
  <2>1. watch = <<>> => cache = [apiObj EXCEPT !.status = cache.status]
    BY <1>2, <1>3, CacheIsCurrent DEF Objects
  <2> QED
    BY <1>1, <1>2, <1>4, <2>1, LocalStep
<1>5. CASE UNCHANGED w
  <2>1. BaseInv /\ Truthful /\ Held
    BY Parts
  <2>2. BaseInv'
    BY <1>1, <1>5, <2>1 DEF Reconcile, ReconcileWith, BaseInv, BaseTypes, CacheFollows,
       DeletionIsFinal, Copies, LiveIsRecorded
  <2>3. CallsAreMeant' /\ w' \in Workers
    BY <1>1, <1>5, Holding DEF CallsAreMeant
  <2>4. Sound(sm', apiObj')
    BY <1>1, <2>1, CopiesStayTrue
  <2>5. KeepsTruth /\ Copies' \subseteq Copies
    BY <1>1, <1>5, <2>1, <2>4, OthersAreTrue DEF Copies
  <2> QED
    BY <1>1, <2>2, <2>3, <2>5, OtherStep
<1>6. CASE Exists(cache) /\ w' = Dispatch(cache, watch = <<>>)
  BY <1>2, <1>3, <1>4, <1>6, DispatchGoes
<1>7. CASE Exists(cache) /\ w' = Saving(setBlockedCondition(cache), watch = <<>>, "noClient")
  <2>1. Restates(setBlockedCondition(cache), cache)
    BY <1>2, SettersRestate DEF OperationCategories
  <2>2. Goes(w', cache, watch = <<>>)
    BY <1>2, <1>7, <2>1, RestatedGoes DEF Nexts
  <2> QED
    BY <1>4, <1>7, <2>2
<1> QED
  BY <1>5, <1>6, <1>7, Zenon DEF Reconcile, ReconcileWith

\* The first attempt of a status write keeps the invariant.
LEMMA StatusUpdateStep == IInv /\ StatusUpdate => IInv'
<1> SUFFICES ASSUME IInv, StatusUpdate PROVE IInv'
  OBVIOUS
<1>1. /\ UNCHANGED <<cache, lives, sm>> /\ w.pc = "status"
      /\ SMGoes /\ Remembers /\ Own'
  BY SharedStep DEF StatusUpdate, StatusUpdateThen
<1>2. /\ w.obj \in Copies /\ w.obj \in Objects /\ Sound(sm, w.obj) /\ Recorded(sm', w.obj.status)
      /\ Exists(w.obj) /\ w.obj.name \in Names /\ w.next \in Nexts /\ w \in Workers
  BY <1>1, CopyIsTrue, Holding DEF Copies
<1>3. CASE /\ w.fresh
           /\ Write([apiObj EXCEPT !.status = w.obj.status])
           /\ w' = Continue(apiObj', TRUE, w.next)
           /\ queued' = (queued \/ w.next = "requeue")
  <2>1. w.obj = [apiObj EXCEPT !.status = w.obj.status]
    BY <1>3 DEF IInv, Held
  <2>2. Write(w.obj) /\ apiObj' = w.obj
    BY <1>3, <2>1 DEF Write
  <2>3. Goes(w', w.obj, TRUE)
    BY <1>2, <1>3, <2>2, ContinueGoes
  <2>4. Same(w.obj, apiObj)
    <3>1. apiObj \in Objects
      BY DEF IInv, TypeOK
    <3> QED
      BY <2>1, <3>1 DEF Same, Objects
  <2>5. Same(w.obj, w.obj) /\ w.obj = [w.obj EXCEPT !.status = w.obj.status] /\ Sound(sm', w.obj)
    BY <1>1, <1>2 DEF Same, Objects, Sound
  <2>6. queued' \in BOOLEAN
    BY <1>3, Holding
  <2> QED
    BY <1>1, <1>2, <2>2, <2>3, <2>4, <2>5, <2>6, WriteStep
<1>4. CASE w' = [w EXCEPT !.try = 2] /\ UNCHANGED <<apiObj, watch, queued>>
  <2>1. /\ w' \in Workers /\ w'.obj = w.obj /\ w'.fresh = w.fresh /\ w'.pc = "status"
    BY <1>1, <1>2, <1>4 DEF Workers
  <2>2. Goes(w', w.obj, w.fresh)
    BY <1>2, <2>1 DEF Goes, Carries, Meant, Objects
  <2> QED
    BY <1>1, <1>4, <2>2, MoveStep, Holding DEF Moves
<1> QED
  BY <1>3, <1>4, Zenon DEF StatusUpdate, StatusUpdateThen

\* So does a later one, which writes the status into the copy of the cache.
LEMMA StatusRetryStep == IInv /\ StatusRetry => IInv'
<1> SUFFICES ASSUME IInv, StatusRetry PROVE IInv'
  OBVIOUS
<1>1. /\ UNCHANGED <<cache, lives, sm>> /\ w.pc = "status"
      /\ SMGoes /\ Remembers /\ Own'
  BY SharedStep DEF StatusRetry, StatusRetryThen
<1>2. /\ w.obj \in Copies /\ w.obj \in Objects /\ Sound(sm, w.obj)
      /\ Exists(w.obj) /\ w.next \in Nexts /\ w \in Workers
      /\ cache \in Copies /\ cache \in Objects /\ Sound(sm, cache)
      /\ apiObj \in Objects /\ CacheFollows /\ queued \in BOOLEAN
  BY <1>1, CopyIsTrue, Holding DEF Copies, IInv
<1>3. CASE /\ Exists(cache) /\ watch = <<>>
           /\ Write([cache EXCEPT !.status = w.obj.status])
           /\ w' = Continue(cache, cache.status = w.obj.status, w.next)
           /\ queued' = (queued \/ w.next = "requeue")
  <2> DEFINE p == [cache EXCEPT !.status = w.obj.status]
             f == cache.status = w.obj.status
  <2>1. cache = apiObj
    BY <1>2, <1>3, CacheIsCurrent
  <2>2. p \in Objects /\ Sound(sm', p) /\ Same(p, apiObj)
    BY <1>1, <1>2, <2>1, RewrittenIsSound DEF Same, Objects
  <2>3. f \in BOOLEAN /\ (f => cache = [p EXCEPT !.status = cache.status])
    BY <1>2 DEF Objects
  <2>4. Recorded(sm', cache.status) /\ cache.name \in Names
    BY <1>1, <1>2, <1>3 DEF Sound
  <2>5. w' = Continue(cache, f, w.next) /\ Write(p)
    BY <1>3
  <2> HIDE DEF p, f
  <2>6. Goes(w', cache, f)
    BY <1>2, <2>3, <2>4, <2>5, ContinueGoes
  <2>7. Same(cache, cache) /\ queued' \in BOOLEAN
    BY <1>2, <1>3 DEF Same
  <2> QED
    BY <1>1, <1>2, <1>3, <2>2, <2>3, <2>4, <2>5, <2>6, <2>7, WriteStep
<1>4. CASE /\ LET o == IF Exists(cache) THEN cache ELSE w.obj
                  f == Exists(cache) /\ watch = <<>>
              IN IF w.try < Attempts
                 THEN w' = [w EXCEPT !.obj = o, !.fresh = f, !.try = @ + 1] /\ UNCHANGED queued
                 ELSE /\ w' = GiveUp(o, f, w.next)
                      /\ queued' = (queued \/ w.next # "noClient")
           /\ UNCHANGED <<apiObj, watch>>
  <2> DEFINE o == IF Exists(cache) THEN cache ELSE w.obj
             f == Exists(cache) /\ watch = <<>>
  <2>1. /\ o \in Copies /\ o \in Objects /\ f \in BOOLEAN /\ Exists(o) /\ Recorded(sm', o.status)
        /\ f => o = [apiObj EXCEPT !.status = o.status]
    BY <1>1, <1>2, CacheIsCurrent DEF Objects, Sound
  <2>2. \/ /\ w.try < Attempts
           /\ w' = [w EXCEPT !.obj = o, !.fresh = f, !.try = @ + 1] /\ UNCHANGED queued
        \/ /\ w' = GiveUp(o, f, w.next)
           /\ queued' = (queued \/ w.next # "noClient")
    BY <1>4, Zenon
  <2> HIDE DEF o, f
  <2>3. queued' \in BOOLEAN
    BY <1>2, <2>2
  <2>4. Goes(w', o, f)
    <3>1. CASE /\ w.try < Attempts
               /\ w' = [w EXCEPT !.obj = o, !.fresh = f, !.try = @ + 1]
      <4>1. w.try \in 0..3 /\ w.try + 1 \in 0..3
        BY <1>2, <3>1 DEF Workers, Attempts
      <4>2. w' \in Workers /\ w'.obj = o /\ w'.fresh = f /\ w'.pc = "status"
        BY <1>1, <1>2, <2>1, <3>1, <4>1 DEF Workers
      <4> QED
        BY <2>1, <4>2 DEF Goes, Carries, Meant, Objects
    <3>2. CASE w' = GiveUp(o, f, w.next)
      BY <1>2, <2>1, <3>2, ContinueGoes
    <3> QED
      BY <2>2, <3>1, <3>2
  <2> QED
    BY <1>1, <1>4, <2>1, <2>3, <2>4, LocalStep
<1> QED
  BY <1>3, <1>4, Zenon DEF StatusRetry, StatusRetryThen

\* What a write leaves of copies.
LEMMA WrittenCopies ==
  ASSUME IInv, UNCHANGED cache, NEW p \in Objects, Write(p) \/ UNCHANGED <<apiObj, watch>>
  PROVE  Copies' \subseteq Copies \cup {apiObj', w'.obj}
<1>1. Write(p) => /\ apiObj' = p
                  /\ \A k \in DOMAIN watch' : watch'[k] = p \/ \E j \in DOMAIN watch : watch'[k] = watch[j]
  BY Parts, WriteFollows DEF BaseInv
<1> QED
  BY <1>1 DEF Copies

\* A worker that returned or is about to write a status calls nobody else.
LEMMA PausedIsMeant ==
  ASSUME NEW next \in Nexts, Paused(next)
  PROVE  w' \in Workers /\ CallsAreMeant'
<1>1. CASE w' = Idle
  BY <1>1, NoObjectType DEF Idle, Workers, PCs, Nexts, CallsAreMeant
<1>2. ASSUME NEW p \in Objects, NEW f \in BOOLEAN, w' = Saving(p, f, next)
      PROVE  w' \in Workers /\ CallsAreMeant'
  BY <1>2 DEF Saving, Workers, PCs, CallsAreMeant
<1> QED
  BY <1>1, <1>2 DEF Paused

\* Adding the finalizer keeps the invariant, ...
LEMMA InitFinalizerStep == IInv /\ InitFinalizer => IInv'
<1> SUFFICES ASSUME IInv, InitFinalizer PROVE IInv'
  OBVIOUS
<1>1. /\ AddFinalizer /\ UNCHANGED <<cache, sm, ownVars>> /\ SMGoes /\ Remembers /\ Own'
      /\ BaseInv /\ Truthful /\ Held /\ w.fresh \in BOOLEAN /\ "init" \in Nexts
  BY SharedStep, Parts, Holding DEF InitFinalizer, AddFinalizer, Nexts
<1>2. BaseInv' /\ Paused("init")
  BY <1>1, AddFinalizerKeeps
<1>3. KeepsTruth
  BY <1>1, AddFinalizerIsTrue
<1>4. w' \in Workers /\ CallsAreMeant'
  BY <1>1, <1>2, PausedIsMeant
<1>5. Copies' \subseteq Copies \cup {apiObj', w'.obj}
  <2>1. [apiObj EXCEPT !.finalizer = TRUE] \in Objects
    BY <1>1 DEF BaseInv, BaseTypes, Objects
  <2>2. Write([apiObj EXCEPT !.finalizer = TRUE]) \/ UNCHANGED <<apiObj, watch>>
    BY <1>1, AddFinalizerOutcome
  <2> QED
    BY <1>1, <2>1, <2>2, WrittenCopies
<1> QED
  BY <1>1, <1>2, <1>3, <1>4, <1>5, OtherStep

\* ... and so does removing it.
LEMMA DropFinalizerStep == IInv /\ DropFinalizer => IInv'
<1> SUFFICES ASSUME IInv, DropFinalizer PROVE IInv'
  OBVIOUS
<1>1. /\ RemoveFinalizer /\ UNCHANGED <<cache, sm, ownVars>> /\ SMGoes /\ Remembers /\ Own'
      /\ BaseInv /\ Truthful /\ Held /\ w.fresh \in BOOLEAN /\ "done" \in Nexts
  BY SharedStep, Parts, Holding DEF DropFinalizer, RemoveFinalizer, Nexts
<1>2. BaseInv' /\ Paused("done")
  BY <1>1, RemoveFinalizerKeeps
<1>3. KeepsTruth
  BY <1>1, RemoveFinalizerIsTrue
<1>4. w' \in Workers /\ CallsAreMeant'
  BY <1>1, <1>2, PausedIsMeant
<1>5. Copies' \subseteq Copies \cup {apiObj', w'.obj}
  <2>1. Released(apiObj) \in Objects
    BY <1>1, NoObjectType DEF BaseInv, BaseTypes, Objects, Released
  <2>2. Write(Released(apiObj)) \/ UNCHANGED <<apiObj, watch>>
    BY <1>1, RemoveFinalizerOutcome
  <2> QED
    BY <1>1, <2>1, <2>2, WrittenCopies
<1> QED
  BY <1>1, <1>2, <1>3, <1>4, <1>5, OtherStep

------------------------------------------------------------------------------
(* The actions of the worker: before a binding is created *)

\* The setters used here leave id and operation alone.
LEMMA Settings ==
  ASSUME IInv
  PROVE  \A type \in OperationCategories :
           /\ Restates(setInProgressCondition(type, w.obj), w.obj)
           /\ Restates(setSuccessConditions(type, w.obj), w.obj)
           /\ Restates(setFailureConditions(type, w.obj), w.obj)
           /\ Restates(setBlockedCondition(w.obj), w.obj)
           /\ Restates(w.obj, w.obj)
BY Holding, SettersRestate, RestatesSelf

\* The process that ends and starts again keeps the invariant, where it ends.
LEMMA RestartStep ==
  ASSUME IInv, Restart, found' = Nothing, secretCache' = secrets, UNCHANGED <<inst, secrets>>
  PROVE  IInv'
<1>1. BaseInv /\ Truthful /\ Held /\ BaseInv' /\ w' = Idle /\ UNCHANGED sm /\ SMGoes /\ Remembers
  BY Parts, RestartKeeps, SMStays DEF Restart, SMGoes
<1>2. Own'
  BY <1>1, Parts, NothingType DEF Own
<1>3. w' \in Workers /\ CallsAreMeant'
  <2>1. Paused("done") /\ "done" \in Nexts
    BY <1>1 DEF Paused, Nexts
  <2> QED
    BY <2>1, PausedIsMeant
<1>4. UNCHANGED apiObj /\ Copies' \subseteq Copies \cup {apiObj', w'.obj}
  BY <1>1 DEF Restart, Copies
<1>5. KeepsTruth
  <2>1. Sound(sm', apiObj')
    BY <1>1, <1>4, CopiesStayTrue
  <2> QED
    BY <1>1, <2>1, OthersAreTrue
<1> QED
  BY <1>1, <1>2, <1>3, <1>4, <1>5, OtherStep

\* Reading the instance keeps the invariant.
LEMMA ReadInstanceStep == IInv /\ ReadInstance => IInv' /\ (Moves \/ Restart)
<1> SUFFICES ASSUME IInv, ReadInstance PROVE IInv' /\ (Moves \/ Restart)
  OBVIOUS
<1>1. w.pc = "instance" /\ w.pc # "idle" /\ {"done", "requeue"} \subseteq Nexts
      /\ "CREATE" \in OperationCategories /\ "recover" \in PCs
  BY DEF ReadInstance, Nexts, OperationCategories, PCs
<1>2. ASSUME UNCHANGED <<apiObj, cache, watch, lives, sm, inst, secrets, secretCache>>,
             UNCHANGED found,
             \/ Save(setBlockedCondition(w.obj), "requeue")
             \/ Save(setBlockedCondition(w.obj), "done")
             \/ Save(setInProgressCondition("CREATE", w.obj), "requeue")
             \/ w' = Idle /\ UNCHANGED queued
      PROVE  IInv' /\ (Moves \/ Restart)
  <2>1. SMGoes /\ Remembers /\ Own'
    BY <1>2, SharedStep DEF ownVars
  <2>2. Moves
    <3>1. w' = Idle /\ UNCHANGED queued => Moves
      BY IdleGoes, Holding DEF Moves
    <3> QED
      BY <1>1, <1>2, <2>1, <3>1, EndingsMove, Settings
  <2> QED
    BY <1>1, <1>2, <2>1, <2>2, MoveStep
<1>3. ASSUME UNCHANGED <<apiObj, cache, watch, lives, sm, inst, secrets, secretCache>>,
             Goto("recover", w.obj), NEW named \in BOOLEAN,
             found' = [Nothing EXCEPT !.owner = inst.uid, !.named = named]
      PROVE  IInv' /\ (Moves \/ Restart)
  <2>1. SMGoes /\ Remembers
    BY <1>3, SMStays DEF SMGoes
  <2>2. found' \in FoundTypes /\ FoundIsTrue' /\ found'.id = NoId
    <3>1. inst.uid \in Nat
      BY Parts, BindingAssumption DEF Own, Life!Instances
    <3> QED
      BY <1>3, <3>1 DEF Nothing, FoundTypes, FoundIsTrue, Recorded, OpRefs
  <2>3. Own'
    BY <1>3, <2>2, Parts DEF Own
  <2>4. Moves
    BY <1>1, <1>3, <2>1, <2>2, Settings, GotoMoves
  <2> QED
    BY <1>1, <1>3, <2>1, <2>3, <2>4, MoveStep
<1>4. CASE Restart /\ found' = Nothing /\ secretCache' = secrets /\ UNCHANGED <<inst, secrets>>
  BY <1>4, RestartStep
<1> QED
  BY <1>2, <1>3, <1>4 DEF ReadInstance, ownVars

\* What recovery finds is true.
LEMMA RecoveredIsTrue ==
  ASSUME IInv, UNCHANGED sm, NEW i \in IDs, sm[i].alive, found' = Recovered(i)
  PROVE  found' \in FoundTypes /\ FoundIsTrue' /\ found'.id = i /\ found'.op # NoOp
<1> DEFINE n == Len(sm[i].ops)
           op == [type |-> Last(i).type, id |-> i, n |-> n]
<1>1. found \in FoundTypes /\ SMInv
  BY Holding
<1>2. sm[i].ops \in Seq(Operations) /\ sm[i].ops # <<>>
  BY <1>1 DEF SMInv, Things, LiveIsRecorded
<1>3. n \in Nat /\ n \in DOMAIN sm[i].ops /\ Last(i) = sm[i].ops[n] /\ Last(i) \in Operations
  BY <1>2 DEF Last
<1>4. Last(i).type \in OperationCategories /\ Last(i).state \in OperationStates
  BY <1>3 DEF Operations
<1>5. op \in OpRefs /\ op.id = i /\ op.n = n /\ op.type = Last(i).type
  BY <1>3, <1>4 DEF OpRefs
<1> HIDE DEF n
<1>6. op # NoOp
  BY <1>5, ServiceManagerAssumption DEF NoOp
<1>7. found' = [found EXCEPT !.id = i, !.state = Last(i).state, !.op = op]
  BY DEF Recovered, n
<1> HIDE DEF op
<1>8. /\ found' \in FoundTypes /\ found'.id = i /\ found'.op = op /\ found'.state = Last(i).state
  BY <1>1, <1>4, <1>5, <1>7 DEF FoundTypes
<1>9. Recorded(sm', found')
  BY <1>2, <1>3, <1>5, <1>8 DEF Recorded
<1> QED
  BY <1>4, <1>5, <1>6, <1>8, <1>9 DEF FoundIsTrue

\* Recovery keeps the invariant.
LEMMA RecoverStep == IInv /\ Recover => IInv' /\ Moves
<1> SUFFICES ASSUME IInv, Recover PROVE IInv' /\ Moves
  OBVIOUS
<1>1. /\ w.pc = "recover" /\ UNCHANGED <<apiObj, cache, watch, queued, lives, sm>>
      /\ UNCHANGED <<inst, secrets, secretCache>>
      /\ w' = IF Owned(w.obj) THEN AfterOwner(w.obj, w.fresh, found')
              ELSE At("own", w.obj, w.fresh)
      /\ \/ \E i \in IDs : Matches(w.obj.name) = {i} /\ found' = Recovered(i)
         \/ UNCHANGED found
  BY DEF Recover
<1>2. SMGoes /\ Remembers
  BY <1>1, SMStays DEF SMGoes
<1>3. found' \in FoundTypes /\ FoundIsTrue' /\ (found'.id # NoId => found'.op # NoOp)
  <2>1. ASSUME NEW i \in IDs, Matches(w.obj.name) = {i}, found' = Recovered(i)
        PROVE  found' \in FoundTypes /\ FoundIsTrue' /\ found'.op # NoOp
    <3>1. sm[i].alive
      BY <2>1 DEF Matches
    <3> QED
      BY <1>1, <2>1, <3>1, RecoveredIsTrue
  <2>2. CASE UNCHANGED found
    <3>1. found.id # NoId => found.op # NoOp
      BY <1>1 DEF IInv, CallsAreMeant
    <3> QED
      BY <1>2, <2>2, <3>1, FoundStays, Parts DEF Own
  <2> QED
    BY <1>1, <2>1, <2>2
<1>4. Own'
  BY <1>1, <1>3, Parts DEF Own
<1>5. /\ w.obj \in Objects /\ w.fresh \in BOOLEAN /\ Recorded(sm', w.obj.status)
      /\ Restates(w.obj, w.obj) /\ queued' \in BOOLEAN
  BY <1>1, <1>2, Holding, RestatesSelf DEF Remembers
<1>6. Goes(AfterOwner(w.obj, w.fresh, found'), w.obj, w.fresh)
  BY <1>3, <1>5, AfterOwnerGoes
<1>7. Goes(At("own", w.obj, w.fresh), w.obj, w.fresh)
  <2>1. "own" \in PCs
    BY DEF PCs
  <2> QED
    BY <1>3, <1>5, <2>1, AtGoes
<1>8. Moves
  BY <1>1, <1>5, <1>6, <1>7 DEF Moves
<1> QED
  BY <1>1, <1>2, <1>4, <1>8, MoveStep

\* p and o are copies of the same generation of the same resource.
Alike(p, o) == p.uid = o.uid /\ p.gen = o.gen /\ p.secretName = o.secretName

\* The owner is set, and the worker goes on with the resource it wrote.
OwnsIt ==
  /\ w.pc = "own" /\ Exists(apiObj) /\ UNCHANGED <<cache, lives, sm>>
  /\ Write([apiObj EXCEPT !.owner = found.owner])
  /\ w'.obj.owner = apiObj'.owner
  /\ Alike(w'.obj, w.obj) /\ w'.obj.deleting = w.obj.deleting

\* The owner reference is written into what the API server has.
LEMMA OwnedStep ==
  ASSUME IInv, w.pc = "own", w.fresh, Write([apiObj EXCEPT !.owner = found.owner]),
         w' = AfterOwner(Returned(apiObj'), TRUE, found), UNCHANGED <<queued, found>>,
         UNCHANGED <<cache, lives, sm, inst, secrets, secretCache>>
  PROVE  IInv' /\ OwnsIt
<1> DEFINE p == [apiObj EXCEPT !.owner = found.owner]
           o == Returned(p)
<1>1. SMGoes /\ Remembers /\ Own'
  BY SharedStep DEF ownVars
<1>2. /\ apiObj \in Copies /\ apiObj \in Objects /\ Sound(sm, apiObj) /\ Recorded(sm', apiObj.status)
      /\ w.obj \in Objects /\ found \in FoundTypes /\ queued' \in BOOLEAN
  BY <1>1, CopyIsTrue, Holding DEF Copies
<1>3. Exists(apiObj)
  BY <1>2, Holding DEF IInv, Held, Exists, Objects
<1>4. /\ p \in Objects /\ p.status = apiObj.status /\ p.uid = apiObj.uid /\ p.name = apiObj.name
      /\ p.gen = apiObj.gen /\ p.secretName = apiObj.secretName
      /\ p.deleting = apiObj.deleting
  BY <1>2 DEF Objects, FoundTypes
<1>5. apiObj' = p
  BY DEF Write
<1> HIDE DEF p
<1>6. /\ o \in Objects /\ o = [p EXCEPT !.status = o.status]
      /\ o.status.id = p.status.id /\ o.status.op = p.status.op
  BY <1>2, <1>4 DEF Returned, Objects, Statuses
<1>7. /\ o.uid = p.uid /\ o.name = p.name /\ o.deleting = p.deleting
      /\ o.gen = p.gen /\ o.secretName = p.secretName
  BY <1>4, <1>6 DEF Objects
<1> HIDE DEF o
<1>8. Recorded(sm', o.status) /\ Sound(sm', p)
  <2>1. Recorded(sm', o.status)
    <3>1. o.status.id = apiObj.status.id /\ o.status.op = apiObj.status.op
      BY <1>4, <1>6
    <3>2. Recorded(sm', apiObj.status)
      BY <1>2
    <3> QED
      BY <3>1, <3>2, Zenon DEF Recorded
  <2>2. UNCHANGED sm
    OBVIOUS
  <2>3. Sound(sm, p)
    BY <1>2, <1>3, <1>4, Zenon DEF Sound, Exists
  <2> QED
    BY <2>1, <2>2, <2>3
<1>9. found.id # NoId => found.op # NoOp
  BY DEF IInv, CallsAreMeant
<1>10. found' \in FoundTypes /\ FoundIsTrue'
  BY <1>1 DEF Own
<1>11. Goes(w', o, TRUE)
  <2>1. w' = AfterOwner(o, TRUE, found')
    BY <1>5 DEF o
  <2>2. found'.id # NoId => found'.op # NoOp
    BY <1>9
  <2> QED
    BY <1>6, <1>8, <1>10, <2>1, <2>2, AfterOwnerGoes
<1>12. Write(p)
  BY DEF p
<1>13. Same(p, apiObj) /\ Same(o, apiObj) /\ Exists(o) /\ o.name \in Names
  BY <1>2, <1>3, <1>4, <1>7 DEF Same, Exists, Sound
<1>14. IInv'
  BY <1>1, <1>2, <1>4, <1>6, <1>8, <1>11, <1>12, <1>13, WriteStep
<1>15. w'.obj.owner = p.owner /\ Alike(w'.obj, w.obj) /\ w'.obj.deleting = w.obj.deleting
  <2>1. w' = AfterOwner(o, TRUE, found)
    BY <1>5 DEF o
  <2>2. w' # Idle
    BY <2>1 DEF AfterOwner, At, Saving, Idle
  <2>3. w'.obj = [o EXCEPT !.status = w'.obj.status]
    BY <1>11, <2>2 DEF Goes, Carries
  <2>4. w'.obj.owner = p.owner /\ Alike(w'.obj, p) /\ w'.obj.deleting = p.deleting
    <3>1. w'.obj.owner = o.owner /\ Alike(w'.obj, o) /\ w'.obj.deleting = o.deleting
      BY <1>6, <2>3 DEF Objects, Alike
    <3>2. o.owner = p.owner
      BY <1>4, <1>6 DEF Objects
    <3> QED
      BY <1>7, <3>1, <3>2 DEF Alike
  <2>5. Alike(w.obj, apiObj) /\ w.obj.deleting = apiObj.deleting
    BY <1>2 DEF IInv, Held, Objects, Alike
  <2> QED
    BY <1>4, <2>4, <2>5 DEF Alike
<1> QED
  BY <1>3, <1>5, <1>14, <1>15 DEF OwnsIt, p

\* Setting the owner keeps the invariant.
LEMMA SetOwnerStep == IInv /\ SetOwner => IInv' /\ (Moves \/ OwnsIt)
<1> SUFFICES ASSUME IInv, SetOwner PROVE IInv' /\ (Moves \/ OwnsIt)
  OBVIOUS
<1>1. w.pc = "own" /\ UNCHANGED <<cache, lives, sm, inst, secrets, secretCache>>
  BY DEF SetOwner
<1>2. CASE /\ w.fresh
           /\ Write([apiObj EXCEPT !.owner = found.owner])
           /\ w' = AfterOwner(Returned(apiObj'), TRUE, found)
           /\ UNCHANGED <<queued, found>>
  BY <1>1, <1>2, OwnedStep
<1>3. CASE /\ Return(IF found.id = NoId
                     THEN Save(setFailureConditions("CREATE", w.obj), "requeue")
                     ELSE Requeue)
           /\ UNCHANGED <<apiObj, watch>>
  <2>1. SMGoes /\ Remembers
    BY <1>1, SMStays DEF SMGoes
  <2>2. found' = Nothing /\ (\/ Save(setFailureConditions("CREATE", w.obj), "requeue")
                             \/ Requeue)
    BY <1>3 DEF Return
  <2>3. Own'
    BY <1>1, <2>1, <2>2, OwnStays
  <2>4. Moves
    <3>1. "requeue" \in Nexts /\ "CREATE" \in OperationCategories
      BY DEF Nexts, OperationCategories
    <3> QED
      BY <1>1, <2>1, <2>2, <3>1, EndingsMove, Settings
  <2> QED
    BY <1>1, <1>3, <2>1, <2>3, <2>4, MoveStep
<1> QED
  BY <1>2, <1>3, Zenon DEF SetOwner

------------------------------------------------------------------------------
(* The actions of the worker: creating a binding, storing its credentials *)

\* A binding is asked for when none was found, so no operation is known either.
LEMMA BindFindsNothing ==
  ASSUME IInv, w.pc = "bind"
  PROVE  found \in FoundTypes /\ found.id = NoId /\ found.op = NoOp
<1>1. found \in FoundTypes /\ FoundIsTrue /\ found.id = NoId
  BY DEF IInv, TypeOK, CallsAreMeant
<1> QED
  BY <1>1, ServiceManagerAssumption DEF FoundTypes, FoundIsTrue, OpRefs

\* The step of a worker that returns, keeping no more than what SM recorded.
LEMMA ReturnStep ==
  ASSUME IInv, w.pc # "idle", Moves, found' = Nothing, SMGoes,
         UNCHANGED <<apiObj, cache, watch, lives, inst, secrets, secretCache>>
  PROVE  IInv' /\ Moves
<1>1. Own'
  BY OwnStays DEF SMGoes
<1> QED
  BY <1>1, MoveStep

\* Asking SM for a binding keeps the invariant.
LEMMA BindStep == IInv /\ Bind => IInv' /\ Moves
<1> SUFFICES ASSUME IInv, Bind PROVE IInv' /\ Moves
  OBVIOUS
<1>1. /\ w.pc = "bind" /\ w.pc # "idle"
      /\ UNCHANGED <<apiObj, cache, watch, lives, inst, secrets, secretCache>>
      /\ "CREATE" \in OperationCategories /\ {"done", "requeue"} \subseteq Nexts
      /\ "store" \in PCs /\ 1 \in Nat
  BY DEF Bind, OperationCategories, Nexts, PCs
<1>2. ASSUME NEW i \in FreeIDs, SMCreate(i, RequestOf(w.obj), "SUCCEEDED"),
             Goto("store", w.obj), found' = [found EXCEPT !.id = i]
      PROVE  IInv' /\ Moves
  <2>1. SMGoes /\ Remembers /\ i \in IDs /\ sm'[i].ops # <<>>
    BY <1>1, <1>2, CreateGoes DEF SMGoes
  <2>2. found' \in FoundTypes /\ found'.id = i /\ found'.op = NoOp
    BY <1>1, <1>2, <2>1, BindFindsNothing DEF FoundTypes
  <2>3. Own'
    BY <1>1, <2>1, <2>2, Parts DEF Own, FoundIsTrue, Recorded
  <2>4. Moves
    BY <1>1, <1>2, <2>1, Settings, GotoMoves
  <2> QED
    BY <1>1, <2>1, <2>3, <2>4, MoveStep
<1>3. ASSUME NEW i \in FreeIDs, SMCreate(i, RequestOf(w.obj), "IN_PROGRESS"),
             Return(Save(InOperation("CREATE", i, 1, w.obj), "requeue"))
      PROVE  IInv' /\ Moves
  <2>1. /\ SMGoes /\ Remembers /\ i \in IDs /\ sm'[i].ops # <<>>
        /\ 1 \in DOMAIN sm'[i].ops /\ sm'[i].ops[1].type = "CREATE"
    BY <1>1, <1>3, CreateGoes DEF SMGoes
  <2>2. Moves
    BY <1>1, <1>3, <2>1, AcceptedMoves DEF Return
  <2> QED
    BY <1>1, <1>3, <2>1, <2>2, ReturnStep DEF Return
<1>4. ASSUME \/ UNCHANGED sm
             \/ \E i \in FreeIDs, state \in {"SUCCEEDED", "IN_PROGRESS"} :
                  SMCreate(i, RequestOf(w.obj), state),
             Return(Transient("CREATE") \/ NonTransient("CREATE"))
      PROVE  IInv' /\ Moves
  <2>1. SMGoes /\ Remembers
    BY <1>1, <1>4, CreateGoes, SMStays DEF SMGoes
  <2>2. Moves
    BY <1>1, <1>4, <2>1, EndingsMove DEF Return
  <2> QED
    BY <1>1, <1>4, <2>1, <2>2, ReturnStep DEF Return
<1> QED
  BY <1>2, <1>3, <1>4, Zenon DEF Bind, Unanswered, Return

\* The end of storeBindingSecret, whatever called it, is a status update.
LEMMA AfterStoreMoves ==
  ASSUME IInv, w.pc # "idle", UNCHANGED sm, Remembers, AfterStore \/ NotStored
  PROVE  Moves
<1>1. /\ w.obj \in Objects /\ w.obj.status \in Statuses /\ Recorded(sm', w.obj.status)
      /\ w.fresh \in BOOLEAN /\ queued \in BOOLEAN /\ found \in FoundTypes
      /\ "CREATE" \in OperationCategories /\ {"done", "requeue"} \subseteq Nexts
  BY Holding DEF Remembers, OperationCategories, Nexts
<1>2. FoundIsTrue
  BY DEF IInv
<1>3. found.op # NoOp => /\ found.id # NoId /\ found.op.type \in OperationCategories
                         /\ found.op.id = found.id /\ found.state \in OperationStates
  BY <1>1, <1>2, ServiceManagerAssumption DEF FoundIsTrue, FoundTypes, OpRefs
<1>4. found.id \in IDs \cup {NoId} /\ (found.id # NoId => sm'[found.id].ops # <<>>)
  BY <1>1, <1>2 DEF FoundIsTrue, Recorded, FoundTypes
<1>5. CASE Save(ClearOp(w.obj), "done")
  <2>1. ClearOp(w.obj) \in Objects /\ ClearOp(w.obj) = [w.obj EXCEPT !.status = ClearOp(w.obj).status]
        /\ ClearOp(w.obj).status.id = w.obj.status.id /\ ClearOp(w.obj).status.op = NoOp
    BY <1>1 DEF ClearOp, Objects, Statuses, OpRefs
  <2>2. Recorded(sm', ClearOp(w.obj).status)
    BY <1>1, <2>1 DEF Recorded
  <2>3. Computed
    BY <1>5, <2>1, <2>2, SaveComputes
  <2> QED
    BY <1>1, <1>5, <2>3, SavedMoves
<1>6. CASE found.op # NoOp /\ Save(resyncBindingStatus(w.obj, found), "done")
  <2>1. Recorded(sm', found)
    BY <1>2 DEF FoundIsTrue
  <2>2. Goes(Saving(resyncBindingStatus(w.obj, found), w.fresh, "done"), w.obj, w.fresh)
    BY <1>1, <1>3, <1>6, <2>1, ResyncGoes
  <2> QED
    BY <1>1, <1>6, <2>2 DEF Save, Moves
<1>7. CASE Save(setSuccessConditions("CREATE", [w.obj EXCEPT !.status.id = found.id]), "done")
  <2>1. 0 \in Nat
    OBVIOUS
  <2> QED
    BY <1>1, <1>4, <1>7, <2>1, AcceptedMoves
<1>8. CASE Requeue
  BY <1>8, EndingsMove
<1>9. CASE \E type \in OperationCategories : Save(setFailureConditions(type, w.obj), "requeue")
  BY <1>1, <1>9, Settings, EndingsMove
<1>10. NotStored => \/ Requeue
                    \/ \E type \in OperationCategories : Save(setFailureConditions(type, w.obj), "requeue")
  BY <1>1, <1>3 DEF NotStored
<1> QED
  BY <1>5, <1>6, <1>7, <1>8, <1>9, <1>10 DEF AfterStore

\* Storing the credentials keeps the invariant.
LEMMA storeBindingSecretStep == IInv /\ storeBindingSecret => IInv' /\ Moves
<1> SUFFICES ASSUME IInv, storeBindingSecret PROVE IInv' /\ Moves
  OBVIOUS
<1>1. /\ w.pc # "idle" /\ UNCHANGED <<apiObj, cache, watch, lives, sm, inst, secretCache>>
      /\ found' = Nothing /\ (AfterStore \/ NotStored)
      /\ \/ secrets' = [secrets EXCEPT ![w.obj.secretName] = BindingSecret(w.obj, found.id)]
         \/ UNCHANGED secrets
  BY DEF storeBindingSecret, Return
<1>2. SMGoes /\ Remembers
  BY <1>1, SMStays DEF SMGoes
<1>3. Moves
  BY <1>1, <1>2, AfterStoreMoves
<1>4. Own /\ w.obj \in Objects /\ found \in FoundTypes
  BY Parts, Holding
<1>5. BindingSecret(w.obj, found.id) \in SecretTypes
  BY <1>4 DEF BindingSecret, SecretTypes, Objects, FoundTypes
<1>6. secrets' \in [SecretNames -> SecretTypes]
  BY <1>1, <1>4, <1>5 DEF Own
<1>7. Own'
  BY <1>1, <1>4, <1>6, NothingType DEF Own
<1> QED
  BY <1>1, <1>2, <1>3, <1>7, MoveStep

------------------------------------------------------------------------------
(* The actions of the worker: polling, deleting *)

\* The binding is gone: the id goes from the status.
LEMMA RemovedMoves ==
  ASSUME IInv, w.pc # "idle", Remembers, removeBindingFromKubernetes(w.obj)
  PROVE  Moves
<1>1. NoId \in IDs \cup {NoId} /\ 0 \in Nat /\ "DELETE" \in OperationCategories /\ "finalize" \in Nexts
  BY DEF OperationCategories, Nexts
<1> QED
  BY <1>1, AcceptedMoves DEF removeBindingFromKubernetes

\* Polling keeps the invariant.
LEMMA PollStep == IInv /\ Poll => IInv' /\ Moves
<1> SUFFICES ASSUME IInv, Poll PROVE IInv' /\ Moves
  OBVIOUS
<1> DEFINE op == w.obj.status.op
           failed == setFailureConditions(op.type, w.obj)
           succeeded == setSuccessConditions(op.type, w.obj)
           unread == [w.obj EXCEPT !.status = freshStatus(w.obj, failed.status.cond)]
<1>1. /\ w.pc = "poll" /\ w.pc # "idle" /\ UNCHANGED <<apiObj, cache, watch, lives, sm, ownVars>>
      /\ {"done", "requeue"} \subseteq Nexts /\ "fetch" \in PCs
  BY DEF Poll, Nexts, PCs
<1>2. SMGoes /\ Remembers /\ Own'
  BY <1>1, SharedStep
<1>3. /\ w.obj \in Objects /\ w.obj.status \in Statuses /\ Recorded(sm', w.obj.status)
      /\ Polling(w.obj)
  BY <1>1, <1>2, Holding DEF Remembers, IInv, CallsAreMeant
<1>4. op.type \in OperationCategories
  BY <1>3 DEF Polling, Statuses, OpRefs
<1>5. Restates(failed, w.obj) /\ Restates(succeeded, w.obj)
  BY <1>4, Settings
<1>6. ASSUME NEW next \in Nexts, Save(ClearOp(failed), next) PROVE Moves
  <2>1. ClearOp(failed) \in Objects /\ ClearOp(failed) = [failed EXCEPT !.status = ClearOp(failed).status]
        /\ ClearOp(failed).status.id = failed.status.id /\ ClearOp(failed).status.op = NoOp
    BY <1>5 DEF ClearOp, Restates, Objects, Statuses, OpRefs
  <2>2. ClearOp(failed) = [w.obj EXCEPT !.status = ClearOp(failed).status]
    BY <1>3, <1>5, <2>1 DEF Restates, Objects
  <2>3. Recorded(sm', ClearOp(failed).status)
    BY <1>3, <1>5, <2>1 DEF Recorded, Restates
  <2>4. Computed
    BY <1>6, <2>1, <2>2, <2>3, SaveComputes
  <2> QED
    BY <1>6, <2>4, SavedMoves
<1>7. ASSUME Save(unread, "requeue") PROVE Moves
  <2> DEFINE st == freshStatus(w.obj, failed.status.cond)
  <2>1. failed.status.cond \in Conditions
    BY <1>3, <1>5 DEF Restates, Objects, Statuses
  <2>2. st \in Statuses /\ st.id \in {w.obj.status.id, NoId} /\ st.op = NoOp
    BY <1>3, <2>1 DEF freshStatus, EmptyStatus, Statuses, OpRefs
  <2>3. Recorded(sm', st)
    BY <1>3, <2>2 DEF Recorded
  <2> HIDE DEF st
  <2>4. unread \in Objects /\ unread = [w.obj EXCEPT !.status = unread.status]
        /\ unread.status = st
    BY <1>3, <2>2 DEF Objects, st
  <2> HIDE DEF unread
  <2>5. Computed
    BY <1>7, <2>3, <2>4, SaveComputes
  <2> QED
    BY <1>1, <1>7, <2>5, SavedMoves
<1>8. Goto("fetch", succeeded) => Moves
  BY <1>1, <1>2, <1>5, GotoMoves
<1> HIDE DEF failed, succeeded, unread
<1>9. \/ Save(unread, "requeue")
      \/ Requeue
      \/ Save(ClearOp(failed), "requeue") \/ Save(ClearOp(failed), "done")
      \/ Goto("fetch", succeeded)
      \/ removeBindingFromKubernetes(w.obj)
  BY DEF Poll, failed, succeeded, unread
<1>10. Moves
  BY <1>1, <1>2, <1>6, <1>7, <1>8, <1>9, EndingsMove, RemovedMoves
<1> QED
  BY <1>1, <1>2, <1>10, MoveStep

\* Fetching a binding keeps the invariant.
LEMMA GetBindingByIDStep == IInv /\ GetBindingByID => IInv' /\ Moves
<1> SUFFICES ASSUME IInv, GetBindingByID PROVE IInv' /\ Moves
  OBVIOUS
<1>1. /\ w.pc # "idle" /\ UNCHANGED <<apiObj, cache, watch, lives, sm, inst, secrets, secretCache>>
      /\ "store" \in PCs
  BY DEF GetBindingByID, PCs
<1>2. SMGoes /\ Remembers
  BY <1>1, SMStays DEF SMGoes
<1>3. CASE Requeue /\ UNCHANGED found
  <2>1. Own'
    BY <1>1, <1>2, <1>3, OwnStays
  <2>2. Moves
    BY <1>1, <1>2, <1>3, EndingsMove
  <2> QED
    BY <1>1, <1>2, <2>1, <2>2, MoveStep
<1>4. ASSUME NEW i \in Live, Goto("store", w.obj), found' = [Nothing EXCEPT !.id = i] PROVE IInv' /\ Moves
  <2>1. i \in IDs /\ sm'[i].ops # <<>>
    BY <1>1, <1>4 DEF Live, IInv, LiveIsRecorded
  <2>2. found' \in FoundTypes /\ found'.id = i /\ found'.op = NoOp
    BY <1>4, <2>1 DEF Nothing, FoundTypes, OpRefs
  <2>3. Own'
    BY <1>1, <2>1, <2>2, Parts DEF Own, FoundIsTrue, Recorded
  <2>4. Moves
    BY <1>1, <1>2, <1>4, Settings, GotoMoves DEF OperationCategories
  <2> QED
    BY <1>1, <1>2, <2>3, <2>4, MoveStep
<1> QED
  BY <1>3, <1>4 DEF GetBindingByID

\* Recovery before a deletion keeps the invariant.
LEMMA RecoverForDeleteStep == IInv /\ RecoverForDelete => IInv' /\ Moves
<1> SUFFICES ASSUME IInv, RecoverForDelete PROVE IInv' /\ Moves
  OBVIOUS
<1>1. /\ w.pc # "idle" /\ UNCHANGED <<apiObj, cache, watch, lives, sm, ownVars>>
      /\ "DELETE" \in OperationCategories /\ "done" \in Nexts /\ "deleteSecret" \in PCs
  BY DEF RecoverForDelete, OperationCategories, Nexts, PCs
<1>2. SMGoes /\ Remembers /\ Own'
  BY <1>1, SharedStep
<1>3. ASSUME NEW i \in IDs, Matches(w.obj.name) = {i},
             Save(setInProgressCondition("DELETE", [w.obj EXCEPT !.status.id = i]), "done")
      PROVE  Moves
  <2>1. sm'[i].ops # <<>> /\ i \in IDs \cup {NoId} /\ 0 \in Nat
    BY <1>1, <1>3 DEF Matches, IInv, LiveIsRecorded
  <2> QED
    BY <1>1, <1>2, <1>3, <2>1, AcceptedMoves
<1>4. Goto("deleteSecret", w.obj) => Moves
  BY <1>1, <1>2, Settings, GotoMoves
<1>5. Moves
  BY <1>1, <1>2, <1>3, <1>4, EndingsMove DEF RecoverForDelete
<1> QED
  BY <1>1, <1>2, <1>5, MoveStep

\* Asking SM to delete the binding keeps the invariant.
LEMMA UnbindStep == IInv /\ Unbind => IInv' /\ Moves
<1> SUFFICES ASSUME IInv, Unbind PROVE IInv' /\ Moves
  OBVIOUS
<1> DEFINE i == w.obj.status.id
<1>1. /\ w.pc = "unbind" /\ w.pc # "idle" /\ UNCHANGED <<apiObj, cache, watch, lives, ownVars>>
      /\ "DELETE" \in OperationCategories /\ "requeue" \in Nexts
  BY DEF Unbind, OperationCategories, Nexts
<1>2. i \in Used
  BY <1>1, Holding DEF IInv, CallsAreMeant
<1>3. UNCHANGED sm \/ SMDeleteNow(i) \/ SMDeleteAsync(i)
  BY DEF Unbind
<1>4. SMGoes /\ Remembers
  BY <1>2, <1>3, SMStays, DeleteGoes DEF SMGoes
<1>5. SMDeleteAsync(i) /\ Save(InOperation("DELETE", i, Len(sm[i].ops) + 1, w.obj), "requeue") => Moves
  <2> HIDE DEF i
  <2>1. ASSUME SMDeleteAsync(i)
        PROVE  /\ i \in IDs /\ i \in IDs \cup {NoId} /\ sm'[i].ops # <<>> /\ Len(sm[i].ops) + 1 \in Nat
               /\ Len(sm[i].ops) + 1 \in DOMAIN sm'[i].ops
               /\ sm'[i].ops[Len(sm[i].ops) + 1].type = "DELETE"
    BY <1>2, <2>1, DeleteGoes
  <2> QED
    BY <1>1, <1>4, <2>1, AcceptedMoves
<1>6. Save(setFailureConditions("DELETE", w.obj), "requeue") => Moves
  BY <1>1, <1>4, Settings, EndingsMove
<1>7. Moves
  BY <1>1, <1>4, <1>5, <1>6, EndingsMove, RemovedMoves DEF Unbind, UnansweredDelete
<1>8. Own'
  BY <1>1, <1>4, OwnStays DEF ownVars
<1> QED
  BY <1>1, <1>4, <1>7, <1>8, MoveStep

\* Deleting the secret keeps the invariant.
LEMMA deleteBindingSecretStep == IInv /\ deleteBindingSecret => IInv' /\ Moves
<1> SUFFICES ASSUME IInv, deleteBindingSecret PROVE IInv' /\ Moves
  OBVIOUS
<1>1. /\ w.pc # "idle" /\ UNCHANGED <<apiObj, cache, watch, lives, sm, inst, secretCache, found>>
      /\ Goto("removeFinalizer", w.obj) \/ Requeue
      /\ secrets' = [secrets EXCEPT ![w.obj.secretName] = NoSecret] \/ UNCHANGED secrets
      /\ "removeFinalizer" \in PCs
  BY DEF deleteBindingSecret, PCs
<1>2. SMGoes /\ Remembers
  BY <1>1, SMStays DEF SMGoes
<1>3. Moves
  BY <1>1, <1>2, Settings, GotoMoves, EndingsMove DEF OperationCategories
<1>4. Own'
  <2>1. NoSecret \in SecretTypes
    BY DEF NoSecret, SecretTypes
  <2>2. secrets' \in [SecretNames -> SecretTypes]
    BY <1>1, <2>1, Parts DEF Own
  <2>3. found' \in FoundTypes /\ FoundIsTrue'
    BY <1>1, <1>2, Parts, FoundStays DEF Own
  <2> QED
    BY <1>1, <2>2, <2>3, Parts DEF Own
<1> QED
  BY <1>1, <1>2, <1>3, <1>4, MoveStep

------------------------------------------------------------------------------
(* The actions of the others *)

\* What happens to the instance and to the secrets does not touch the resource.
LEMMA AroundStep ==
  ASSUME IInv, UNCHANGED <<baseVars, found>>, inst' \in Life!Instances,
         secrets' \in [SecretNames -> SecretTypes], secretCache' \in [SecretNames -> SecretTypes]
  PROVE  IInv'
<1>1. UNCHANGED <<apiObj, cache, watch, queued, w, lives, sm, found>>
  BY DEF baseVars
<1>2. TypeOK'
  BY DEF IInv, TypeOK, baseVars
<1>3. Copies' = Copies /\ Used' = Used
  BY <1>1 DEF Copies, Used, FreeIDs
<1>4. CacheFollows' /\ DeletionIsFinal'
  BY <1>1, <1>3 DEF IInv, CacheFollows, DeletionIsFinal
<1>5. LiveIsRecorded' /\ RequestsNamed' /\ RemovedIsGone'
  BY <1>1, <1>3 DEF IInv, LiveIsRecorded, Truthful, RequestsNamed, RemovedIsGone, Ops
<1>6. Truthful'
  BY <1>1, <1>3, <1>5 DEF IInv, Truthful, Recorded
<1>7. Held' /\ CallsAreMeant' /\ FoundIsTrue'
  BY <1>1 DEF IInv, Held, CallsAreMeant, FoundIsTrue, Recorded, Polling
<1> QED
  BY <1>2, <1>4, <1>5, <1>6, <1>7 DEF IInv

\* A step of BaseReconciler by somebody else keeps the invariant if it writes nothing false.
LEMMA OthersStep ==
  ASSUME IInv, BaseInv', UNCHANGED ownVars, SMGoes, KeepsTruth,
         w' \in Workers, w'.pc = w.pc, w'.obj = w.obj,
         Copies' \subseteq Copies \cup {apiObj'}
  PROVE  IInv'
<1>1. Own' /\ UNCHANGED found
  BY OwnStays DEF SMGoes, ownVars
<1>2. CallsAreMeant'
  BY <1>1 DEF IInv, CallsAreMeant, Polling
<1> QED
  BY <1>1, <1>2, OtherStep

\* What a user's request writes is one copy more.
LEMMA UserCopies ==
  ASSUME IInv, UNCHANGED cache, w'.obj = w.obj, NEW p \in Objects, Write(p)
  PROVE  Copies' \subseteq Copies \cup {apiObj'}
<1>1. Copies' \subseteq Copies \cup {apiObj', w'.obj}
  BY WrittenCopies
<1> QED
  BY <1>1 DEF Copies

\* The user's deletion, the garbage collector's too, keeps the invariant.
LEMMA DeletionStep == IInv /\ UserDelete /\ UNCHANGED ownVars => IInv'
<1> SUFFICES ASSUME IInv, UserDelete, UNCHANGED ownVars PROVE IInv'
  OBVIOUS
<1>1. /\ UNCHANGED <<cache, sm>> /\ w' \in Workers /\ w'.pc = w.pc /\ w'.obj = w.obj
      /\ w'.fresh = FALSE
  BY Holding DEF UserDelete, Outdated, Workers
<1>2. BaseInv /\ Truthful /\ Held /\ SMGoes /\ Remembers /\ apiObj \in Objects
  BY <1>1, Parts, SMStays DEF SMGoes, BaseInv, BaseTypes
<1>3. BaseInv'
  BY <1>1, <1>2, UserDeleteKeeps
<1>4. K8sName \in Names /\ NoName \in SecretNames \cup {NoName}
  BY ConstantsAssumption
<1>5. KeepsTruth
  BY <1>1, <1>2, <1>4, UserIsTrue
<1>6. (IF apiObj.finalizer THEN [apiObj EXCEPT !.deleting = TRUE] ELSE NoObject) \in Objects
  BY <1>2, NoObjectType DEF Objects
<1>7. Copies' \subseteq Copies \cup {apiObj'}
  BY <1>1, <1>6, UserCopies DEF UserDelete
<1> QED
  BY <1>1, <1>2, <1>3, <1>5, <1>7, OthersStep

\* What the user asks for has names.
LEMMA EditStep ==
  ASSUME IInv, NEW name \in Names, NEW secretName \in SecretNames, UNCHANGED ownVars,
         UserCreate(name, secretName) \/ UserEdit(name, secretName)
  PROVE  IInv'
<1>1. /\ UNCHANGED <<cache, sm>> /\ w' \in Workers /\ w'.pc = w.pc /\ w'.obj = w.obj
      /\ w'.fresh = FALSE
  BY Holding DEF UserCreate, UserEdit, Outdated, Workers
<1>2. BaseInv /\ Truthful /\ Held /\ SMGoes /\ Remembers /\ apiObj \in Objects /\ lives \in Nat
  BY <1>1, Parts, SMStays DEF SMGoes, BaseInv, BaseTypes
<1>3. BaseInv'
  BY <1>1, <1>2, UserCreateKeeps, UserEditKeeps
<1>4. KeepsTruth
  BY <1>1, <1>2, UserIsTrue
<1>5. Copies' \subseteq Copies \cup {apiObj'}
  <2>1. CASE UserCreate(name, secretName)
    <3>1. [NoObject EXCEPT !.uid = lives + 1, !.gen = 1, !.name = name, !.secretName = secretName]
            \in Objects
      <4>1. lives + 1 \in Nat /\ 1 \in Nat /\ name \in Names \cup {NoName}
        BY <1>2
      <4> QED
        BY <4>1, NoObjectType DEF Objects
    <3> QED
      BY <1>1, <2>1, <3>1, UserCopies DEF UserCreate
  <2>2. CASE UserEdit(name, secretName)
    <3>1. [apiObj EXCEPT !.gen = @ + 1, !.name = name, !.secretName = secretName] \in Objects
      <4>1. apiObj.gen + 1 \in Nat /\ name \in Names \cup {NoName}
        BY <1>2 DEF Objects
      <4> QED
        BY <1>2, <4>1 DEF Objects
    <3> QED
      BY <1>1, <2>2, <3>1, UserCopies DEF UserEdit
  <2> QED
    BY <2>1, <2>2
<1> QED
  BY <1>1, <1>2, <1>3, <1>4, <1>5, OthersStep

\* What the user does keeps the invariant.
LEMMA UserKeeps == IInv /\ User => IInv'
<1>1. \A s \in SecretNames \cup {NoName} : Default(s) \in SecretNames
  BY BindingAssumption, ConstantsAssumption DEF Default
<1> QED
  BY <1>1, DefaultType, DeletionStep, EditStep DEF User

\* Secrets that come and go, and an informer that learns of it, keep the invariant.
LEMMA SecretsStep == IInv /\ Secrets => IInv'
<1> SUFFICES ASSUME IInv, Secrets PROVE IInv'
  OBVIOUS
<1>1. UNCHANGED <<baseVars, found, inst>> /\ Own
  BY Parts DEF Secrets, SyncSecrets, CollectSecret, Intrude
<1>2. NoSecret \in SecretTypes /\ ForeignSecret \in SecretTypes
  BY DEF NoSecret, ForeignSecret, SecretTypes
<1>3. /\ secrets' \in [SecretNames -> SecretTypes]
      /\ secretCache' \in [SecretNames -> SecretTypes]
  BY <1>1, <1>2 DEF Own, Secrets, SyncSecrets, CollectSecret, Intrude
<1> QED
  BY <1>1, <1>3, AroundStep DEF Own

\* So does whatever becomes of the instance.
LEMMA InstanceKeeps == IInv /\ Instance => IInv'
<1> SUFFICES ASSUME IInv, Instance PROVE IInv'
  OBVIOUS
<1>1. UNCHANGED <<baseVars, secrets, secretCache, found>> /\ Own
  BY Parts DEF Instance, InstanceStep
<1>2. inst' \in Life!Instances
  <2>1. inst \in Life!Instances /\ MaxInstances \in Nat
    BY <1>1, BindingAssumption DEF Own
  <2>2. CASE Life!Created
    BY <2>1, <2>2 DEF Life!Created, Life!Instances
  <2>3. CASE Life!Changed
    BY <2>1, <2>3 DEF Life!Changed, Life!Instances
  <2>4. CASE Life!Gone
    BY <2>1, <2>4 DEF Life!Gone, Life!Instances, Life!States
  <2> QED
    BY <2>2, <2>3, <2>4 DEF Instance, InstanceStep
<1> QED
  BY <1>1, <1>2, AroundStep DEF Own

\* The informer, of the resource or by a resync, keeps the invariant.
LEMMA InformerStep == IInv /\ Informer => IInv'
<1> SUFFICES ASSUME IInv, Informer PROVE IInv'
  OBVIOUS
<1>1. UNCHANGED <<apiObj, w, sm, lives, ownVars>> /\ (Deliver \/ Resync)
  BY DEF Informer, Deliver, Resync
<1>2. BaseInv /\ Truthful /\ Held /\ SMGoes /\ Remembers /\ w \in Workers
  BY <1>1, Parts, SMStays DEF SMGoes
<1>3. BaseInv'
  BY <1>1, <1>2, DeliverKeeps, ResyncKeeps
<1>4. KeepsTruth
  <2>1. Sound(sm', apiObj')
    BY <1>1, <1>2, CopiesStayTrue
  <2> QED
    BY <1>1, <1>2, <2>1, OthersAreTrue
<1>5. Copies' \subseteq Copies \cup {apiObj'}
  <2>1. CASE Deliver
    <3>1. watch \in Seq(Objects) /\ watch # <<>> /\ cache' = Head(watch) /\ watch' = Tail(watch)
      BY <1>2, <2>1 DEF Deliver, BaseInv, BaseTypes
    <3>2. cache' = watch[1] /\ 1 \in DOMAIN watch
      BY <3>1
    <3>3. \A k \in DOMAIN watch' : k + 1 \in DOMAIN watch /\ watch'[k] = watch[k + 1]
      BY <3>1
    <3> QED
      BY <1>1, <3>2, <3>3 DEF Copies
  <2>2. CASE Resync
    BY <1>1, <2>2 DEF Resync, Copies
  <2> QED
    BY <1>1, <2>1, <2>2
<1> QED
  BY <1>1, <1>2, <1>3, <1>4, <1>5, OthersStep

\* SM finishing an operation keeps the invariant.
LEMMA FinishStep == ASSUME IInv, NEW i \in IDs, Finish(i) PROVE IInv'
<1>1. UNCHANGED <<apiObj, cache, watch, queued, w, lives, ownVars>> /\ SMFinish(i) /\ SMComplete(i)
  BY DEF Finish, SMComplete
<1>2. BaseInv /\ Truthful /\ Held /\ SMGoes /\ Remembers /\ w \in Workers
  BY <1>1, Parts, FinishGoes DEF SMGoes
<1>3. BaseInv'
  BY <1>1, <1>2, SMCompleteKeeps
<1>4. KeepsTruth
  <2>1. Sound(sm', apiObj')
    BY <1>1, <1>2, CopiesStayTrue
  <2> QED
    BY <1>1, <1>2, <2>1, OthersAreTrue
<1>5. Copies' \subseteq Copies \cup {apiObj'}
  BY <1>1 DEF Copies
<1> QED
  BY <1>1, <1>2, <1>3, <1>4, <1>5, OthersStep

------------------------------------------------------------------------------
(* The invariant *)

\* It holds to begin with.
LEMMA InitIInv == Init => IInv
<1> SUFFICES ASSUME Init PROVE IInv
  OBVIOUS
<1>1. BaseInv
  BY InitBase DEF Init
<1>2. Truthful /\ Held
  <2>1. /\ \A o \in Copies : o = NoObject
        /\ Used = {} /\ \A i \in IDs : sm[i].alive = FALSE
    BY DEF Init, Copies, Idle, Used, FreeIDs, Unused
  <2>2. \A o \in Copies : (Exists(o) => o.name \in Names) /\ Recorded(sm, o.status)
    BY <2>1 DEF NoObject, EmptyStatus, Exists, Recorded
  <2> QED
    BY <2>1, <2>2 DEF Truthful, RequestsNamed, RemovedIsGone, Held, Init, Idle
<1>3. w \in Workers /\ CallsAreMeant
  BY NoObjectType DEF Init, Idle, Workers, PCs, Nexts, CallsAreMeant
<1>4. Own
  <2>1. inst \in Life!Instances
    BY BindingAssumption DEF Init, Life!Init, Life!Instances, Life!States
  <2>2. secrets \in [SecretNames -> SecretTypes] /\ secretCache \in [SecretNames -> SecretTypes]
    BY DEF Init, NoSecret, SecretTypes
  <2>3. found \in FoundTypes /\ FoundIsTrue
    BY DEF Init, Nothing, FoundTypes, FoundIsTrue, Recorded, OpRefs
  <2> QED
    BY <2>1, <2>2, <2>3 DEF Own
<1> QED
  BY <1>1, <1>2, <1>3, <1>4, Parts

\* Every step keeps it.
LEMMA NextIInv == IInv /\ [Next]_vars => IInv'
<1>1. IInv /\ Worker => IInv'
  BY ReconcileStep, StatusUpdateStep, StatusRetryStep, InitFinalizerStep, DropFinalizerStep,
     ReadInstanceStep, RecoverStep, SetOwnerStep, BindStep, storeBindingSecretStep, PollStep,
     GetBindingByIDStep, RecoverForDeleteStep, UnbindStep, deleteBindingSecretStep DEF Worker
<1>2. IInv /\ ServiceManagerStep => IInv'
  BY FinishStep DEF ServiceManagerStep
<1>3. IInv /\ Stop => IInv'
  BY RestartStep DEF Stop
<1>4. IInv /\ CollectBinding => IInv'
  BY DeletionStep DEF CollectBinding
<1>5. IInv /\ UNCHANGED vars => IInv'
  BY Parts, AroundStep DEF vars, ownVars, Own
<1> QED
  BY <1>1, <1>2, <1>3, <1>4, <1>5, UserKeeps, SecretsStep, InstanceKeeps, InformerStep DEF Next

\* The inductive invariant of the binding's controller, whatever SM, the informers,
\* the user and the owner of the instance do: types; what any copy of the resource
\* says is true of SM; recovery, once done, is what the calls that follow go by.
THEOREM BindingInvariant == Spec => []IInv
  BY InitIInv, NextIInv, PTL DEF Spec

\* Every variable of the controller keeps its type.
THEOREM BindingTyped == Spec => []TypeOK
<1>1. IInv => TypeOK
  BY DEF IInv
<1> QED
  BY <1>1, BindingInvariant, PTL

\* deleteBinding asks SM to delete a binding only for an incarnation of the resource
\* that was deleted, however old the copy Reconcile works on.
THEOREM UnbindingAsked == Spec => UnbindOnlyWhenAsked
<1>1. IInv => (w.pc = "unbind" /\ sm' # sm
                 => ~Exists(apiObj) \/ apiObj.uid # w.obj.uid \/ apiObj.deleting)
  <2> SUFFICES ASSUME IInv, w.pc = "unbind", apiObj.uid = w.obj.uid PROVE apiObj.deleting
    OBVIOUS
  <2>1. w.obj.deleting /\ w.obj \in Copies
    BY DEF IInv, CallsAreMeant, Copies
  <2> QED
    BY <2>1 DEF IInv, DeletionIsFinal
<1> QED
  BY <1>1, BindingInvariant, PTL DEF UnbindOnlyWhenAsked

------------------------------------------------------------------------------
(* One name *)

\* The calls of this controller.
Calls == [create |-> "bind", changes |-> {}, remove |-> "unbind",
          creates |-> Creates, removes |-> Removes]

\* They are told from each other, and from all that is no call.
LEMMA CallsWellFormed == WellFormed(Calls)
  BY DEF WellFormed, Calls, Creates, Removes

\* The worker x is about to ask for a binding, or will when the owner is set.
Asking(x, found1) == x.pc = "bind" \/ (x.pc = "own" /\ found1.id = NoId)

\* Every step of the system is one of these for SM.
LEMMA EverythingRequested == [Next]_vars => RequestedBy(Calls)
<1> SUFFICES ASSUME [Next]_vars PROVE RequestedBy(Calls)
  OBVIOUS
<1>1. CASE Bind
  BY <1>1, Zenon DEF Bind, RequestedBy, Calls
<1>2. CASE Unbind
  BY <1>2, Zenon DEF Unbind, RequestedBy, Calls
<1>3. CASE ServiceManagerStep
  BY <1>3 DEF ServiceManagerStep, Finish, SMComplete, RequestedBy
<1>4. CASE Reconcile \/ StatusUpdate \/ StatusRetry \/ InitFinalizer \/ DropFinalizer
           \/ Recover \/ SetOwner \/ storeBindingSecret \/ Poll \/ GetBindingByID
           \/ RecoverForDelete \/ deleteBindingSecret
  BY <1>4 DEF RequestedBy, Reconcile, ReconcileWith, StatusUpdate, StatusUpdateThen, StatusRetry,
     StatusRetryThen, InitFinalizer, AddFinalizer, DropFinalizer, RemoveFinalizer, Recover,
     SetOwner, storeBindingSecret, Poll, GetBindingByID, RecoverForDelete, deleteBindingSecret
<1>5. CASE ReadInstance
  BY <1>5 DEF RequestedBy, ReadInstance, Restart
<1>6. CASE User \/ CollectBinding \/ Secrets \/ Instance \/ Informer \/ Stop \/ UNCHANGED vars
  BY <1>6 DEF RequestedBy, User, CollectBinding, UserDelete, UserCreate, UserEdit, Secrets,
     SyncSecrets, CollectSecret, Intrude, Instance, InstanceStep, Informer, Deliver, Resync, Stop,
     Restart, vars, baseVars
<1> QED
  BY <1>1, <1>2, <1>3, <1>4, <1>5, <1>6 DEF Next, Worker

\* Every step is one ManagedResource_proofs knows the requests of.
LEMMA StepIsAsked ==
  ASSUME IInv, [Next]_vars
  PROVE  Asked(Calls) /\ SMInv' /\ RequestsNamed' /\ Remembers
<1>1. MeansIt(Calls)
  BY DEF MeansIt, Calls, IInv, CallsAreMeant
<1>2. Asked(Calls)
  BY <1>1, Parts, CallsWellFormed, EverythingRequested DEF Asked
<1> QED
  BY <1>2, RecordsGrow

\* The places that a Reconcile comes to only in the course of what they are about.
Within == {"recover", "own", "bind", "recoverForDelete"}

\* Where a Reconcile can go on that starts, or that wrote a status.
LEMMA Places ==
  /\ \A o, f : Dispatch(o, f).pc \notin Within \ {"recoverForDelete"}
  /\ \A o, f, next : Continue(o, f, next).pc \notin Within
  /\ \A o, f, next : GiveUp(o, f, next).pc \notin Within
  /\ \A o, f, next : Saving(o, f, next).pc \notin Within
  /\ Idle.pc \notin Within
BY DEF Dispatch, DeleteCall, Proceed, Continue, GiveUp, NoClient, At, Saving, Idle, Within

\* Where it can go on from another call.
LEMMA Turns ==
  /\ \A p, next : Save(p, next) => w'.pc = "status"
  /\ \A type : Transient(type) \/ NonTransient(type) => w'.pc = "status"
  /\ \A pc, p : Goto(pc, p) => w'.pc = pc
  /\ Requeue => w'.pc = "idle"
BY DEF Save, Saving, Transient, NonTransient, Goto, At, Requeue, Idle

\* What the worker and what it found do not take part in.
Bystands ==
  /\ w'.pc = w.pc /\ w'.obj = w.obj /\ UNCHANGED found
  /\ UNCHANGED sm \/ \E i \in IDs : SMFinish(i)

\* The steps that lead to a request for a binding, to recovery or to a listing.
LEMMA ComesFrom ==
  ASSUME IInv, [Next]_vars, w'.pc \in Within
  PROVE  \/ Bystands
         \/ Reconcile /\ w'.pc = "recoverForDelete"
         \/ ReadInstance /\ w'.pc = "recover"
         \/ Recover
         \/ SetOwner /\ w'.pc = "bind"
<1>1. w'.pc \in {"recover", "own", "bind", "recoverForDelete"} /\ w \in Workers
  BY Holding DEF Within
<1>2. CASE SetOwner
  <2>1. CASE w' = AfterOwner(Returned(apiObj'), TRUE, found)
    BY <1>1, <1>2, <2>1 DEF AfterOwner, At, Saving
  <2>2. w'.pc \in {"idle", "status"} \/ w' = AfterOwner(Returned(apiObj'), TRUE, found)
    BY <1>2, Turns, Zenon DEF SetOwner, Return
  <2> QED
    BY <1>1, <2>1, <2>2
<1>3. CASE Bind \/ storeBindingSecret
  <2>1. w'.pc \in {"idle", "status", "store"}
    BY <1>3, Turns DEF Bind, storeBindingSecret, AfterStore, NotStored, Return, Unanswered
  <2> QED
    BY <1>1, <2>1
<1>4. CASE Poll \/ GetBindingByID \/ RecoverForDelete \/ Unbind \/ deleteBindingSecret
  <2>1. w'.pc \in {"idle", "status", "fetch", "store", "deleteSecret", "removeFinalizer"}
    BY <1>4, Turns DEF Poll, GetBindingByID, RecoverForDelete, Unbind, deleteBindingSecret,
       UnansweredDelete, removeBindingFromKubernetes
  <2> QED
    BY <1>1, <2>1
<1>5. CASE ReadInstance \/ Stop
  <2>1. w' = Idle \/ (ReadInstance /\ Goto("recover", w.obj)) \/ \E p, next : Save(p, next)
    BY <1>5, Zenon DEF ReadInstance, Stop, Restart
  <2>2. w'.pc \in {"idle", "status"} \/ (ReadInstance /\ w'.pc = "recover")
    BY <2>1, Turns DEF Idle
  <2> QED
    BY <1>1, <2>2
<1>6. CASE Reconcile
  <2>1. w.pc = "idle" /\ w.pc \notin Within
    BY <1>6 DEF Reconcile, ReconcileWith, Within
  <2> QED
    BY <1>1, <1>6, <2>1, Places DEF Reconcile, ReconcileWith, Within
<1>7. CASE StatusUpdate
  <2>1. w.pc = "status" /\ (w' = Continue(apiObj', TRUE, w.next) \/ w' = [w EXCEPT !.try = 2])
    BY <1>7 DEF StatusUpdate, StatusUpdateThen
  <2> QED
    BY <1>1, <2>1, Places DEF Workers
<1>8. CASE StatusRetry
  <2>1. /\ w.pc = "status"
        /\ \/ \E o, f : w' = Continue(o, f, w.next) \/ w' = GiveUp(o, f, w.next)
           \/ \E o, f : w' = [w EXCEPT !.obj = o, !.fresh = f, !.try = @ + 1]
    BY <1>8, Zenon DEF StatusRetry, StatusRetryThen
  <2> QED
    BY <1>1, <2>1, Places DEF Workers
<1>9. CASE InitFinalizer \/ DropFinalizer
  <2>1. BaseInv /\ w.fresh \in BOOLEAN
    BY Parts, Holding
  <2>2. Paused("init") \/ Paused("done")
    BY <1>9, <2>1, AddFinalizerKeeps, RemoveFinalizerKeeps DEF InitFinalizer, DropFinalizer
  <2> QED
    BY <1>1, <2>2, Places DEF Paused
<1>10. CASE User \/ CollectBinding
  BY <1>1, <1>10 DEF User, CollectBinding, UserDelete, UserCreate, UserEdit, Outdated, Workers,
     ownVars, Bystands
<1>11. CASE Secrets \/ Instance \/ Informer \/ ServiceManagerStep \/ UNCHANGED vars
  BY <1>11 DEF Bystands, Secrets, SyncSecrets, CollectSecret, Intrude, Instance, InstanceStep,
     Informer, Deliver, Resync, ServiceManagerStep, Finish, SMComplete, vars, baseVars, ownVars
<1> QED
  BY <1>2, <1>3, <1>4, <1>5, <1>6, <1>7, <1>8, <1>9, <1>10, <1>11 DEF Next, Worker

\* The worker is about to ask for a binding only after recovery found none.
LEMMA AskingSteps ==
  ASSUME IInv, "list" \notin SMFaults, [Next]_vars, Asking(w', found')
  PROVE  \/ Asking(w, found) /\ (UNCHANGED sm \/ \E i \in IDs : SMFinish(i))
         \/ w.pc = "recover" /\ UNCHANGED sm /\ Cardinality(Matches(w.obj.name)) # 1
<1>1. w'.pc \in {"own", "bind"} /\ w'.pc \in Within
  BY DEF Asking, Within
<1>2. CASE Recover
  <2>1. ASSUME NEW i \in IDs, found' = Recovered(i) PROVE FALSE
    <3>1. found'.id = i /\ i # NoId
      BY <2>1, Holding, ServiceManagerAssumption DEF Recovered, FoundTypes
    <3>2. w'.pc # "bind"
      BY <1>2, <3>1 DEF Recover, AfterOwner, At, Saving
    <3> QED
      BY <3>1, <3>2 DEF Asking
  <2> QED
    BY <1>2, <2>1 DEF Recover
<1>3. CASE SetOwner /\ w'.pc = "bind"
  <2>1. w.pc = "own" /\ UNCHANGED sm
    BY <1>3 DEF SetOwner
  <2>2. CASE w' = AfterOwner(Returned(apiObj'), TRUE, found)
    BY <1>3, <2>1, <2>2 DEF Asking, AfterOwner, At, Saving
  <2>3. w'.pc \in {"idle", "status"} \/ w' = AfterOwner(Returned(apiObj'), TRUE, found)
    BY <1>3, Turns, Zenon DEF SetOwner, Return
  <2> QED
    BY <1>3, <2>2, <2>3
<1>4. CASE Bystands
  BY <1>4 DEF Bystands, Asking
<1> QED
  BY <1>1, <1>2, <1>3, <1>4, ComesFrom

\* When a query does not find one binding, there is none.
LEMMA NothingFound ==
  ASSUME IInv, Single, Names = {K8sName}, NEW name \in Names, Cardinality(Matches(name)) # 1
  PROVE  Live = {}
<1>1. Matches(name) = Live
  BY Parts, OneNameFindsAll
<1>2. ASSUME NEW i \in Live PROVE FALSE
  <2>1. Live = {i}
    BY <1>2 DEF Single
  <2>2. Cardinality(Live) = 1
    BY <2>1, FS_Singleton, Zenon
  <2> QED
    BY <1>1, <2>2
<1> QED
  BY <1>2

\* Recovery finds the binding there is, so there is no second one.
LEMMA NextSingle ==
  ASSUME Names = {K8sName}, "list" \notin SMFaults
  PROVE  IInv /\ Single /\ [Next]_vars => Single'
<1> SUFFICES ASSUME IInv, Single, [Next]_vars PROVE Single'
  OBVIOUS
<1>1. Live' \subseteq Live \/ (w.pc = "bind" /\ \E i \in FreeIDs : Live' = Live \cup {i})
  BY StepIsAsked, LiveChanges DEF Calls
<1>2. \A i, j \in Live' : i = j
  BY <1>1 DEF Single
<1>3. ASSUME Asking(w', found') PROVE Live' = {}
  <2>1. CASE Asking(w, found) /\ (UNCHANGED sm \/ \E i \in IDs : SMFinish(i))
    <3>1. Live = {}
      BY <2>1 DEF Single, Asking
    <3>2. \A i \in IDs : ~SMFinish(i)
      BY <3>1 DEF SMFinish, Busy, Live
    <3> QED
      BY <2>1, <3>1, <3>2 DEF Live
  <2>2. CASE w.pc = "recover" /\ UNCHANGED sm /\ Cardinality(Matches(w.obj.name)) # 1
    BY <2>2, Holding, NothingFound DEF Live
  <2> QED
    BY <1>3, <2>1, <2>2, AskingSteps
<1> QED
  BY <1>2, <1>3 DEF Single, Asking

\* One resource with one name never has two bindings in SM, over all its incarnations
\* and whatever is lost, as long as SM answers every listing: createBinding runs only
\* after recovery found none.  (A listing that fails is taken for one that found none.)
THEOREM NeverTwoBindings ==
  ASSUME Names = {K8sName}, "list" \notin SMFaults
  PROVE  Spec => []AtMostOneBinding
<1>1. Init => IInv /\ Single
  BY InitIInv DEF Init, Single, Live, Unused, Idle
<1>2. IInv /\ Single /\ [Next]_vars => IInv' /\ Single'
  BY NextIInv, NextSingle
<1>3. IInv /\ Single => AtMostOneBinding
  <2> SUFFICES ASSUME Single PROVE Cardinality(Live) <= 1
    BY DEF AtMostOneBinding
  <2>1. CASE Live = {}
    BY <2>1, FS_EmptySet
  <2>2. ASSUME NEW i \in Live PROVE Cardinality(Live) <= 1
    <3>1. Live = {i}
      BY <2>2 DEF Single
    <3>2. Cardinality(Live) = 1
      BY <3>1, FS_Singleton, Zenon
    <3> QED
      BY <3>2
  <2> QED
    BY <2>1, <2>2
<1> QED
  BY <1>1, <1>2, <1>3, PTL DEF Spec
------------------------------------------------------------------------------
(* One incarnation: the steps as ManagedResource_proofs knows them *)

\* The calls of the worker that write nothing to the API server.
Call == \/ Recover \/ Bind \/ storeBindingSecret \/ Poll \/ GetBindingByID
        \/ RecoverForDelete \/ Unbind \/ deleteBindingSecret

\* Steps that have nothing to do with the resource or its copies.
Around == \/ Secrets \/ Instance \/ ServiceManagerStep
          \/ (Resync /\ UNCHANGED ownVars) \/ UNCHANGED vars

\* There are no other steps than these.
LEMMA StepsThereAre ==
  ASSUME [Next]_vars
  PROVE  \/ Call \/ Around \/ Reconcile \/ StatusUpdate \/ StatusRetry
         \/ InitFinalizer \/ DropFinalizer \/ ReadInstance \/ SetOwner
         \/ User \/ CollectBinding \/ (Deliver /\ UNCHANGED ownVars) \/ Stop
BY Zenon DEF Next, Worker, Call, Around, Informer

\* A call to SM or for a secret leaves the resource alone.
LEMMA CallsAreQuiet ==
  IInv /\ Call => Moves /\ w.pc # "idle" /\ UNCHANGED <<apiObj, cache, watch, lives>>
<1> SUFFICES ASSUME IInv, Call
             PROVE  Moves /\ w.pc # "idle" /\ UNCHANGED <<apiObj, cache, watch, lives>>
  OBVIOUS
<1>1. Moves
  BY RecoverStep, BindStep, storeBindingSecretStep, PollStep, GetBindingByIDStep,
     RecoverForDeleteStep, UnbindStep, deleteBindingSecretStep DEF Call
<1>2. w.pc # "idle" /\ UNCHANGED <<apiObj, cache, watch, lives>>
  BY DEF Call, Recover, Bind, storeBindingSecret, Poll, GetBindingByID, RecoverForDelete, Unbind,
     deleteBindingSecret
<1> QED
  BY <1>1, <1>2

\* So does all that happens around it.
LEMMA AroundIsQuiet ==
  Around => UNCHANGED <<apiObj, cache, watch, lives, w>>
  BY DEF Around, Secrets, SyncSecrets, CollectSecret, Intrude, Instance, InstanceStep,
     ServiceManagerStep, Finish, SMComplete, Resync, vars, baseVars

\* A status update writes a status, if anything.
LEMMA StatusIsWritten ==
  ASSUME IInv, StatusUpdate \/ StatusRetry
  PROVE  /\ w.pc = "status" /\ UNCHANGED <<cache, lives, sm, ownVars>>
         /\ \/ UNCHANGED <<apiObj, watch>>
            \/ \E st \in Statuses : Write([apiObj EXCEPT !.status = st])
<1>1. w.pc = "status" /\ UNCHANGED <<cache, lives, sm, ownVars>>
  BY DEF StatusUpdate, StatusUpdateThen, StatusRetry, StatusRetryThen
<1>2. \/ UNCHANGED <<apiObj, watch>>
      \/ Write([apiObj EXCEPT !.status = w.obj.status])
      \/ watch = <<>> /\ Write([cache EXCEPT !.status = w.obj.status])
  BY Zenon DEF StatusUpdate, StatusUpdateThen, StatusRetry, StatusRetryThen
<1>3. watch = <<>> => cache = apiObj
  BY CacheIsCurrent DEF IInv
<1> QED
  BY <1>1, <1>2, <1>3, Holding

\* The user deletes, creates or edits the resource, the garbage collector deletes it.
LEMMA UserActs ==
  ASSUME User \/ CollectBinding
  PROVE  \/ UserDelete
         \/ \E name \in Names, s \in SecretNames :
              UserCreate(name, s) \/ UserEdit(name, s)
<1>1. \A s \in SecretNames \cup {NoName} : Default(s) \in SecretNames
  BY BindingAssumption, ConstantsAssumption DEF Default
<1> QED
  BY <1>1, DefaultType DEF User, CollectBinding

\* The informer, and what it follows, know no other steps.
LEMMA KindsOfSteps == IInv /\ [Next]_vars => Kinds
<1> SUFFICES ASSUME IInv, [Next]_vars PROVE Kinds
  OBVIOUS
<1>1. BaseInv /\ apiObj \in Objects
  BY Parts DEF BaseInv, BaseTypes
<1>2. UNCHANGED <<apiObj, cache, watch, lives>> => Kinds
  BY DEF Kinds, Undisturbed
<1>3. CASE Call \/ Around \/ Reconcile
  BY <1>2, <1>3, CallsAreQuiet, AroundIsQuiet DEF Reconcile, ReconcileWith
<1>4. CASE StatusUpdate \/ StatusRetry
  <2>1. ASSUME NEW st \in Statuses, Write([apiObj EXCEPT !.status = st]), UNCHANGED <<cache, lives>>
        PROVE  Kinds
    <3>1. [apiObj EXCEPT !.status = st] \in Objects /\ Same([apiObj EXCEPT !.status = st], apiObj)
      BY <1>1 DEF Objects, Same
    <3> QED
      BY <1>1, <2>1, <3>1, RewritesSame DEF Kinds
  <2> QED
    BY <1>2, <1>4, <2>1, StatusIsWritten
<1>5. CASE InitFinalizer \/ DropFinalizer
  BY <1>1, <1>5, AddFinalizerKind, RemoveFinalizerKind DEF InitFinalizer, DropFinalizer
<1>6. CASE ReadInstance
  BY <1>2, <1>6 DEF ReadInstance, Kinds
<1>7. CASE SetOwner
  <2>1. CASE Write([apiObj EXCEPT !.owner = found.owner])
    <3>1. /\ [apiObj EXCEPT !.owner = found.owner] \in Objects
          /\ Same([apiObj EXCEPT !.owner = found.owner], apiObj)
      BY <1>1, Holding DEF Objects, Same, FoundTypes
    <3>2. UNCHANGED <<cache, lives>>
      BY <1>7 DEF SetOwner
    <3> QED
      BY <1>1, <2>1, <3>1, <3>2, RewritesSame DEF Kinds
  <2> QED
    BY <1>2, <1>7, <2>1 DEF SetOwner
<1>8. CASE User \/ CollectBinding
  BY <1>1, <1>8, UserActs, UserDeleteKind, UserCreateKind, UserEditKind
<1>9. CASE Deliver \/ Restart
  BY <1>9 DEF Kinds
<1> QED
  BY <1>3, <1>4, <1>5, <1>6, <1>7, <1>8, <1>9, StepsThereAre DEF Stop

\* A step does to the resource what ManagedResource_proofs knows of.
LEMMA AlwaysTouched == IInv /\ [Next]_vars => Touched
<1> SUFFICES ASSUME IInv, [Next]_vars PROVE Touched
  OBVIOUS
<1>1. BaseInv /\ apiObj \in Objects
  BY Parts DEF BaseInv, BaseTypes
<1>2. UNCHANGED apiObj => Touched
  BY DEF Touched
<1>3. CASE Call \/ Around \/ Reconcile \/ ReadInstance \/ Deliver \/ Restart
  BY <1>2, <1>3, CallsAreQuiet, AroundIsQuiet
     DEF Reconcile, ReconcileWith, ReadInstance, Deliver, Restart
<1>4. CASE StatusUpdate \/ StatusRetry
  <2>1. ASSUME NEW st, Write([apiObj EXCEPT !.status = st]) PROVE Touched
    BY <1>1, <2>1, StatusTouches DEF Write
  <2> QED
    BY <1>2, <1>4, <2>1, StatusIsWritten
<1>5. CASE InitFinalizer \/ DropFinalizer
  BY <1>5 DEF InitFinalizer, DropFinalizer, Touched
<1>6. CASE SetOwner
  <2>1. CASE Write([apiObj EXCEPT !.owner = found.owner])
    BY <1>1, <2>1 DEF Touched, Write, Objects
  <2> QED
    BY <1>2, <1>6, <2>1 DEF SetOwner
<1>7. CASE User \/ CollectBinding
  BY <1>1, <1>7, UserActs, EditTouches DEF Touched
<1> QED
  BY <1>3, <1>4, <1>5, <1>6, <1>7, StepsThereAre DEF Stop
------------------------------------------------------------------------------
(* One incarnation: where the worker comes from *)

\* The worker x is idle or has a copy of the resource of which o is one.
Kin(x, o) ==
  \/ x = Idle
  \/ Alike(x.obj, o) /\ x.obj.deleting = o.deleting /\ x.obj.owner = o.owner

\* Where Reconcile begins: it creates for what is to stay, behind the finalizer.
LEMMA DispatchTurns ==
  ASSUME NEW o \in Objects, NEW f, NEW x, x = Dispatch(o, f)
  PROVE  /\ Kin(x, o)
         /\ \/ Beside(Calls, x)
            \/ x.pc = "addFinalizer" /\ ~o.deleting
            \/ x.pc = "instance" /\ ~o.deleting /\ o.finalizer
         /\ x.pc = "recoverForDelete" => o.deleting
         /\ x.pc \notin {"recover", "own", "bind"}
<1>1. /\ Alike(observe(o), o) /\ observe(o).deleting = o.deleting
      /\ observe(o).owner = o.owner
  BY DEF observe, Objects, Alike
<1>2. CASE Polling(o)
  BY <1>2 DEF Dispatch, At, Kin, Alike, Beside, Calls, Creates, Removes
<1>3. CASE ~Polling(o) /\ o.deleting
  BY <1>3 DEF Dispatch, isDelete, DeleteCall, At, Idle, Kin, Alike, Beside, Calls, Creates, Removes
<1>4. CASE ~Polling(o) /\ ~o.deleting
  BY <1>1, <1>4 DEF Dispatch, isDelete, Proceed, At, Idle, Kin, Alike, Beside, Calls, Creates, Removes
<1> QED
  BY <1>2, <1>3, <1>4 DEF Objects

\* A new condition leaves the resource what it is.
LEMMA NoClientTurns ==
  ASSUME NEW o \in Objects, NEW f, NEW x,
         x = NoClient(o, f) \/ x = Saving(setBlockedCondition(o), f, "noClient")
  PROVE  Kin(x, o) /\ Beside(Calls, x) /\ x.pc = "status"
BY DEF NoClient, Saving, setFailureConditions, setBlockedCondition, WithConditions, Objects, Kin,
   Alike, Beside, Calls, Creates, Removes

\* Where it goes on after a status update.
LEMMA ContinueTurns ==
  ASSUME NEW o \in Objects, NEW f, NEW next, NEW x,
         x = Continue(o, f, next) \/ x = GiveUp(o, f, next)
  PROVE  /\ Kin(x, o)
         /\ \/ Beside(Calls, x)
            \/ x = Continue(o, f, next) /\ next = "init" /\ x.pc = "instance"
            \/ x = Continue(o, f, next) /\ next = "finalize" /\ x.pc = "deleteSecret"
         /\ x.pc \notin {"recoverForDelete", "recover", "own", "bind"}
<1>1. /\ Alike(observe(o), o) /\ observe(o).deleting = o.deleting
      /\ observe(o).owner = o.owner
  BY DEF observe, Objects, Alike
<1>2. Kin(Idle, o) /\ Beside(Calls, Idle)
      /\ Idle.pc \notin {"recoverForDelete", "recover", "own", "bind"}
  BY CallsWellFormed, IdleIsReasoned DEF Kin, Idle, Beside, Calls, Creates, Removes
<1>3. CASE x = Proceed(o, f) /\ x = Continue(o, f, next) /\ next = "init"
  BY <1>1, <1>2, <1>3 DEF Proceed, At, Kin
<1>4. CASE x = At("deleteSecret", o, f) /\ x = Continue(o, f, next) /\ next = "finalize"
  BY <1>4 DEF At, Kin, Alike
<1>5. CASE x = NoClient(o, f)
  BY <1>5, NoClientTurns
<1> QED
  BY <1>2, <1>3, <1>4, <1>5 DEF Continue, GiveUp

\* Where it goes on from another call.
LEMMA AsideTurns ==
  /\ \A p : Save(p, "done") \/ Save(p, "requeue") => Beside(Calls, w') /\ w'.pc = "status"
  /\ \A type : Transient(type) \/ NonTransient(type) => Beside(Calls, w') /\ w'.pc = "status"
  /\ \A p : Goto("fetch", p) \/ Goto("store", p) => Beside(Calls, w') /\ w'.pc \in {"fetch", "store"}
  /\ Requeue \/ w' = Idle => Beside(Calls, w') /\ w'.pc = "idle"
  /\ removeBindingFromKubernetes(w.obj) => w'.pc = "status" /\ w'.next = "finalize"
BY DEF Save, Saving, Transient, NonTransient, Goto, At, Requeue, Idle, removeBindingFromKubernetes,
   Beside, Calls, Creates, Removes

\* What follows the owner reference: a request for a binding, or none.
LEMMA AfterOwnerTurns ==
  \A o, f, g : LET x == AfterOwner(o, f, g)
               IN x.pc = "bind" \/ (Beside(Calls, x) /\ x.pc \in {"status", "store"})
BY DEF AfterOwner, At, Saving, Beside, Calls, Creates, Removes

\* The copy the worker goes on with is one of the same resource.
LEMMA MovesKin ==
  ASSUME IInv, w.pc # "idle", Moves \/ OwnsIt
  PROVE  /\ w' = Idle \/ (w'.obj.uid = w.obj.uid /\ w'.obj.deleting = w.obj.deleting)
         /\ Moves => Kin(w', w.obj)
         /\ Exists(w.obj)
<1>1. w.obj \in Objects /\ Exists(w.obj)
  BY Holding
<1>2. Moves => Kin(w', w.obj)
  BY <1>1 DEF Moves, Goes, Carries, Kin, Alike, Objects
<1> QED
  BY <1>1, <1>2 DEF Kin, OwnsIt, Alike

\* The reasons a call may have to lead where it does.
LEMMA CallIsReasoned ==
  ASSUME IInv, w.pc # "idle", Moves \/ OwnsIt,
         \/ Beside(Calls, w')
         \/ w.pc \in Creates /\ w'.pc \in Creates
         \/ w.pc \in Removes /\ w'.pc \in Removes
         \/ /\ Removing(Removes)'
            /\ \/ UNCHANGED sm /\ RemovedOne
               \/ UNCHANGED sm /\ w.obj.deleting /\ Live = {}
               \/ w.pc = "unbind" /\ SMDeleteNow(w.obj.status.id)
  PROVE  Reasoned(Calls)
<1>1. /\ w' = Idle \/ (w'.obj.uid = w.obj.uid /\ w'.obj.deleting = w.obj.deleting)
      /\ Exists(w.obj)
  BY MovesKin
<1>2. CASE w' = Idle
  BY <1>2, CallsWellFormed, IdleIsReasoned
<1>3. CASE Beside(Calls, w') /\ w' # Idle
  BY <1>1, <1>3, BesideIsReasoned
<1>4. CASE w.pc \in Creates /\ w'.pc \in Creates /\ w' # Idle
  BY <1>1, <1>4, CallsWellFormed, CreatingIsReasoned DEF Calls
<1>5. CASE w.pc \in Removes /\ w'.pc \in Removes /\ w' # Idle
  BY <1>1, <1>5, CallsWellFormed, RemovingIsReasoned DEF Calls, Removing
<1>6. CASE /\ Removing(Removes)' /\ w' # Idle
           /\ \/ UNCHANGED sm /\ RemovedOne
              \/ UNCHANGED sm /\ w.obj.deleting /\ Live = {}
              \/ w.pc = "unbind" /\ SMDeleteNow(w.obj.status.id)
  <2>1. w'.pc \notin {"addFinalizer"} \cup Creates /\ ~Setting'
    BY <1>6 DEF Removing, Removes, Creates, Setting
  <2> QED
    BY <1>1, <1>6, <2>1 DEF Reasoned, Creating, Calls
<1> QED
  BY <1>2, <1>3, <1>4, <1>5, <1>6

\* The copy a Reconcile starts with gives it all the reason it needs.
LEMMA ReconcileIsReasoned == IInv /\ Reconcile => Reasoned(Calls)
<1> SUFFICES ASSUME IInv, Reconcile PROVE Reasoned(Calls)
  OBVIOUS
<1>1. cache \in Objects
  BY Parts DEF BaseInv, BaseTypes
<1>2. CASE UNCHANGED w
  <2>1. w'.fresh = w.fresh
    BY <1>2
  <2> QED
    BY <1>2, <2>1, StayingIsReasoned
<1>3. CASE Exists(cache) /\ w' = Dispatch(cache, watch = <<>>)
  <2>1. /\ Kin(w', cache)
        /\ \/ Beside(Calls, w')
           \/ w'.pc = "addFinalizer" /\ ~cache.deleting
           \/ w'.pc = "instance" /\ ~cache.deleting /\ cache.finalizer
    BY <1>1, <1>3, DispatchTurns
  <2>2. CASE w' = Idle
    BY <2>2, CallsWellFormed, IdleIsReasoned
  <2>3. "instance" \in Calls.creates
    BY DEF Calls, Creates
  <2> QED
    BY <1>3, <2>1, <2>2, <2>3, CallsWellFormed, StartingIsReasoned DEF Kin, Alike
<1>4. CASE Exists(cache) /\ w' = Saving(setBlockedCondition(cache), watch = <<>>, "noClient")
  <2>1. Kin(w', cache) /\ Beside(Calls, w') /\ w'.pc # "idle"
    BY <1>1, <1>4, NoClientTurns
  <2>2. w' # Idle
    BY <2>1 DEF Idle
  <2> QED
    BY <1>4, <2>1, <2>2, CallsWellFormed, StartingIsReasoned DEF Kin, Alike
<1> QED
  BY <1>2, <1>3, <1>4, Zenon DEF Reconcile, ReconcileWith

\* What goes on after a status was written has been reasoned before.
LEMMA ContinueIsReasoned ==
  ASSUME NEW o \in Objects, NEW f, w.pc = "status", w' = Continue(o, f, w.next),
         w.fresh \/ Exists(cache),
         o.uid = w.obj.uid \/ o.uid = cache.uid,
         o.deleting => w.obj.deleting \/ cache.deleting
  PROVE  Reasoned(Calls)
<1>1. /\ Kin(w', o)
      /\ \/ Beside(Calls, w')
         \/ w.next = "init" /\ w'.pc = "instance"
         \/ w.next = "finalize" /\ w'.pc = "deleteSecret"
  <2> DEFINE x == w'
             next == w.next
  <2>1. x = Continue(o, f, next)
    OBVIOUS
  <2> HIDE DEF x, next
  <2>2. /\ Kin(x, o)
        /\ \/ Beside(Calls, x)
           \/ next = "init" /\ x.pc = "instance"
           \/ next = "finalize" /\ x.pc = "deleteSecret"
    BY <2>1, ContinueTurns
  <2> QED
    BY <2>2 DEF x, next
<1>2. \/ Beside(Calls, w')
      \/ Setting /\ w'.pc \in Calls.creates
      \/ Removing(Calls.removes) /\ w'.pc \in Calls.removes
  BY <1>1 DEF Setting, Removing, Calls, Creates, Removes
<1>3. w' = Idle \/ (w'.obj.uid = o.uid /\ w'.obj.deleting = o.deleting)
  BY <1>1 DEF Kin, Alike
<1> QED
  BY <1>2, <1>3, CallsWellFormed, ResumptionIsReasoned

\* The first attempt of a status write: the worker goes on with what it wrote, or retries.
LEMMA StatusUpdateIsReasoned == IInv /\ StatusUpdate => Reasoned(Calls)
<1> SUFFICES ASSUME IInv, StatusUpdate PROVE Reasoned(Calls)
  OBVIOUS
<1>1. w.pc = "status" /\ w.obj \in Objects /\ w \in Workers
  BY Holding DEF StatusUpdate, StatusUpdateThen
<1>2. CASE /\ w.fresh
           /\ Write([apiObj EXCEPT !.status = w.obj.status])
           /\ w' = Continue(apiObj', TRUE, w.next)
  <2>1. apiObj' = w.obj
    BY <1>2 DEF IInv, Held, Write
  <2> QED
    BY <1>1, <1>2, <2>1, ContinueIsReasoned
<1>3. CASE w' = [w EXCEPT !.try = 2]
  <2>1. w'.pc = w.pc /\ w'.next = w.next /\ w'.obj = w.obj /\ w'.fresh = w.fresh
    BY <1>1, <1>3 DEF Workers
  <2> QED
    BY <2>1, StayingIsReasoned
<1> QED
  BY <1>2, <1>3, Zenon DEF StatusUpdate, StatusUpdateThen

\* A later attempt: what it goes on with is what the cache showed, or its own copy.
LEMMA StatusRetryIsReasoned == IInv /\ StatusRetry => Reasoned(Calls)
<1> SUFFICES ASSUME IInv, StatusRetry PROVE Reasoned(Calls)
  OBVIOUS
<1>1. /\ w.pc = "status" /\ w.obj \in Objects /\ Exists(w.obj) /\ w \in Workers
      /\ cache \in Objects
  BY Holding, Parts DEF StatusRetry, StatusRetryThen, BaseInv, BaseTypes
<1>2. CASE Exists(cache) /\ w' = Continue(cache, cache.status = w.obj.status, w.next)
  BY <1>1, <1>2, ContinueIsReasoned
<1>3. ASSUME NEW o \in {cache, w.obj}, NEW f, f => Exists(cache), Exists(o),
             \/ w' = [w EXCEPT !.obj = o, !.fresh = f, !.try = @ + 1]
             \/ w' = GiveUp(o, f, w.next)
      PROVE  Reasoned(Calls)
  <2>1. CASE w' = [w EXCEPT !.obj = o, !.fresh = f, !.try = @ + 1]
    <3>1. w'.pc = w.pc /\ w'.next = w.next /\ w'.obj = o /\ w'.fresh = f
      BY <1>1, <2>1 DEF Workers
    <3> QED
      BY <1>3, <3>1, StayingIsReasoned
  <2>2. CASE w' = Idle
    BY <2>2, CallsWellFormed, IdleIsReasoned
  <2>3. CASE w' = NoClient(o, f)
    <3>1. Kin(w', o) /\ Beside(Calls, w')
      BY <1>1, <2>3, NoClientTurns
    <3> QED
      BY <1>3, <2>2, <3>1, BesideIsReasoned DEF Kin, Alike
  <2> QED
    BY <1>3, <2>1, <2>2, <2>3 DEF GiveUp
<1>4. \/ Exists(cache) /\ w' = Continue(cache, cache.status = w.obj.status, w.next)
      \/ LET o == IF Exists(cache) THEN cache ELSE w.obj
             f == Exists(cache) /\ watch = <<>>
         IN w' = [w EXCEPT !.obj = o, !.fresh = f, !.try = @ + 1] \/ w' = GiveUp(o, f, w.next)
  BY Zenon DEF StatusRetry, StatusRetryThen
<1>5. ASSUME LET o == IF Exists(cache) THEN cache ELSE w.obj
                 f == Exists(cache) /\ watch = <<>>
             IN w' = [w EXCEPT !.obj = o, !.fresh = f, !.try = @ + 1] \/ w' = GiveUp(o, f, w.next)
      PROVE  Reasoned(Calls)
  <2> DEFINE o == IF Exists(cache) THEN cache ELSE w.obj
             f == Exists(cache) /\ watch = <<>>
  <2>1. o \in {cache, w.obj} /\ Exists(o) /\ (f => Exists(cache))
    BY <1>1
  <2>2. w' = [w EXCEPT !.obj = o, !.fresh = f, !.try = @ + 1] \/ w' = GiveUp(o, f, w.next)
    BY <1>5
  <2> HIDE DEF o, f
  <2> QED
    BY <1>3, <2>1, <2>2
<1> QED
  BY <1>2, <1>4, <1>5

\* A call to SM, or for the secret, leads to what Reconcile found there.
LEMMA CallsAreReasoned ==
  ASSUME GInv, Names = {K8sName}, Call
  PROVE  Reasoned(Calls)
<1>1. /\ IInv /\ Single /\ Moves /\ w.pc # "idle"
      /\ w.pc = "recoverForDelete" => w.obj.deleting
  BY CallsAreQuiet DEF GInv
<1>2. ASSUME Beside(Calls, w') PROVE Reasoned(Calls)
  BY <1>1, <1>2, CallIsReasoned
<1>3. CASE Recover
  <2>1. w.pc = "recover" /\ w.pc \in Creates
    BY <1>3 DEF Recover, Creates
  <2>2. \/ w' = AfterOwner(w.obj, w.fresh, found')
        \/ w' = At("own", w.obj, w.fresh)
    BY <1>3 DEF Recover
  <2>3. Beside(Calls, w') \/ w'.pc \in Creates
    BY <2>2, AfterOwnerTurns DEF At, Creates
  <2> QED
    BY <1>1, <2>1, <2>3, CallIsReasoned
<1>4. CASE Bind
  <2>1. Beside(Calls, w')
    BY <1>4, AsideTurns, Zenon DEF Bind, Unanswered, Return
  <2> QED
    BY <1>2, <2>1
<1>5. CASE storeBindingSecret
  <2>1. Beside(Calls, w')
    BY <1>5, AsideTurns, Zenon DEF storeBindingSecret, Return, AfterStore, NotStored
  <2> QED
    BY <1>2, <2>1
<1>6. CASE GetBindingByID
  <2>1. Beside(Calls, w')
    BY <1>6, AsideTurns, Zenon DEF GetBindingByID
  <2> QED
    BY <1>2, <2>1
<1>7. CASE Poll
  <2> DEFINE op == w.obj.status.op
  <2>1. w.pc = "poll" /\ UNCHANGED sm
    BY <1>7 DEF Poll
  <2>2. \/ Beside(Calls, w')
        \/ /\ sm[op.id].ops[op.n].state = "SUCCEEDED" /\ op.type = "DELETE"
           /\ removeBindingFromKubernetes(w.obj)
    <3>1. ASSUME ~Beside(Calls, w')
          PROVE  /\ \A p : ~Save(p, "done") /\ ~Save(p, "requeue") /\ ~Goto("fetch", p)
                 /\ ~Requeue
      BY <3>1, AsideTurns
    <3> QED
      BY <1>7, <3>1 DEF Poll
  <2>3. CASE /\ sm[op.id].ops[op.n].state = "SUCCEEDED" /\ op.type = "DELETE"
             /\ removeBindingFromKubernetes(w.obj)
    <3>1. op \in OpRefs /\ op # NoOp /\ Recorded(sm, w.obj.status) /\ op.id \in IDs
      BY <1>1, <2>1, Holding DEF IInv, CallsAreMeant, Polling, Statuses, OpRefs
    <3>2. op.n \in DOMAIN sm[op.id].ops /\ sm[op.id].ops[op.n].type = "DELETE"
      BY <2>3, <3>1 DEF Recorded
    <3>3. op.id \in Used /\ sm[op.id].ops[op.n] \in Ops(op.id)
      <4> HIDE DEF op
      <4>1. sm[op.id].ops # <<>>
        BY <3>2
      <4> QED
        BY <3>1, <3>2, <4>1 DEF Used, FreeIDs, Ops
    <3>4. ~sm[op.id].alive
      BY <1>1, <2>3, <3>1, <3>2, <3>3 DEF IInv, Truthful, RemovedIsGone
    <3>5. RemovedOne
      BY <3>2, <3>3, <3>4 DEF RemovedOne
    <3>6. Removing(Removes)'
      BY <2>3, AsideTurns DEF Removing
    <3> QED
      BY <1>1, <2>1, <3>5, <3>6, CallIsReasoned
  <2> QED
    BY <1>2, <2>2, <2>3
<1>8. CASE RecoverForDelete
  <2>1. /\ w.pc = "recoverForDelete" /\ UNCHANGED sm
        /\ \/ Requeue \/ \E p : Save(p, "done")
           \/ Cardinality(Matches(w.obj.name)) # 1 /\ Goto("deleteSecret", w.obj)
    BY <1>8, Zenon DEF RecoverForDelete
  <2>2. CASE Requeue \/ \E p : Save(p, "done")
    BY <1>2, <2>2, AsideTurns
  <2>3. CASE Cardinality(Matches(w.obj.name)) # 1 /\ Goto("deleteSecret", w.obj)
    <3>1. Live = {} /\ w.obj.deleting
      BY <1>1, <2>1, <2>3, Holding, NothingFound
    <3>2. Removing(Removes)'
      BY <2>3 DEF Goto, At, Removing, Removes
    <3> QED
      BY <1>1, <2>1, <3>1, <3>2, CallIsReasoned
  <2> QED
    BY <2>1, <2>2, <2>3
<1>9. CASE Unbind
  <2>1. /\ w.pc = "unbind"
        /\ \/ SMDeleteNow(w.obj.status.id) /\ removeBindingFromKubernetes(w.obj)
           \/ \E p : Save(p, "requeue")
           \/ Transient("DELETE")
    BY <1>9, Zenon DEF Unbind, UnansweredDelete
  <2>2. CASE (\E p : Save(p, "requeue")) \/ Transient("DELETE")
    BY <1>2, <2>2, AsideTurns
  <2>3. CASE SMDeleteNow(w.obj.status.id) /\ removeBindingFromKubernetes(w.obj)
    <3>1. Removing(Removes)'
      BY <2>3, AsideTurns DEF Removing
    <3> QED
      BY <1>1, <2>1, <2>3, <3>1, CallIsReasoned
  <2> QED
    BY <2>1, <2>2, <2>3
<1>10. CASE deleteBindingSecret
  <2>1. w.pc = "deleteSecret" /\ (Requeue \/ Goto("removeFinalizer", w.obj))
    BY <1>10 DEF deleteBindingSecret
  <2>2. CASE Requeue
    BY <1>2, <2>2, AsideTurns
  <2>3. CASE Goto("removeFinalizer", w.obj)
    <3>1. w.pc \in Removes /\ w'.pc \in Removes
      BY <2>1, <2>3 DEF Goto, At, Removes
    <3> QED
      BY <1>1, <3>1, CallIsReasoned
  <2> QED
    BY <2>1, <2>2, <2>3
<1> QED
  BY <1>3, <1>4, <1>5, <1>6, <1>7, <1>8, <1>9, <1>10 DEF Call

\* Reading the instance leads to recovery, or nowhere.
LEMMA ReadInstanceIsReasoned == IInv /\ ReadInstance => Reasoned(Calls)
<1> SUFFICES ASSUME IInv, ReadInstance PROVE Reasoned(Calls)
  OBVIOUS
<1>1. w.pc = "instance" /\ w.pc # "idle" /\ w.pc \in Creates
  BY DEF ReadInstance, Creates
<1>2. Moves \/ w' = Idle
  BY ReadInstanceStep DEF Restart
<1>3. CASE w' = Idle
  BY <1>3, CallsWellFormed, IdleIsReasoned
<1>4. CASE Goto("recover", w.obj) /\ Moves
  <2>1. w'.pc \in Creates
    BY <1>4 DEF Goto, At, Creates
  <2> QED
    BY <1>1, <1>4, <2>1, CallIsReasoned
<1>5. CASE (\E p : Save(p, "done") \/ Save(p, "requeue")) /\ Moves
  <2>1. Beside(Calls, w')
    BY <1>5, AsideTurns
  <2> QED
    BY <1>1, <1>5, <2>1, CallIsReasoned
<1>6. w' = Idle \/ Goto("recover", w.obj) \/ \E p : Save(p, "done") \/ Save(p, "requeue")
  BY Zenon DEF ReadInstance, Restart
<1> QED
  BY <1>2, <1>3, <1>4, <1>5, <1>6

\* Setting the owner leads to a request for a binding, or to what recovery found.
LEMMA SetOwnerIsReasoned == IInv /\ SetOwner => Reasoned(Calls)
<1> SUFFICES ASSUME IInv, SetOwner PROVE Reasoned(Calls)
  OBVIOUS
<1>1. w.pc = "own" /\ w.pc # "idle" /\ w.pc \in Creates /\ (Moves \/ OwnsIt)
  BY SetOwnerStep DEF SetOwner, Creates
<1>2. \/ \E o, f, g : w' = AfterOwner(o, f, g)
      \/ Requeue \/ \E p : Save(p, "requeue")
  BY Zenon DEF SetOwner, Return
<1>3. Beside(Calls, w') \/ w'.pc \in Creates
  BY <1>2, AfterOwnerTurns, AsideTurns DEF Creates
<1> QED
  BY <1>1, <1>3, CallIsReasoned

\* The worker never does anything without a reason.
LEMMA AlwaysReasoned == GInv /\ Names = {K8sName} /\ [Next]_vars => Reasoned(Calls)
<1> SUFFICES ASSUME GInv, Names = {K8sName}, [Next]_vars PROVE Reasoned(Calls)
  OBVIOUS
<1>1. IInv /\ BaseInv /\ Held /\ w \in Workers
  BY Parts DEF GInv
<1>2. CASE Around \/ (Deliver /\ UNCHANGED ownVars)
  <2>1. UNCHANGED w
    BY <1>2, AroundIsQuiet DEF Deliver
  <2>2. w'.pc = w.pc /\ w'.next = w.next /\ w'.obj = w.obj /\ w'.fresh = w.fresh
    BY <2>1
  <2> QED
    BY <2>2, StayingIsReasoned
<1>3. CASE User \/ CollectBinding
  <2>1. Outdated
    BY <1>3, UserActs DEF UserDelete, UserCreate, UserEdit
  <2>2. w'.pc = w.pc /\ w'.next = w.next /\ w'.obj = w.obj /\ ~w'.fresh
    BY <1>1, <2>1 DEF Outdated, Workers
  <2> QED
    BY <2>2, StayingIsReasoned
<1>4. CASE Stop
  BY <1>4, CallsWellFormed, IdleIsReasoned DEF Stop, Restart
<1>5. CASE InitFinalizer \/ DropFinalizer
  BY <1>1, <1>5, CallsWellFormed, AddFinalizerIsReasoned, RemoveFinalizerIsReasoned
     DEF InitFinalizer, DropFinalizer
<1> QED
  BY <1>1, <1>2, <1>3, <1>4, <1>5, StepsThereAre, CallsAreReasoned, ReconcileIsReasoned,
     StatusUpdateIsReasoned, StatusRetryIsReasoned, ReadInstanceIsReasoned, SetOwnerIsReasoned

------------------------------------------------------------------------------
(* One incarnation: the finalizer, the owner and the binding *)

\* Every step is one of a controller that makes these calls.
LEMMA StepIsOne ==
  ASSUME MaxLives <= 1, Names = {K8sName}, DropsFailed = FALSE, GInv, [Next]_vars
  PROVE  OneStep(Calls)
<1>1. IInv /\ IInv' /\ Single /\ OneLife(Creates, Removes) /\ Backlog
  BY NextIInv DEF GInv
<1>2. Asked(Calls) /\ Kinds /\ Touched /\ Reasoned(Calls)
  BY <1>1, StepIsAsked, KindsOfSteps, AlwaysTouched, AlwaysReasoned
<1>3. BaseInv' /\ w'.fresh \in BOOLEAN
  BY <1>1, Parts DEF Workers
<1> QED
  BY <1>1, <1>2, <1>3 DEF OneStep, Calls, Single

\* SetOwner writes the owner, or nothing.
LEMMA SetOwnerWrites == IInv /\ SetOwner => UNCHANGED apiObj \/ OwnsIt
<1>1. SetOwner =>
        \/ UNCHANGED apiObj
        \/ /\ w.pc = "own" /\ w.fresh
           /\ Write([apiObj EXCEPT !.owner = found.owner])
           /\ w' = AfterOwner(Returned(apiObj'), TRUE, found)
           /\ UNCHANGED <<queued, found>>
           /\ UNCHANGED <<cache, lives, sm, inst, secrets, secretCache>>
  BY Zenon DEF SetOwner
<1> QED
  BY <1>1, OwnedStep

\* A later attempt goes on with the worker's copy or the cache's.
LEMMA RetryGoesOn ==
  ASSUME StatusRetry
  PROVE  \E o \in {w.obj, cache}, f \in BOOLEAN :
           \/ w' = Continue(o, f, w.next)
           \/ w' = GiveUp(o, f, w.next)
           \/ w' = [w EXCEPT !.obj = o, !.fresh = f, !.try = @ + 1]
<1>1. CASE w' = Continue(cache, cache.status = w.obj.status, w.next)
  <2>1. (cache.status = w.obj.status) \in BOOLEAN
    OBVIOUS
  <2> QED
    BY <1>1, <2>1
<1>2. CASE LET o == IF Exists(cache) THEN cache ELSE w.obj
               f == Exists(cache) /\ watch = <<>>
           IN w' = [w EXCEPT !.obj = o, !.fresh = f, !.try = @ + 1] \/ w' = GiveUp(o, f, w.next)
  <2> DEFINE o == IF Exists(cache) THEN cache ELSE w.obj
             f == Exists(cache) /\ watch = <<>>
  <2>1. o \in {w.obj, cache} /\ f \in BOOLEAN
    OBVIOUS
  <2>2. w' = [w EXCEPT !.obj = o, !.fresh = f, !.try = @ + 1] \/ w' = GiveUp(o, f, w.next)
    BY <1>2
  <2> HIDE DEF o, f
  <2> QED
    BY <2>1, <2>2
<1> QED
  BY <1>1, <1>2, Zenon DEF StatusRetry, StatusRetryThen

\* SetOwner alone changes the owner of a resource.
LEMMA OwnerWritten ==
  ASSUME IInv, [Next]_vars
  PROVE  \/ OwnsIt
         \/ apiObj' = NoObject
         \/ apiObj'.uid = apiObj.uid /\ apiObj'.owner = apiObj.owner
         \/ ~Exists(apiObj) /\ apiObj'.owner = 0
<1> DEFINE Goal == \/ OwnsIt
                   \/ apiObj' = NoObject
                   \/ apiObj'.uid = apiObj.uid /\ apiObj'.owner = apiObj.owner
                   \/ ~Exists(apiObj) /\ apiObj'.owner = 0
<1>1. BaseInv /\ Held /\ apiObj \in Objects
  BY Parts DEF BaseInv, BaseTypes
<1>2. UNCHANGED apiObj => Goal
  OBVIOUS
<1>3. CASE Call \/ Around \/ Reconcile \/ ReadInstance \/ Deliver \/ Stop
  BY <1>2, <1>3, CallsAreQuiet, AroundIsQuiet
     DEF Reconcile, ReconcileWith, ReadInstance, Deliver, Stop, Restart
<1>4. CASE StatusUpdate \/ StatusRetry
  <2>1. ASSUME NEW st, Write([apiObj EXCEPT !.status = st]) PROVE Goal
    BY <1>1, <2>1 DEF Write, Objects
  <2> QED
    BY <1>2, <1>4, <2>1, StatusIsWritten
<1>5. CASE InitFinalizer
  <2>1. UNCHANGED apiObj \/ apiObj' = [apiObj EXCEPT !.finalizer = TRUE]
    BY <1>1, <1>5, AddFinalizerOutcome DEF InitFinalizer
  <2> QED
    BY <1>1, <2>1 DEF Objects
<1>6. CASE DropFinalizer
  <2>1. UNCHANGED apiObj \/ apiObj' = Released(apiObj)
    BY <1>1, <1>6, RemoveFinalizerOutcome DEF DropFinalizer
  <2> QED
    BY <1>1, <2>1 DEF Released, Objects
<1>7. CASE SetOwner
  <2>1. UNCHANGED apiObj \/ OwnsIt
    BY <1>7, SetOwnerWrites
  <2> QED
    BY <2>1
<1>8. CASE UserDelete
  <2>1. apiObj' = IF apiObj.finalizer THEN [apiObj EXCEPT !.deleting = TRUE] ELSE NoObject
    BY <1>8 DEF UserDelete, Write
  <2> QED
    BY <1>1, <2>1 DEF Objects
<1>9. ASSUME NEW name, NEW s, UserCreate(name, s) PROVE Goal
  BY <1>9 DEF UserCreate, Write, NoObject
<1>10. ASSUME NEW name, NEW s, UserEdit(name, s) PROVE Goal
  BY <1>1, <1>10 DEF UserEdit, Write, Objects
<1> QED
  BY <1>3, <1>4, <1>5, <1>6, <1>7, <1>8, <1>9, <1>10, StepsThereAre, UserActs

\* What the worker holds is like a copy there was, but for its owner if that is set now.
LEMMA CopyInherits ==
  ASSUME IInv, [Next]_vars
  PROVE  \/ w' = Idle
         \/ \E o \in Copies : Alike(w'.obj, o) /\ (OwnsIt \/ w'.obj.owner = o.owner)
<1> DEFINE Goal == \/ w' = Idle
                   \/ \E o \in Copies : Alike(w'.obj, o) /\ (OwnsIt \/ w'.obj.owner = o.owner)
<1>1. /\ BaseInv /\ Held /\ apiObj \in Objects /\ cache \in Objects /\ w.obj \in Objects
      /\ w \in Workers /\ {w.obj, cache, apiObj} \subseteq Copies
  BY Parts, Holding DEF BaseInv, BaseTypes, Copies
<1>2. ASSUME NEW o \in {w.obj, cache, apiObj}, Kin(w', o) PROVE Goal
  BY <1>1, <1>2 DEF Kin
<1>3. w'.obj = w.obj => Goal
  BY <1>1 DEF Alike
<1>4. CASE Around \/ (Deliver /\ UNCHANGED ownVars)
  BY <1>3, <1>4, AroundIsQuiet DEF Deliver
<1>5. CASE User \/ CollectBinding
  <2>1. Outdated
    BY <1>5, UserActs DEF UserDelete, UserCreate, UserEdit
  <2> QED
    BY <1>1, <1>3, <2>1 DEF Outdated, Workers
<1>6. CASE Call \/ ReadInstance \/ SetOwner \/ Stop
  <2>1. w' = Idle \/ OwnsIt \/ (Moves /\ w.pc # "idle")
    BY <1>6, CallsAreQuiet, ReadInstanceStep, SetOwnerStep
       DEF ReadInstance, SetOwner, Stop, Restart
  <2>2. Moves /\ w.pc # "idle" => Kin(w', w.obj)
    BY MovesKin
  <2>3. OwnsIt => Goal
    BY <1>1 DEF OwnsIt
  <2> QED
    BY <1>2, <2>1, <2>2, <2>3
<1>7. CASE Reconcile
  <2>1. UNCHANGED w \/ Kin(w', cache)
    BY <1>1, <1>7, DispatchTurns, NoClientTurns, Zenon DEF Reconcile, ReconcileWith
  <2> QED
    BY <1>2, <1>3, <2>1
<1>8. CASE StatusUpdate
  <2>1. CASE w.fresh /\ Write([apiObj EXCEPT !.status = w.obj.status])
             /\ w' = Continue(apiObj', TRUE, w.next)
    <3>1. apiObj' = w.obj
      BY <1>1, <2>1 DEF Held, Write
    <3>2. Kin(w', w.obj)
      BY <1>1, <2>1, <3>1, ContinueTurns
    <3> QED
      BY <1>2, <3>2
  <2>2. w' = [w EXCEPT !.try = 2] => w'.obj = w.obj
    BY <1>1 DEF Workers
  <2> QED
    BY <1>3, <1>8, <2>1, <2>2, Zenon DEF StatusUpdate, StatusUpdateThen
<1>9. CASE StatusRetry
  <2>1. ASSUME NEW o \in {w.obj, cache}, NEW f,
               \/ w' = Continue(o, f, w.next)
               \/ w' = GiveUp(o, f, w.next)
               \/ w' = [w EXCEPT !.obj = o, !.fresh = f, !.try = @ + 1]
        PROVE  Goal
    <3>1. o \in Objects
      BY <1>1
    <3>2. w' = [w EXCEPT !.obj = o, !.fresh = f, !.try = @ + 1] => w'.obj = o
      BY <1>1 DEF Workers
    <3>3. w' = Continue(o, f, w.next) \/ w' = GiveUp(o, f, w.next) => Kin(w', o)
      BY <3>1, ContinueTurns
    <3>4. w'.obj = o => Goal
      BY <1>1 DEF Alike
    <3> QED
      BY <1>1, <1>2, <2>1, <3>2, <3>3, <3>4
  <2>2. \E o \in {w.obj, cache}, f \in BOOLEAN :
          \/ w' = Continue(o, f, w.next)
          \/ w' = GiveUp(o, f, w.next)
          \/ w' = [w EXCEPT !.obj = o, !.fresh = f, !.try = @ + 1]
    BY <1>9, RetryGoesOn
  <2> HIDE DEF Goal
  <2>3. Goal
    BY <2>1, <2>2
  <2> QED
    BY <2>3 DEF Goal
<1>10. CASE InitFinalizer
  <2>1. \/ w' = Idle
        \/ Restates(w'.obj, [apiObj EXCEPT !.finalizer = TRUE])
        \/ Restates(w'.obj, [w.obj EXCEPT !.finalizer = TRUE])
    BY <1>1, <1>10, AddFinalizerOutcome DEF InitFinalizer
  <2>2. \A o \in Objects : Restates(w'.obj, [o EXCEPT !.finalizer = TRUE])
                             => Alike(w'.obj, o) /\ w'.obj.owner = o.owner
    BY DEF Restates, Objects, Alike
  <2> QED
    BY <1>1, <2>1, <2>2
<1>11. CASE DropFinalizer
  <2>1. \/ w' = Idle
        \/ \E o \in {w.obj, cache, apiObj}, b \in BOOLEAN :
             w'.obj = ClearOp([o EXCEPT !.finalizer = b])
    BY <1>1, <1>11, RemoveFinalizerOutcome DEF DropFinalizer
  <2>2. \A o \in Objects, b \in BOOLEAN : w'.obj = ClearOp([o EXCEPT !.finalizer = b])
                             => Alike(w'.obj, o) /\ w'.obj.owner = o.owner
    BY DEF ClearOp, Objects, Alike
  <2> QED
    BY <1>1, <2>1, <2>2
<1> QED
  BY <1>4, <1>5, <1>6, <1>7, <1>8, <1>9, <1>10, <1>11, StepsThereAre

\* With one incarnation, a resource that is owned stays so until it goes.
LEMMA OwnedStaysOwned ==
  ASSUME GInv, [Next]_vars, Exists(apiObj'), Exists(apiObj), Owned(apiObj)
  PROVE  Owned(apiObj')
<1>1. IInv /\ (w.pc = "own" => found.owner # 0)
  BY DEF GInv, Owning
<1>2. OwnsIt => apiObj'.owner = found.owner /\ w.pc = "own"
  BY <1>1, Parts DEF OwnsIt, Write, BaseInv, BaseTypes, Objects
<1>3. ~Exists(NoObject)
  BY DEF Exists, NoObject
<1> QED
  BY <1>1, <1>2, <1>3, OwnerWritten DEF Owned

\* A copy with an owner was there before, or the owner is set now.
LEMMA OwnedCopies ==
  ASSUME GInv, [Next]_vars, NEW o \in Copies', Owned(o)
  PROVE  /\ Exists(o)
         /\ \/ Owned(apiObj')
            \/ \E p \in Copies : Owned(p) /\ o.uid = p.uid
<1>1. /\ IInv /\ BaseInv /\ apiObj \in Objects /\ apiObj \in Copies
      /\ \A p \in Copies : Owned(p) => Exists(p)
      /\ w.pc = "own" => found.owner # 0
  BY Parts DEF GInv, Owning, BaseInv, BaseTypes, Copies
<1>2. Copies' \subseteq Copies \cup {apiObj', w'.obj}
  BY <1>1, KindsOfSteps, NewCopies
<1>3. ~Owned(NoObject) /\ Idle.obj = NoObject
  BY DEF Owned, NoObject, Idle
<1>4. OwnsIt => /\ Exists(apiObj') /\ Owned(apiObj') /\ Exists(w'.obj)
  <2>1. OwnsIt => /\ apiObj'.uid = apiObj.uid /\ apiObj'.owner = found.owner
                  /\ w.pc = "own" /\ Exists(apiObj) /\ w'.obj.uid = w.obj.uid
    BY <1>1 DEF OwnsIt, Write, Objects, Alike
  <2>2. w.pc = "own" => Exists(w.obj)
    BY <1>1, Holding
  <2> QED
    BY <1>1, <2>1, <2>2 DEF Exists, Owned
<1>5. CASE o \in Copies
  BY <1>1, <1>5
<1>6. CASE o = apiObj'
  <2>1. OwnsIt \/ (apiObj'.uid = apiObj.uid /\ apiObj'.owner = apiObj.owner)
    BY <1>1, <1>3, <1>6, OwnerWritten DEF Owned
  <2> QED
    BY <1>1, <1>4, <1>6, <2>1 DEF Owned, Exists
<1>7. CASE o = w'.obj
  <2>1. OwnsIt \/ \E p \in Copies : o.uid = p.uid /\ o.owner = p.owner
    BY <1>1, <1>3, <1>7, CopyInherits DEF Alike
  <2> QED
    BY <1>1, <1>4, <1>7, <2>1 DEF Owned, Exists
<1> QED
  BY <1>2, <1>5, <1>6, <1>7

\* A copy with an owner is of a resource that has one, or of one that is gone.
LEMMA OwnedTogether ==
  ASSUME MaxLives <= 1, GInv, [Next]_vars, NEW o \in Copies', Owned(o), Exists(apiObj')
  PROVE  Owned(apiObj')
<1>1. IInv /\ BaseInv /\ lives \in Nat /\ MaxLives \in Nat /\ Kinds
  BY Parts, KindsOfSteps, ConstantsAssumption DEF GInv, BaseInv, BaseTypes
<1> SUFFICES ASSUME NEW p \in Copies, Owned(p) PROVE Owned(apiObj')
  BY OwnedCopies
<1>2. Exists(p) /\ (~Exists(apiObj) \/ Owned(apiObj))
  BY DEF GInv, Owning
<1>3. CASE Exists(apiObj)
  BY <1>2, <1>3, OwnedStaysOwned
<1>4. CASE ~Exists(apiObj)
  <2>1. Begun
    BY <1>1, <1>4 DEF Kinds, Undisturbed, Rewritten, Write, Deliver, Restart, Exists
  <2>2. lives = 0
    BY <1>1, <2>1 DEF Begun
  <2>3. p.uid <= lives /\ p \in Objects
    BY <1>1 DEF BaseInv, BaseTypes, DeletionIsFinal, Copies
  <2>4. p.uid = 0
    BY <2>2, <2>3 DEF Objects
  <2> QED
    BY <1>2, <2>4 DEF Exists
<1> QED
  BY <1>3, <1>4

\* The worker knows an instance when it sets the owner.
LEMMA OwnerKnown ==
  ASSUME GInv, [Next]_vars, w'.pc \in {"recover", "own"}
  PROVE  found'.owner # 0
<1>1. IInv /\ Owning /\ found \in FoundTypes /\ w'.pc \in Within
  BY Holding DEF GInv, Within
<1>2. CASE Bystands
  BY <1>1, <1>2 DEF Bystands, Owning
<1>3. CASE ReadInstance
  <2>1. /\ w.pc = "instance"
        /\ \/ w' = Idle \/ \E p, next : Save(p, next)
           \/ /\ inst.state = "ready"
              /\ \E named \in BOOLEAN :
                   found' = [Nothing EXCEPT !.owner = inst.uid, !.named = named]
    BY <1>3, Zenon DEF ReadInstance, Restart
  <2>2. w' # Idle /\ \A p, next : ~Save(p, next)
    BY Turns DEF Idle
  <2>3. inst.uid # 0 /\ found'.owner = inst.uid
    BY <1>1, <2>1, <2>2 DEF Owning, Nothing
  <2> QED
    BY <2>3
<1>4. CASE Recover
  <2>1. w.pc = "recover" /\ (UNCHANGED found \/ \E i \in IDs : found' = Recovered(i))
    BY <1>4 DEF Recover
  <2>2. found'.owner = found.owner
    BY <1>1, <2>1 DEF Recovered, FoundTypes
  <2> QED
    BY <1>1, <2>1, <2>2 DEF Owning
<1> QED
  BY <1>1, <1>2, <1>3, <1>4, ComesFrom

\* The resource is owned when a binding is about to be asked for.
LEMMA OwnedFirst ==
  ASSUME MaxLives <= 1, Names = {K8sName}, DropsFailed = FALSE, GInv, [Next]_vars,
         w'.pc = "bind"
  PROVE  Owned(apiObj')
<1>1. IInv /\ Owning /\ OneLife(Creates, Removes) /\ apiObj \in Objects /\ w.obj \in Copies
  BY Parts DEF GInv, BaseInv, BaseTypes, Copies
<1>2. Exists(apiObj')
  <2>1. w'.pc \in Calls.creates
    BY DEF Calls, Creates
  <2> QED
    BY <2>1, StepIsOne, FinalizerFirst DEF Guarded
<1>3. CASE Bystands
  <2>1. Owned(apiObj) /\ Exists(apiObj)
    BY <1>1, <1>3 DEF Bystands, Owning, OneLife, Guarded, Creates
  <2> QED
    BY <1>2, <2>1, OwnedStaysOwned
<1>4. CASE Recover
  <2>1. w.pc = "recover" /\ UNCHANGED apiObj /\ Owned(w.obj)
    BY <1>4 DEF Recover, At
  <2>2. Owned(apiObj)
    BY <1>1, <1>2, <2>1 DEF Owning, Exists
  <2> QED
    BY <2>1, <2>2 DEF Owned
<1>5. CASE SetOwner
  <2>1. OwnsIt
    <3>1. w' # Idle /\ \A p, next : ~Save(p, next)
      BY Turns DEF Idle
    <3>2. /\ w.pc = "own" /\ w.fresh
          /\ Write([apiObj EXCEPT !.owner = found.owner])
          /\ w' = AfterOwner(Returned(apiObj'), TRUE, found)
          /\ UNCHANGED <<queued, found>>
          /\ UNCHANGED <<cache, lives, sm, inst, secrets, secretCache>>
      BY <1>5, <3>1, Zenon DEF SetOwner, Return, Requeue
    <3> QED
      BY <1>1, <3>2, OwnedStep
  <2>2. apiObj'.owner = found.owner /\ w.pc = "own"
    BY <1>1, <2>1 DEF OwnsIt, Write, Objects
  <2> QED
    BY <1>1, <2>2 DEF Owning, Owned
<1> QED
  BY <1>1, <1>3, <1>4, <1>5, ComesFrom DEF Within

\* The resource is owned as long as SM has its binding.
LEMMA OwnedLast ==
  ASSUME MaxLives <= 1, Names = {K8sName}, DropsFailed = FALSE, GInv, [Next]_vars,
         Live' # {}
  PROVE  Owned(apiObj')
<1>1. IInv /\ Owning /\ OneLife(Creates, Removes)
  BY DEF GInv
<1>2. Live # {} \/ w.pc = "bind"
  BY <1>1, StepIsAsked, LiveChanges DEF Calls
<1>3. Exists(apiObj) /\ Owned(apiObj)
  BY <1>1, <1>2 DEF Owning, OwnedBeforeBound, Owned, OneLife, Guarded, Creates
<1>4. Exists(apiObj')
  BY StepIsOne, FinalizerLast DEF Guarded
<1> QED
  BY <1>3, <1>4, OwnedStaysOwned

\* Nothing but a step of the instance changes what is seen of it.
LEMMA InstanceAlone == [Next]_vars => Instance \/ UNCHANGED inst
BY Zenon DEF Next, Worker, Reconcile, StatusUpdate, StatusRetry, InitFinalizer, DropFinalizer,
   ReadInstance, Recover, SetOwner, Bind, storeBindingSecret, Poll, GetBindingByID,
   RecoverForDelete, Unbind, deleteBindingSecret, User, CollectBinding, Secrets, SyncSecrets,
   CollectSecret, Intrude, Informer, Stop, ServiceManagerStep, Finish, vars, ownVars

\* The owner comes before the binding and stays.
LEMMA NextOwning ==
  ASSUME MaxLives <= 1, Names = {K8sName}, DropsFailed = FALSE
  PROVE  GInv /\ [Next]_vars => Owning'
<1> SUFFICES ASSUME GInv, [Next]_vars PROVE Owning'
  OBVIOUS
<1>1. inst.state # "absent" => inst.uid # 0
  BY DEF GInv, Owning
<1>2. inst \in Life!Instances /\ MaxInstances \in Nat
  BY Parts, BindingAssumption DEF GInv, Own
<1>3. inst'.state # "absent" => inst'.uid # 0
  <2>1. CASE Instance
    BY <1>1, <1>2, <2>1
       DEF Instance, InstanceStep, Life!Created, Life!Changed, Life!Gone, Life!Instances
  <2>2. Instance \/ UNCHANGED inst
    BY InstanceAlone
  <2> QED
    BY <1>1, <2>1, <2>2
<1>4. \A o \in Copies' : Owned(o) => Exists(o) /\ (~Exists(apiObj') \/ Owned(apiObj'))
  BY OwnedCopies, OwnedTogether
<1>5. w'.pc \in {"recover", "own"} => found'.owner # 0
  BY OwnerKnown
<1>6. (w'.pc = "bind" => Owned(apiObj')) /\ (Live' # {} => Owned(apiObj'))
  BY OwnedFirst, OwnedLast
<1> QED
  BY <1>3, <1>4, <1>5, <1>6 DEF Owning, OwnedBeforeBound, Owned, Exists

\* All of it is an invariant.
LEMMA NextGInv ==
  ASSUME MaxLives <= 1, Names = {K8sName}, DropsFailed = FALSE, "list" \notin SMFaults
  PROVE  GInv /\ [Next]_vars => GInv'
<1> SUFFICES ASSUME GInv, [Next]_vars PROVE GInv'
  OBVIOUS
<1>1. IInv /\ Single /\ BaseInv /\ Backlog /\ (w.pc = "recoverForDelete" => w.obj.deleting)
  BY Parts DEF GInv
<1>2. IInv' /\ Single' /\ Owning'
  BY <1>1, NextIInv, NextSingle, NextOwning
<1>3. OneLife(Calls.creates, Calls.removes)'
  BY StepIsOne, OneLifeKept
<1>4. OneLife(Creates, Removes)'
  BY <1>3 DEF Calls
<1>5. Backlog'
  BY <1>1, KindsOfSteps, BacklogKept
<1>6. w'.pc = "recoverForDelete" => w'.obj.deleting
  <2> SUFFICES ASSUME w'.pc = "recoverForDelete" PROVE w'.obj.deleting
    OBVIOUS
  <2>1. CASE Bystands
    BY <1>1, <2>1 DEF Bystands
  <2>2. CASE Reconcile
    <3>1. cache \in Objects /\ w.pc = "idle"
      BY <1>1, <2>2 DEF BaseInv, BaseTypes, Reconcile, ReconcileWith
    <3>2. w' = Dispatch(cache, watch = <<>>)
      BY <2>2, <3>1, Places DEF Reconcile, ReconcileWith, Within
    <3> QED
      BY <3>1, <3>2, DispatchTurns DEF Kin, Idle
  <2>3. CASE Recover
    BY <2>3, AfterOwnerTurns DEF Recover, At
  <2> QED
    BY <1>1, <2>1, <2>2, <2>3, ComesFrom DEF Within
<1> QED
  BY <1>2, <1>4, <1>5, <1>6 DEF GInv

\* The invariant holds before the first incarnation.
LEMMA InitGInv == Init => GInv
<1> SUFFICES ASSUME Init PROVE GInv
  OBVIOUS
<1>1. IInv /\ Backlog
  BY InitIInv, Parts, BacklogToBegin DEF Init
<1>2. OneLife(Calls.creates, Calls.removes) /\ Live = {}
  BY CallsWellFormed, OneLifeToBegin DEF Init
<1>3. Owning
  <2>1. inst.state = "absent" /\ w.pc = "idle"
    BY DEF Init, Life!Init, Idle
  <2>2. \A o \in Copies : o = NoObject
    BY DEF Init, Copies, Idle
  <2> QED
    BY <1>2, <2>1, <2>2 DEF Owning, OwnedBeforeBound, Owned, NoObject
<1>4. w.pc = "idle"
  BY DEF Init, Idle
<1> QED
  BY <1>1, <1>2, <1>3, <1>4 DEF GInv, Single, Calls

\* The order in which an incarnation comes and goes, and the owner before the binding,
\* for one incarnation and one name, and an SM that keeps what it failed to create and
\* answers every listing.
THEOREM OneBindingInvariant ==
  ASSUME MaxLives <= 1, Names = {K8sName}, DropsFailed = FALSE, "list" \notin SMFaults
  PROVE  Spec => []GInv
<1>1. Init => GInv
  BY InitGInv
<1>2. GInv /\ [Next]_vars => GInv'
  BY NextGInv
<1> QED
  BY <1>1, <1>2, PTL DEF Spec

\* As long as SM has a binding the controller created, the resource exists and the
\* finalizer keeps it, whatever the garbage collector does.
THEOREM FinalizerGuards ==
  ASSUME MaxLives <= 1, Names = {K8sName}, DropsFailed = FALSE, "list" \notin SMFaults
  PROVE  Spec => []FinalizerGuardsBinding
<1>1. GInv => FinalizerGuardsBinding
  BY DEF GInv, OneLife, Guarded, FinalizerGuardsBinding
<1> QED
  BY <1>1, OneBindingInvariant, PTL

\* createBinding runs only after SetOwner has written the owner reference, which is
\* still there as long as SM has the binding.
THEOREM OwnerComesFirst ==
  ASSUME MaxLives <= 1, Names = {K8sName}, DropsFailed = FALSE, "list" \notin SMFaults
  PROVE  Spec => []OwnedBeforeBound
<1>1. GInv => OwnedBeforeBound
  BY DEF GInv, Owning
<1> QED
  BY <1>1, OneBindingInvariant, PTL

\* The controller keeps what ManagedResource promises: a binding is created only
\* behind the finalizer and for lack of one, it is removed only for a resource that
\* was deleted, and the resource goes only when it has been removed.
THEOREM PromiseImplemented ==
  ASSUME MaxLives <= 1, Names = {K8sName}, DropsFailed = FALSE, "list" \notin SMFaults
  PROVE  Spec => ImplementsManagedResource
<1>1. Init => Promise!Init
  <2> SUFFICES ASSUME Init PROVE Promise!Init
    OBVIOUS
  <2>1. Live = {}
    BY CallsWellFormed, OneLifeToBegin DEF Init
  <2> QED
    BY <2>1, PromiseToBegin DEF Init
<1>2. GInv /\ [Next]_vars => [Promise!Next]_(Promise!vars)
  BY StepIsOne, PromiseKept
<1> QED
  BY <1>1, <1>2, OneBindingInvariant, PTL DEF Spec, ImplementsManagedResource, Promise!Spec

------------------------------------------------------------------------------
(* The last line: where an incarnation begins *)

\* Everybody has a copy of a generation that counts.
Born == \A o \in Copies : Exists(o) => o.gen > 0

\* As long as a resource has not been through init, SM was asked for nothing, and
\* addFinalizer is called for no other resource.
Infant ==
  /\ Exists(apiObj) /\ (~apiObj.finalizer \/ Setting) => Used = {}
  /\ w.pc = "addFinalizer" /\ Exists(apiObj) => ~apiObj.finalizer

\* Only the user begins a resource, or another generation of it.
LEMMA GenerationWritten ==
  ASSUME IInv, [Next]_vars
  PROVE  \/ apiObj' = NoObject
         \/ Alike(apiObj', apiObj)
         \/ ~Exists(apiObj) /\ \E name : \E s \in SecretNames : UserCreate(name, s)
         \/ Exists(apiObj) /\ \E name : \E s \in SecretNames : UserEdit(name, s)
<1> DEFINE Goal == apiObj' = NoObject \/ Alike(apiObj', apiObj)
<1>1. BaseInv /\ Held /\ apiObj \in Objects
  BY Parts DEF BaseInv, BaseTypes
<1>2. UNCHANGED apiObj => Goal
  BY DEF Alike
<1>3. CASE Call \/ Around \/ Reconcile \/ ReadInstance \/ Deliver \/ Stop
  BY <1>2, <1>3, CallsAreQuiet, AroundIsQuiet
     DEF Reconcile, ReconcileWith, ReadInstance, Deliver, Stop, Restart
<1>4. CASE StatusUpdate \/ StatusRetry
  <2>1. ASSUME NEW st, Write([apiObj EXCEPT !.status = st]) PROVE Goal
    BY <1>1, <2>1 DEF Write, Objects, Alike
  <2> QED
    BY <1>2, <1>4, <2>1, StatusIsWritten
<1>5. CASE InitFinalizer
  <2>1. UNCHANGED apiObj \/ apiObj' = [apiObj EXCEPT !.finalizer = TRUE]
    BY <1>1, <1>5, AddFinalizerOutcome DEF InitFinalizer
  <2> QED
    BY <1>1, <2>1 DEF Objects, Alike
<1>6. CASE DropFinalizer
  <2>1. UNCHANGED apiObj \/ apiObj' = Released(apiObj)
    BY <1>1, <1>6, RemoveFinalizerOutcome DEF DropFinalizer
  <2> QED
    BY <1>1, <2>1 DEF Released, Objects, Alike
<1>7. CASE SetOwner
  <2>1. UNCHANGED apiObj \/ OwnsIt
    BY <1>7, SetOwnerWrites
  <2>2. OwnsIt => Goal
    BY <1>1 DEF OwnsIt, Write, Objects, Alike
  <2> QED
    BY <1>2, <2>1, <2>2
<1>8. CASE UserDelete
  <2>1. apiObj' = IF apiObj.finalizer THEN [apiObj EXCEPT !.deleting = TRUE] ELSE NoObject
    BY <1>8 DEF UserDelete, Write
  <2> QED
    BY <1>1, <2>1 DEF Objects, Alike
<1>9. \A name, s : UserCreate(name, s) => ~Exists(apiObj)
  BY DEF UserCreate
<1>10. \A name, s : UserEdit(name, s) => Exists(apiObj)
  BY DEF UserEdit
<1> QED
  BY <1>3, <1>4, <1>5, <1>6, <1>7, <1>8, <1>9, <1>10, StepsThereAre, UserActs

\* A copy is like one there was, or is what the user wrote.
LEMMA CopiesAlike ==
  ASSUME IInv, [Next]_vars, NEW o \in Copies', Exists(o)
  PROVE  \/ \E p \in Copies : Alike(o, p)
         \/ o = apiObj' /\ ~Exists(apiObj) /\ \E name : \E s \in SecretNames : UserCreate(name, s)
         \/ o = apiObj' /\ Exists(apiObj) /\ \E name : \E s \in SecretNames : UserEdit(name, s)
<1>1. BaseInv /\ {w.obj, cache, apiObj} \subseteq Copies
  BY Parts DEF Copies
<1>2. Copies' \subseteq Copies \cup {apiObj', w'.obj}
  BY <1>1, KindsOfSteps, NewCopies
<1>3. ~Exists(NoObject) /\ Idle.obj = NoObject
  BY DEF Exists, NoObject, Idle
<1>4. CASE o \in Copies
  BY <1>4 DEF Alike
<1>5. CASE o = apiObj'
  BY <1>1, <1>3, <1>5, GenerationWritten
<1>6. CASE o = w'.obj
  BY <1>3, <1>6, CopyInherits
<1> QED
  BY <1>2, <1>4, <1>5, <1>6

LEMMA BornKept ==
  ASSUME IInv, Born, [Next]_vars
  PROVE  Born'
<1>1. apiObj \in Objects /\ apiObj \in Copies
  BY Parts DEF BaseInv, BaseTypes, Copies
<1>2. ASSUME NEW o \in Copies', Exists(o) PROVE o.gen > 0
  <2>1. ASSUME NEW p \in Copies, Alike(o, p) PROVE o.gen > 0
    BY <1>2, <2>1 DEF Alike, Born, Exists
  <2>2. ASSUME NEW name, NEW s, UserCreate(name, s), o = apiObj' PROVE o.gen > 0
    BY <2>2 DEF UserCreate, Write, NoObject
  <2>3. ASSUME NEW name, NEW s, UserEdit(name, s), o = apiObj', Exists(apiObj) PROVE o.gen > 0
    <3>1. o.gen = apiObj.gen + 1 /\ apiObj.gen \in Nat
      BY <1>1, <2>3 DEF UserEdit, Write, Objects
    <3> QED
      BY <3>1
  <2> QED
    BY <1>2, <2>1, <2>2, <2>3, CopiesAlike
<1> QED
  BY <1>2 DEF Born, Exists

\* A prompt step is a step, and when it is Reconcile the finalizer is seen.
LEMMA PromptSteps ==
  ASSUME [Prompt]_vars
  PROVE  /\ [Next]_vars
         /\ \/ User \/ CollectBinding \/ Secrets \/ Instance \/ Informer \/ Stop
            \/ ServiceManagerStep \/ UNCHANGED vars
            \/ Worker /\ (Reconcile => FinalizerSeen)
BY Zenon DEF Prompt, Next

\* Those who are not the worker leave the worker what it is, or stop it.
LEMMA OthersLeaveWorker ==
  ASSUME w \in Workers,
         \/ User \/ CollectBinding \/ Secrets \/ Instance \/ Informer \/ Stop
         \/ ServiceManagerStep \/ UNCHANGED vars
  PROVE  \/ w' = Idle
         \/ /\ w'.pc = w.pc /\ w'.next = w.next /\ w'.obj = w.obj
            /\ w'.fresh => w.fresh /\ UNCHANGED apiObj
<1>1. CASE User \/ CollectBinding
  <2>1. Outdated
    BY <1>1, UserActs DEF UserDelete, UserCreate, UserEdit
  <2> QED
    BY <2>1 DEF Outdated, Workers
<1>2. CASE Stop
  BY <1>2 DEF Stop, Restart
<1>3. CASE Secrets \/ Instance \/ Informer \/ ServiceManagerStep \/ UNCHANGED vars
  BY <1>3 DEF Secrets, SyncSecrets, CollectSecret, Intrude, Instance, InstanceStep, Informer,
     Deliver, Resync, ServiceManagerStep, Finish, SMComplete, vars, baseVars
<1> QED
  BY <1>1, <1>2, <1>3

\* What follows the worker's next call.
LEMMA Followed ==
  /\ \A p, next : Save(p, next) => w'.next = next
  /\ \A type : Transient(type) \/ NonTransient(type) => w'.next \in {"done", "requeue"}
  /\ \A pc, p : Goto(pc, p) => w'.next = "done"
  /\ Requeue \/ w' = Idle => w'.next = "done"
  /\ removeBindingFromKubernetes(w.obj) => w'.next = "finalize"
  /\ \A o, f, g : AfterOwner(o, f, g).next = "done"
  /\ \A pc, o, f : At(pc, o, f).next = "done"
BY DEF Save, Saving, Transient, NonTransient, Goto, At, Requeue, Idle, removeBindingFromKubernetes,
   AfterOwner

\* A call goes neither back to the beginning nor on without a client.
LEMMA CallsGoOn ==
  ASSUME Call \/ ReadInstance \/ SetOwner
  PROVE  /\ w'.pc # "addFinalizer" /\ w'.next \in {"done", "requeue", "finalize"}
         /\ w'.pc \in Creates => ReadInstance \/ Recover \/ SetOwner
<1>1. CASE Recover \/ SetOwner
  <2>1. \/ \E o, f, g : w' = AfterOwner(o, f, g)
        \/ \E o, f : w' = At("own", o, f)
        \/ Requeue \/ \E p : Save(p, "requeue")
    BY <1>1, Zenon DEF Recover, SetOwner, Return
  <2>2. (\A o, f, g : AfterOwner(o, f, g).pc # "addFinalizer")
        /\ \A o, f : At("own", o, f).pc # "addFinalizer"
    BY DEF AfterOwner, At, Saving
  <2> QED
    BY <1>1, <2>1, <2>2, Followed, Turns
<1>2. CASE Bind \/ storeBindingSecret \/ GetBindingByID
  <2>1. \/ Requeue
        \/ \E p : Save(p, "requeue") \/ Save(p, "done")
        \/ \E p : Goto("store", p)
        \/ Transient("CREATE") \/ NonTransient("CREATE")
    BY <1>2, Zenon DEF Bind, Unanswered, Return, storeBindingSecret, AfterStore, NotStored,
       GetBindingByID
  <2> QED
    BY <2>1, Followed, Turns DEF Creates
<1>3. CASE ReadInstance
  <2>1. \/ w' = Idle \/ \E p : Goto("recover", p)
        \/ \E p : Save(p, "requeue") \/ Save(p, "done")
    BY <1>3, Zenon DEF ReadInstance, Restart
  <2> QED
    BY <1>3, <2>1, Followed, Turns DEF Idle
<1>4. CASE Poll
  BY <1>4, Followed, Turns DEF Poll, removeBindingFromKubernetes, Creates
<1>5. CASE RecoverForDelete \/ Unbind \/ deleteBindingSecret
  <2>1. \/ Requeue
        \/ Goto("deleteSecret", w.obj) \/ Goto("removeFinalizer", w.obj)
        \/ \E p : Save(p, "requeue") \/ Save(p, "done") \/ Save(p, "finalize")
        \/ Transient("DELETE")
    BY <1>5, Zenon DEF RecoverForDelete, Unbind, UnansweredDelete, deleteBindingSecret,
       removeBindingFromKubernetes
  <2> QED
    BY <2>1, Followed, Turns DEF Creates
<1> QED
  BY <1>1, <1>2, <1>3, <1>4, <1>5 DEF Call

\* What the worker is at after one of its steps.
LEMMA WorkersNext ==
  ASSUME IInv, Worker
  PROVE  /\ w'.pc = "addFinalizer" => Reconcile /\ Exists(cache) /\ ~cache.finalizer
         /\ Setting' => Setting \/ InitFinalizer
         /\ w'.next = "noClient" => w.next = "noClient" \/ ClientFaults
<1>1. w \in Workers /\ BaseInv /\ Held /\ cache.finalizer \in BOOLEAN
  BY Parts DEF BaseInv, BaseTypes, Objects
<1>2. CASE Call \/ ReadInstance \/ SetOwner
  BY <1>2, CallsGoOn DEF Setting
<1>3. CASE Reconcile
  <2>1. \A o, f : /\ Dispatch(o, f).next = "done"
                  /\ Dispatch(o, f).pc = "addFinalizer" => ~o.finalizer
    BY DEF Dispatch, DeleteCall, Proceed, At, Idle
  <2>2. \A o, f, next : Saving(o, f, next).pc = "status" /\ Saving(o, f, next).next = next
    BY DEF Saving
  <2>3. \/ w.pc = "idle" /\ w' = w
        \/ Exists(cache) /\ w' = Dispatch(cache, watch = <<>>)
        \/ ClientFaults /\ w' = Saving(setBlockedCondition(cache), watch = <<>>, "noClient")
    BY <1>3, Zenon DEF Reconcile, ReconcileWith
  <2> QED
    BY <1>1, <1>3, <2>1, <2>2, <2>3 DEF Setting
<1>4. CASE StatusUpdate \/ StatusRetry
  <2>1. \A o, f, next : \A x \in {Continue(o, f, next), GiveUp(o, f, next)} :
          x.next \in {"done", "requeue"} /\ x.pc # "addFinalizer"
    BY DEF Continue, Proceed, GiveUp, NoClient, At, Saving, Idle
  <2>2. \/ w.pc = "status" /\ w'.pc = w.pc /\ w'.next = w.next
        \/ \E o, f : w' \in {Continue(o, f, w.next), GiveUp(o, f, w.next)}
    <3>1. CASE StatusUpdate
      BY <1>1, <3>1 DEF StatusUpdate, StatusUpdateThen, Workers
    <3>2. CASE StatusRetry
      <4>1. \E o, f : \/ w' \in {Continue(o, f, w.next), GiveUp(o, f, w.next)}
                      \/ w' = [w EXCEPT !.obj = o, !.fresh = f, !.try = @ + 1]
        BY <3>2, RetryGoesOn
      <4>2. w.pc = "status"
        BY <3>2 DEF StatusRetry, StatusRetryThen
      <4> QED
        BY <1>1, <4>1, <4>2 DEF Workers
    <3> QED
      BY <1>4, <3>1, <3>2
  <2> QED
    BY <2>1, <2>2 DEF Setting
<1>5. CASE InitFinalizer
  <2>1. w' = Idle \/ (w'.pc = "status" /\ w'.next = "init")
    BY <1>1, <1>5, AddFinalizerOutcome DEF InitFinalizer
  <2> QED
    BY <1>5, <2>1 DEF Idle, Setting
<1>6. CASE DropFinalizer
  <2>1. w' = Idle \/ (w'.pc = "status" /\ w'.next = "done")
    BY <1>1, <1>6, RemoveFinalizerOutcome DEF DropFinalizer
  <2> QED
    BY <2>1 DEF Idle, Setting
<1> QED
  BY <1>2, <1>3, <1>4, <1>5, <1>6, Zenon DEF Worker, Call

\* The finalizer goes with a resource that is marked for deletion.
LEMMA FinalizerGoesLast ==
  ASSUME MaxLives <= 1, Names = {K8sName}, DropsFailed = FALSE, GInv, [Next]_vars,
         Exists(apiObj), apiObj.finalizer
  PROVE  Exists(apiObj') => apiObj'.finalizer
<1>1. BaseInv /\ Held /\ Touched /\ OneLife(Creates, Removes)
  BY Parts, AlwaysTouched DEF GInv
<1>2. CASE RemoveFinalizer
  <2>1. Doomed
    BY <1>1, <1>2 DEF OneLife, Removing, Removes, RemoveFinalizer
  <2>2. apiObj.deleting
    BY <1>1, <2>1, LastVersion DEF Doomed
  <2> QED
    BY <1>1, <1>2, <2>2, RemoveFinalizerOutcome DEF Released, NoObject, Exists
<1>3. CASE Guarded'
  BY <1>3 DEF Guarded, Exists
<1> QED
  BY <1>1, <1>2, <1>3, FinalizerStays DEF Guarded

\* As long as Reconcile does not begin with a copy from before init.
LEMMA InfantKept ==
  ASSUME MaxLives <= 1, Names = {K8sName}, DropsFailed = FALSE, GInv, Infant, [Prompt]_vars
  PROVE  Infant'
<1>1. /\ IInv /\ BaseInv /\ Held /\ Kinds /\ Touched /\ OneStep(Calls) /\ Asked(Calls)
      /\ OneLife(Creates, Removes) /\ [Next]_vars /\ w \in Workers /\ apiObj \in Objects
      /\ apiObj.finalizer \in BOOLEAN /\ Truthful
  <2>1. IInv /\ [Next]_vars
    BY PromptSteps DEF GInv
  <2>2. OneStep(Calls)
    BY <2>1, StepIsOne
  <2> QED
    BY <2>1, <2>2, Parts, OneStepFacts DEF BaseInv, BaseTypes, Objects, GInv
<1>2. ASSUME Exists(apiObj'), ~Exists(apiObj) PROVE Used' = {} /\ w'.pc = "idle"
  <2>1. w.pc = "idle" /\ Exists(w.obj) = FALSE
    BY <1>1, <1>2, NothingYet DEF Held, Copies
  <2>2. \E name, s : UserCreate(name, s)
    BY <1>1, <1>2, NothingYet, <2>1 DEF Touched, Exists, UserDelete, AddFinalizer, RemoveFinalizer
  <2>3. UNCHANGED sm /\ w'.pc = w.pc
    BY <1>1, <2>2 DEF UserCreate, Outdated, Workers
  <2>4. Used = {}
    <3>1. lives = 0 /\ ~Doomed /\ ~Guarded
      BY <1>1, <1>2, NothingYet DEF Doomed, Guarded
    <3> QED
      BY <1>1, <3>1 DEF OneLife, Dismantled, Live, Used
  <2> QED
    BY <2>1, <2>3, <2>4 DEF Used, FreeIDs
<1>3. ASSUME Exists(apiObj), Exists(apiObj'), ~apiObj'.finalizer \/ Setting'
      PROVE  Used' = {}
  <2>1. ~apiObj.finalizer \/ Setting
    <3>1. CASE ~apiObj'.finalizer
      BY <1>1, <1>3, <3>1, FinalizerGoesLast
    <3>2. CASE Setting' /\ Worker
      <4>1. Setting \/ InitFinalizer
        BY <1>1, <3>2, WorkersNext
      <4> QED
        BY <1>3, <4>1 DEF Infant, InitFinalizer, AddFinalizer
    <3>3. CASE Setting' /\ ~Worker
      <4>1. w' = Idle \/ (w'.pc = w.pc /\ w'.next = w.next)
        BY <1>1, <3>3, OthersLeaveWorker, PromptSteps
      <4> QED
        BY <3>3, <4>1 DEF Setting, Idle
    <3> QED
      BY <1>3, <3>1, <3>2, <3>3
  <2>2. Used = {}
    BY <1>3, <2>1 DEF Infant
  <2>3. w.pc # "bind"
    <3>1. CASE Setting
      BY <3>1 DEF Setting
    <3>2. CASE ~apiObj.finalizer
      BY <1>1, <3>2 DEF OneLife, Guarded, Creates
    <3> QED
      BY <2>1, <3>1, <3>2
  <2> QED
    BY <1>1, <2>2, <2>3, UsedChanges DEF Calls
<1>4. ASSUME Exists(apiObj), Exists(apiObj'), w'.pc = "addFinalizer" PROVE ~apiObj'.finalizer
  <2>1. CASE Worker /\ (Reconcile => FinalizerSeen)
    <3>1. Reconcile /\ ~cache.finalizer
      BY <1>1, <1>4, <2>1, WorkersNext
    <3>2. UNCHANGED apiObj
      BY <3>1 DEF Reconcile, ReconcileWith
    <3> QED
      BY <1>4, <2>1, <3>1, <3>2 DEF FinalizerSeen
  <2>2. CASE \/ User \/ CollectBinding \/ Secrets \/ Instance \/ Informer \/ Stop
             \/ ServiceManagerStep \/ UNCHANGED vars
    <3>1. w.pc = "addFinalizer"
      BY <1>1, <1>4, <2>2, OthersLeaveWorker DEF Idle
    <3>2. ~apiObj.finalizer
      BY <1>4, <3>1 DEF Infant
    <3>3. CASE User \/ CollectBinding
      <4>1. \A name, s : UserEdit(name, s) => apiObj'.finalizer = apiObj.finalizer
        BY <1>1 DEF UserEdit, Write, Objects
      <4>2. ~(\E name, s : UserCreate(name, s))
        BY <1>4 DEF UserCreate
      <4>3. UserDelete => apiObj' = NoObject
        BY <3>2 DEF UserDelete, Write
      <4>4. apiObj' # NoObject
        BY <1>4 DEF Exists, NoObject
      <4> QED
        BY <3>2, <3>3, <4>1, <4>2, <4>3, <4>4, UserActs, Zenon
    <3>4. CASE Secrets \/ Instance \/ Informer \/ Stop \/ ServiceManagerStep \/ UNCHANGED vars
      <4>1. UNCHANGED apiObj
        BY <3>4 DEF Secrets, SyncSecrets, CollectSecret, Intrude, Instance, InstanceStep, Informer,
           Deliver, Resync, Stop, Restart, ServiceManagerStep, Finish, SMComplete, vars, baseVars
      <4> QED
        BY <3>2, <4>1
    <3> QED
      BY <2>2, <3>3, <3>4
  <2> QED
    BY <2>1, <2>2, PromptSteps
<1> QED
  BY <1>2, <1>3, <1>4 DEF Infant, Exists

\* SM has not been asked for the binding yet.
Unasked(o) == ~Polling(o) /\ o.status.id = NoId

\* A binding that has an id is observed, and in progress only if there is an operation.
Tidy(o) ==
  /\ Polling(o) => o.status.id # NoId
  /\ o.status.id # NoId => o.status.obs > 0 /\ (Polling(o) \/ ~isInProgress(o))

\* The worker x creates what SM was not asked for, and what it is to write, or polls, is
\* tidy, or will be when the secret is stored.
Bare(x) == x.pc \in Creates => Unasked(x.obj) /\ x.obj.status.obs > 0
Trim(x) ==
  /\ x.pc \in {"status", "poll"} => Tidy(x.obj)
  /\ x.pc \in {"fetch", "store"} =>
       /\ x.obj.status.obs > 0
       /\ Polling(x.obj) => x.obj.status.id # NoId /\ ~isInProgress(x.obj)

\* All versions that are to stay are tidy, and so is the worker.
Tidied == \A k \in 0..Len(watch) : Exists(Version(k)) /\ ~Version(k).deleting => Tidy(Version(k))
Orderly ==
  /\ w.next # "noClient"
  /\ Bare(w)
  /\ w.pc \in Creates /\ w.fresh => Unasked(apiObj)
  /\ Trim(w) \/ Doomed

\* What the conditions are does not matter before SM is asked, nor later when they are final.
LEMMA SettersAreTidy ==
  ASSUME NEW o \in Objects, NEW type \in OperationCategories
  PROVE  /\ Unasked(o) => /\ Tidy(setInProgressCondition(type, o))
                          /\ Tidy(setFailureConditions(type, o))
                          /\ Tidy(markAsNonTransientError(type, o))
                          /\ Tidy(setBlockedCondition(o))
         /\ o.status.obs > 0 /\ (Polling(o) => o.status.id # NoId) =>
              /\ Tidy(setSuccessConditions(type, o))
              /\ Tidy(setFailureConditions(type, o))
<1>1. ASSUME NEW c \in Conditions PROVE
        /\ Polling(WithConditions(o, c)) = Polling(o)
        /\ WithConditions(o, c).status.id = o.status.id
        /\ WithConditions(o, c).status.obs = o.status.obs
        /\ WithConditions(o, c).status.cond = c
        /\ Unasked(o) => Unasked(observe(WithConditions(o, c)))
  BY <1>1 DEF WithConditions, Objects, Statuses, Polling, observe, Unasked
<1>2. \A reason \in Reasons : /\ [ready |-> "False", failed |-> FALSE, reason |-> reason] \in Conditions
                               /\ [ready |-> "True", failed |-> FALSE, reason |-> reason] \in Conditions
                               /\ [ready |-> "False", failed |-> TRUE, reason |-> reason] \in Conditions
  BY DEF Conditions
<1>3. /\ \A state \in OperationStates : getConditionReason(type, state) \in Reasons
      /\ "Blocked" \in Reasons
  BY ReasonType DEF Reasons
<1>4. {"SUCCEEDED", "FAILED", "IN_PROGRESS"} \subseteq OperationStates
  BY DEF OperationStates
<1>5. ASSUME NEW c \in Conditions, Unasked(o)
      PROVE  Tidy(WithConditions(o, c)) /\ Tidy(observe(WithConditions(o, c)))
  BY <1>1, <1>5 DEF Tidy, Unasked
<1>6. ASSUME NEW c \in Conditions, o.status.obs > 0, Polling(o) => o.status.id # NoId,
             c.ready = "True" \/ c.failed
      PROVE  Tidy(WithConditions(o, c))
  BY <1>1, <1>6 DEF Tidy, isInProgress
<1>7. Unasked(o) => /\ Tidy(setInProgressCondition(type, o))
                    /\ Tidy(setFailureConditions(type, o))
                    /\ Tidy(markAsNonTransientError(type, o))
                    /\ Tidy(setBlockedCondition(o))
  BY <1>2, <1>3, <1>4, <1>5 DEF setInProgressCondition, setFailureConditions,
     markAsNonTransientError, setBlockedCondition
<1>8. o.status.obs > 0 /\ (Polling(o) => o.status.id # NoId) =>
        /\ Tidy(setSuccessConditions(type, o))
        /\ Tidy(setFailureConditions(type, o))
  BY <1>2, <1>3, <1>4, <1>6 DEF setSuccessConditions, setFailureConditions
<1> QED
  BY <1>7, <1>8

\* The worker writes what is tidy.
LEMMA SavedIsTrim ==
  ASSUME NEW o, NEW next, Tidy(o), Save(o, next)
  PROVE  Trim(w') /\ Bare(w')
BY DEF Save, Saving, Trim, Bare, Creates

\* The worker is at none of these.
LEMMA OutIsTrim ==
  ASSUME w'.pc \notin Creates \cup {"status", "poll", "fetch", "store"}
  PROVE  Trim(w') /\ Bare(w')
BY DEF Trim, Bare

\* An error before SM was asked.
LEMMA ErrorIsTrim ==
  ASSUME w.obj \in Objects, Unasked(w.obj), NEW type \in OperationCategories,
         Transient(type) \/ NonTransient(type)
  PROVE  Trim(w') /\ Bare(w')
BY SettersAreTidy, SavedIsTrim DEF Transient, NonTransient

\* An operation that SM accepted is written with the id.
LEMMA AcceptedIsTidy ==
  ASSUME NEW o \in Objects, o.status.obs > 0, NEW type \in OperationCategories, NEW i \in IDs,
         NEW n \in Nat
  PROVE  Tidy(InOperation(type, i, n, o))
<1>1. i # NoId
  BY ServiceManagerAssumption
<1>2. /\ InOperation(type, i, n, o).status.id = i
      /\ InOperation(type, i, n, o).status.op = [type |-> type, id |-> i, n |-> n]
      /\ InOperation(type, i, n, o).status.obs = o.status.obs
  BY DEF InOperation, setInProgressCondition, WithConditions, Objects, Statuses
<1>3. [type |-> type, id |-> i, n |-> n] # NoOp
  BY <1>1 DEF NoOp
<1> QED
  BY <1>1, <1>2, <1>3 DEF Tidy, Polling

\* What recovery found is written with its id.
LEMMA ResyncedIsTidy ==
  ASSUME NEW o \in Objects, o.gen > 0, NEW f \in FoundTypes, f.op # NoOp, f.id # NoId,
         f.state \in OperationStates
  PROVE  Tidy(resyncBindingStatus(o, f))
<1> DEFINE r == [o EXCEPT !.status.obs = o.gen, !.status.id = f.id, !.status.op = NoOp]
<1>1. /\ r \in Objects /\ ~Polling(r) /\ r.status.obs > 0 /\ r.status.id = f.id
      /\ f.op.type \in OperationCategories /\ f.id \in IDs /\ f.op.n \in Nat
  BY DEF Objects, Statuses, Polling, OpRefs, NoOp, FoundTypes
<1>2. resyncBindingStatus(o, f) = CASE f.state = "IN_PROGRESS" -> InOperation(f.op.type, f.id, f.op.n, r)
                                    [] f.state = "SUCCEEDED" -> setSuccessConditions(f.op.type, r)
                                    [] f.state = "FAILED" -> setFailureConditions(f.op.type, r)
  BY DEF resyncBindingStatus
<1> HIDE DEF r
<1>3. CASE f.state = "IN_PROGRESS"
  <2>1. Tidy(InOperation(f.op.type, f.id, f.op.n, r))
    BY <1>1, AcceptedIsTidy
  <2> QED
    BY <1>2, <1>3, <2>1
<1>4. CASE f.state = "SUCCEEDED"
  BY <1>1, <1>2, <1>4, SettersAreTidy
<1>5. CASE f.state = "FAILED"
  BY <1>1, <1>2, <1>5, SettersAreTidy
<1> QED
  BY <1>3, <1>4, <1>5 DEF OperationStates

\* What recovery leads to once the owner is set.
LEMMA AfterOwnerIsTrim ==
  ASSUME NEW o \in Objects, Unasked(o), o.status.obs > 0, o.gen > 0, NEW fresh,
         NEW f \in FoundTypes, f.id # NoId => f.op # NoOp /\ f.state \in OperationStates,
         w' = AfterOwner(o, fresh, f)
  PROVE  Trim(w') /\ Bare(w')
<1>1. CASE w' = At("bind", o, fresh) \/ w' = At("store", o, fresh)
  BY <1>1 DEF At, Trim, Bare, Creates, Unasked
<1>2. CASE w' = Saving(resyncBindingStatus(o, f), fresh, "done") /\ f.id # NoId
  <2>1. Tidy(resyncBindingStatus(o, f))
    BY <1>2, ResyncedIsTidy
  <2> QED
    BY <1>2, <2>1 DEF Saving, Trim, Bare, Creates
<1> QED
  BY <1>1, <1>2 DEF AfterOwner

\* What the worker has when it is about to create a binding.
LEMMA Beginning ==
  ASSUME IInv, Born, Bare(w), w.pc \in Creates
  PROVE  /\ w.obj \in Objects /\ Unasked(w.obj) /\ w.obj.status.obs > 0 /\ w.obj.gen > 0
         /\ found \in FoundTypes /\ FoundIsTrue
<1>1. w.obj \in Objects /\ Exists(w.obj) /\ w.obj \in Copies /\ found \in FoundTypes
  BY Holding DEF Creates, IInv, Held, Copies
<1> QED
  BY <1>1 DEF Bare, Born, IInv

\* The instance is read: the binding is blocked, or recovered.
LEMMA ReadInstanceIsTrim ==
  ASSUME IInv, Born, Bare(w), ReadInstance
  PROVE  Trim(w') /\ Bare(w')
<1>1. w.pc \in Creates
  BY DEF ReadInstance, Creates
<1>2. w.obj \in Objects /\ Unasked(w.obj) /\ w.obj.status.obs > 0
  BY <1>1, Beginning
<1>3. \/ w' = Idle \/ Goto("recover", w.obj)
      \/ \E p \in {setBlockedCondition(w.obj), setInProgressCondition("CREATE", w.obj)} :
           Save(p, "done") \/ Save(p, "requeue")
  BY Zenon DEF ReadInstance, Restart
<1>4. Tidy(setBlockedCondition(w.obj)) /\ Tidy(setInProgressCondition("CREATE", w.obj))
  BY <1>2, SettersAreTidy DEF OperationCategories
<1>5. CASE w' = Idle
  BY <1>5, OutIsTrim DEF Idle, Creates
<1>6. CASE Goto("recover", w.obj)
  BY <1>2, <1>6 DEF Goto, At, Trim, Bare
<1> QED
  BY <1>3, <1>4, <1>5, <1>6, SavedIsTrim

\* Recovery has found a binding, or none.
LEMMA RecoverIsTrim ==
  ASSUME IInv, IInv', Born, Bare(w), Recover
  PROVE  Trim(w') /\ Bare(w')
<1>1. w.pc = "recover" /\ w.pc \in Creates
  BY DEF Recover, Creates
<1>2. /\ w.obj \in Objects /\ Unasked(w.obj) /\ w.obj.status.obs > 0 /\ w.obj.gen > 0
      /\ found' \in FoundTypes /\ FoundIsTrue'
  BY <1>1, Beginning DEF IInv, TypeOK
<1>3. found'.id # NoId => found'.op # NoOp
  <2>1. CASE UNCHANGED found
    BY <1>1, <2>1 DEF IInv, CallsAreMeant
  <2>2. ASSUME NEW i \in IDs, found' = Recovered(i) PROVE found'.op # NoOp
    <3>1. found'.op.id = i /\ i # NoId
      BY <2>2, Holding, ServiceManagerAssumption DEF Recovered, FoundTypes
    <3> QED
      BY <3>1 DEF NoOp
  <2> QED
    BY <2>1, <2>2 DEF Recover
<1>4. found'.op # NoOp => found'.state \in OperationStates
  BY <1>2 DEF FoundIsTrue
<1>5. CASE w' = AfterOwner(w.obj, w.fresh, found')
  BY <1>2, <1>3, <1>4, <1>5, AfterOwnerIsTrim
<1>6. CASE w' = At("own", w.obj, w.fresh)
  BY <1>2, <1>6 DEF At, Trim, Bare
<1> QED
  BY <1>5, <1>6 DEF Recover

\* The owner is set on what the API server has, or is not.
LEMMA SetOwnerIsTrim ==
  ASSUME IInv, Born, Bare(w), w.fresh => Unasked(apiObj), SetOwner
  PROVE  /\ Trim(w') /\ Bare(w')
         /\ w'.pc \in Creates => Unasked(apiObj')
<1>1. w.pc = "own" /\ w.pc \in Creates
  BY DEF SetOwner, Creates
<1>2. /\ w.obj \in Objects /\ Unasked(w.obj) /\ w.obj.status.obs > 0 /\ w.obj.gen > 0
      /\ found \in FoundTypes /\ apiObj \in Objects
      /\ found.id # NoId => found.op # NoOp /\ found.state \in OperationStates
  BY <1>1, Beginning DEF IInv, TypeOK, CallsAreMeant, FoundIsTrue
<1>3. CASE /\ w.fresh /\ Write([apiObj EXCEPT !.owner = found.owner])
           /\ w' = AfterOwner(Returned(apiObj'), TRUE, found)
  <2>1. /\ apiObj' = [apiObj EXCEPT !.owner = found.owner] /\ apiObj' \in Objects
        /\ Unasked(apiObj')
    BY <1>2, <1>3 DEF Write, Objects, FoundTypes, Unasked, Polling
  <2>2. apiObj.gen = w.obj.gen
    BY <1>2, <1>3 DEF IInv, Held, Objects
  <2>3. apiObj'.gen > 0
    BY <1>2, <2>1, <2>2 DEF Objects
  <2>4. /\ Returned(apiObj') \in Objects /\ Unasked(Returned(apiObj'))
        /\ Returned(apiObj').status.obs > 0 /\ Returned(apiObj').gen > 0
    <3>1. ASSUME NEW a \in Objects, Unasked(a), a.gen > 0
          PROVE  /\ Returned(a) \in Objects /\ Unasked(Returned(a))
                 /\ Returned(a).status.obs > 0 /\ Returned(a).gen > 0
      <4>1. w.obj.status.obs \in Nat /\ a.status.obs \in Nat
        BY <1>2 DEF Objects, Statuses
      <4>2. CASE a.status.obs = 0
        <5>1. /\ Returned(a).status = [a.status EXCEPT !.obs = w.obj.status.obs]
              /\ Returned(a).gen = a.gen /\ Returned(a) \in Objects
          BY <4>1, <4>2 DEF Returned, Objects, Statuses
        <5>2. /\ Returned(a).status.obs = w.obj.status.obs
              /\ Returned(a).status.id = a.status.id /\ Returned(a).status.op = a.status.op
          BY <5>1 DEF Objects, Statuses
        <5> QED
          BY <1>2, <3>1, <5>1, <5>2 DEF Unasked, Polling
      <4>3. CASE a.status.obs # 0
        BY <3>1, <4>1, <4>3 DEF Returned
      <4> QED
        BY <4>2, <4>3
    <3> QED
      BY <2>1, <2>3, <3>1
  <2>5. ASSUME NEW o, o = Returned(apiObj') PROVE Trim(w') /\ Bare(w')
    <3>1. w' = AfterOwner(o, TRUE, found)
      BY <1>3, <2>5
    <3>2. o \in Objects /\ Unasked(o) /\ o.status.obs > 0 /\ o.gen > 0
      BY <2>4, <2>5
    <3> QED
      BY <1>2, <3>1, <3>2, AfterOwnerIsTrim
  <2> QED
    BY <2>1, <2>5
<1>4. CASE Save(setFailureConditions("CREATE", w.obj), "requeue")
  <2>1. Tidy(setFailureConditions("CREATE", w.obj)) /\ w'.pc = "status"
    BY <1>2, <1>4, SettersAreTidy, Turns DEF OperationCategories
  <2> QED
    BY <1>4, <2>1, SavedIsTrim DEF Creates
<1>5. CASE Requeue
  BY <1>5, OutIsTrim DEF Requeue, Idle, Creates
<1> QED
  BY <1>3, <1>4, <1>5, Zenon DEF SetOwner, Return

\* SM was asked for the binding.
LEMMA BindIsTrim ==
  ASSUME IInv, Born, Bare(w), Bind
  PROVE  Trim(w') /\ Bare(w')
<1>1. w.pc = "bind" /\ w.pc \in Creates
  BY DEF Bind, Creates
<1>2. w.obj \in Objects /\ Unasked(w.obj) /\ w.obj.status.obs > 0
  BY <1>1, Beginning
<1>3. \/ Goto("store", w.obj)
      \/ \E i \in FreeIDs : Save(InOperation("CREATE", i, 1, w.obj), "requeue")
      \/ Transient("CREATE") \/ NonTransient("CREATE")
  BY Zenon DEF Bind, Unanswered, Return
<1>4. CASE Goto("store", w.obj)
  BY <1>2, <1>4 DEF Goto, At, Trim, Bare, Creates, Unasked
<1>5. ASSUME NEW i \in FreeIDs, Save(InOperation("CREATE", i, 1, w.obj), "requeue")
      PROVE  Trim(w') /\ Bare(w')
  <2>1. i \in IDs /\ 1 \in Nat /\ "CREATE" \in OperationCategories
    BY DEF FreeIDs, OperationCategories
  <2>2. Tidy(InOperation("CREATE", i, 1, w.obj))
    BY <1>2, <2>1, AcceptedIsTidy
  <2> QED
    BY <1>5, <2>2, SavedIsTrim
<1>6. CASE Transient("CREATE") \/ NonTransient("CREATE")
  BY <1>2, <1>6, ErrorIsTrim DEF OperationCategories
<1> QED
  BY <1>3, <1>4, <1>5, <1>6

\* The credentials are stored, or not: the binding is created, or its creation failed.
LEMMA StoreIsTrim ==
  ASSUME IInv, Born, Trim(w), storeBindingSecret
  PROVE  Trim(w') /\ Bare(w')
<1>1. w.pc = "store" /\ w.pc # "idle"
  BY DEF storeBindingSecret
<1>2. /\ w.obj \in Objects /\ w.obj.gen > 0 /\ w.obj.status.obs > 0
      /\ Polling(w.obj) => w.obj.status.id # NoId /\ ~isInProgress(w.obj)
      /\ found \in FoundTypes /\ FoundIsTrue
  <2>1. w.obj \in Objects /\ Exists(w.obj) /\ w.obj \in Copies /\ found \in FoundTypes
    BY <1>1, Holding DEF IInv, Held, Copies
  <2> QED
    BY <1>1, <2>1 DEF Trim, Born, IInv
<1>3. \/ Requeue
      \/ Polling(w.obj) /\ Save(ClearOp(w.obj), "done")
      \/ ~Polling(w.obj) /\ found.op # NoOp /\ Save(resyncBindingStatus(w.obj, found), "done")
      \/ ~Polling(w.obj)
         /\ Save(setSuccessConditions("CREATE", [w.obj EXCEPT !.status.id = found.id]), "done")
      \/ \E type \in {found.op.type, "CREATE"} :
           /\ found.op # NoOp \/ type = "CREATE"
           /\ ~Polling(w.obj) /\ Save(setFailureConditions(type, w.obj), "requeue")
  BY DEF storeBindingSecret, Return, AfterStore, NotStored
<1>4. CASE Requeue
  BY <1>4, OutIsTrim DEF Requeue, Idle, Creates
<1>5. CASE Polling(w.obj) /\ Save(ClearOp(w.obj), "done")
  <2>1. /\ ClearOp(w.obj).status.id = w.obj.status.id /\ ~Polling(ClearOp(w.obj))
        /\ ClearOp(w.obj).status.obs = w.obj.status.obs
        /\ isInProgress(ClearOp(w.obj)) = isInProgress(w.obj)
    BY <1>2 DEF ClearOp, Objects, Statuses, Polling, isInProgress
  <2>2. Tidy(ClearOp(w.obj))
    BY <1>2, <1>5, <2>1 DEF Tidy
  <2> QED
    BY <1>5, <2>2, SavedIsTrim
<1>6. CASE ~Polling(w.obj) /\ found.op # NoOp /\ Save(resyncBindingStatus(w.obj, found), "done")
  <2>1. found.op.id = found.id /\ found.op.id \in IDs /\ found.state \in OperationStates
    BY <1>2, <1>6 DEF FoundIsTrue, FoundTypes, OpRefs
  <2>2. found.id # NoId
    BY <2>1, ServiceManagerAssumption
  <2>3. Tidy(resyncBindingStatus(w.obj, found))
    BY <1>2, <1>6, <2>1, <2>2, ResyncedIsTidy
  <2> QED
    BY <1>6, <2>3, SavedIsTrim
<1>7. CASE /\ ~Polling(w.obj)
           /\ Save(setSuccessConditions("CREATE", [w.obj EXCEPT !.status.id = found.id]), "done")
  <2>1. /\ [w.obj EXCEPT !.status.id = found.id] \in Objects
        /\ [w.obj EXCEPT !.status.id = found.id].status.obs > 0
        /\ ~Polling([w.obj EXCEPT !.status.id = found.id])
    BY <1>2, <1>7 DEF Objects, Statuses, FoundTypes, Polling
  <2>2. Tidy(setSuccessConditions("CREATE", [w.obj EXCEPT !.status.id = found.id]))
    BY <2>1, SettersAreTidy DEF OperationCategories
  <2> QED
    BY <1>7, <2>2, SavedIsTrim
<1>8. ASSUME NEW type, found.op # NoOp => type \in {found.op.type, "CREATE"},
             found.op # NoOp \/ type = "CREATE",
             ~Polling(w.obj) /\ Save(setFailureConditions(type, w.obj), "requeue")
      PROVE  Trim(w') /\ Bare(w')
  <2>1. type \in OperationCategories
    BY <1>2, <1>8 DEF FoundTypes, OpRefs, OperationCategories
  <2>2. Tidy(setFailureConditions(type, w.obj))
    BY <1>2, <1>8, <2>1, SettersAreTidy
  <2> QED
    BY <1>8, <2>2, SavedIsTrim
<1> QED
  BY <1>3, <1>4, <1>5, <1>6, <1>7, <1>8

\* The operation is polled: SM is rid of the binding, or it is tidy.
LEMMA PollIsTrim ==
  ASSUME IInv, Trim(w), ~w.obj.deleting, Poll
  PROVE  Bare(w') /\ (Trim(w') \/ (Removing(Removes))')
<1> DEFINE op == w.obj.status.op
           failed == setFailureConditions(op.type, w.obj)
           succeeded == setSuccessConditions(op.type, w.obj)
           unread == [w.obj EXCEPT !.status = freshStatus(w.obj, failed.status.cond)]
<1>1. /\ w.pc = "poll" /\ w.obj \in Objects /\ Polling(w.obj) /\ Tidy(w.obj)
  BY Holding DEF Poll, Trim, IInv, CallsAreMeant
<1>2. w.obj.status.id # NoId /\ w.obj.status.obs > 0 /\ op.type \in OperationCategories
  BY <1>1 DEF Tidy, Polling, Objects, Statuses, OpRefs
<1>3. \/ Requeue
      \/ Save(unread, "requeue")
      \/ Save(ClearOp(failed), "requeue") \/ Save(ClearOp(failed), "done")
      \/ Goto("fetch", succeeded)
      \/ removeBindingFromKubernetes(w.obj)
  BY DEF Poll
<1>4. CASE Requeue
  BY <1>4, OutIsTrim DEF Requeue, Idle, Creates
<1>5. CASE Save(unread, "requeue")
  <2>1. ~Polling(unread) /\ unread.status.id = NoId
    BY <1>1 DEF freshStatus, isDelete, EmptyStatus, Polling, Objects, NoOp
  <2>2. Tidy(unread)
    BY <2>1 DEF Tidy
  <2> QED
    BY <1>5, <2>2, SavedIsTrim
<1>6. CASE Save(ClearOp(failed), "requeue") \/ Save(ClearOp(failed), "done")
  <2>1. /\ ~Polling(ClearOp(failed)) /\ ClearOp(failed).status.obs = w.obj.status.obs
        /\ ~isInProgress(ClearOp(failed))
    BY <1>1 DEF ClearOp, setFailureConditions, WithConditions, Polling, Objects, Statuses, isInProgress
  <2>2. Tidy(ClearOp(failed))
    BY <1>2, <2>1 DEF Tidy
  <2> QED
    BY <1>6, <2>2, SavedIsTrim
<1>7. CASE Goto("fetch", succeeded)
  <2>1. /\ succeeded.status.id = w.obj.status.id /\ succeeded.status.obs = w.obj.status.obs
        /\ ~isInProgress(succeeded)
    BY <1>1 DEF setSuccessConditions, WithConditions, Objects, Statuses, isInProgress
  <2>2. w'.pc = "fetch" /\ w'.obj = succeeded
    BY <1>7 DEF Goto, At
  <2> QED
    BY <1>2, <2>1, <2>2 DEF Trim, Bare, Creates
<1>8. CASE removeBindingFromKubernetes(w.obj)
  BY <1>8, AsideTurns DEF Removing, Bare, Creates
<1> QED
  BY <1>3, <1>4, <1>5, <1>6, <1>7, <1>8

\* The binding that was created is fetched.
LEMMA FetchIsTrim ==
  ASSUME Trim(w), GetBindingByID
  PROVE  Trim(w') /\ Bare(w')
<1>1. CASE Goto("store", w.obj)
  BY <1>1 DEF GetBindingByID, Goto, At, Trim, Bare, Creates
<1>2. CASE Requeue
  BY <1>2, OutIsTrim DEF Requeue, Idle, Creates
<1> QED
  BY <1>1, <1>2 DEF GetBindingByID

\* Nothing is created in the course of a deletion.
LEMMA DeletionIsBare ==
  ASSUME RecoverForDelete \/ Unbind \/ deleteBindingSecret
  PROVE  Bare(w')
<1>1. \/ Requeue \/ Goto("deleteSecret", w.obj) \/ Goto("removeFinalizer", w.obj)
      \/ \E p, next : Save(p, next)
      \/ Transient("DELETE")
  BY Zenon DEF RecoverForDelete, Unbind, UnansweredDelete, deleteBindingSecret,
     removeBindingFromKubernetes
<1> QED
  BY <1>1, Turns DEF Bare, Creates

\* Where a Reconcile begins.
LEMMA DispatchIsTrim ==
  ASSUME NEW o \in Objects, o.gen > 0, NEW f, NEW x, x = Dispatch(o, f), Tidy(o) \/ o.deleting
  PROVE  /\ Bare(x) /\ (Trim(x) \/ o.deleting)
         /\ x.pc \in Creates => Unasked(o) /\ x.fresh = f
<1>1. CASE Polling(o)
  BY <1>1 DEF Dispatch, At, Bare, Trim, Creates
<1>2. CASE ~Polling(o) /\ o.deleting
  BY <1>2 DEF Dispatch, isDelete, DeleteCall, At, Idle, Bare, Creates
<1>3. CASE ~Polling(o) /\ ~o.deleting /\ (~o.finalizer \/ x = Idle)
  BY <1>3 DEF Dispatch, isDelete, At, Idle, Bare, Trim, Creates
<1>4. CASE ~Polling(o) /\ ~o.deleting /\ o.finalizer /\ x # Idle
  <2>1. x = At("instance", observe(o), f) /\ ~(o.status.obs > 0 /\ ~isInProgress(o))
    BY <1>4 DEF Dispatch, isDelete, Proceed
  <2>2. Unasked(o)
    BY <1>4, <2>1 DEF Tidy, Unasked
  <2>3. Unasked(observe(o)) /\ observe(o).status.obs > 0
    BY <2>2 DEF observe, Unasked, Polling, Objects, Statuses
  <2> QED
    BY <2>1, <2>2, <2>3 DEF At, Bare, Trim, Creates
<1> QED
  BY <1>1, <1>2, <1>3, <1>4 DEF Objects

\* Where it goes on when a status was written.
LEMMA ContinueIsTrim ==
  ASSUME NEW o \in Objects, o.gen > 0, NEW f, NEW next, next # "noClient",
         next = "init" => Unasked(o), NEW x, x = Continue(o, f, next)
  PROVE  /\ Bare(x) /\ Trim(x)
         /\ x.pc \in Creates => Unasked(o) /\ x.fresh = f
<1>1. CASE x = Idle \/ x = At("deleteSecret", o, f)
  BY <1>1 DEF Idle, At, Bare, Trim, Creates
<1>2. CASE next = "init" /\ x = At("instance", observe(o), f)
  <2>1. Unasked(observe(o)) /\ observe(o).status.obs > 0
    BY <1>2 DEF observe, Unasked, Polling, Objects, Statuses
  <2> QED
    BY <1>2, <2>1 DEF At, Bare, Trim, Creates
<1> QED
  BY <1>1, <1>2 DEF Continue, Proceed

\* Before SM was asked for anything nobody can have anything of it.
LEMMA NothingAsked ==
  ASSUME IInv, Used = {}, NEW o \in Copies
  PROVE  Unasked(o)
<1>1. Recorded(sm, o.status) /\ o \in Objects
  BY Parts, CopiesType DEF IInv, Truthful, BaseInv
<1>2. \A i \in IDs : sm[i].ops = <<>>
  BY DEF Used, FreeIDs
<1>3. o.status.id = NoId
  BY <1>1, <1>2 DEF Recorded, Objects, Statuses
<1>4. o.status.op = NoOp
  <2>1. CASE o.status.op # NoOp
    <3>1. o.status.op.id \in IDs /\ o.status.op.n \in DOMAIN sm[o.status.op.id].ops
      BY <1>1, <2>1 DEF Recorded, Objects, Statuses, OpRefs
    <3>2. sm[o.status.op.id].ops = <<>>
      BY <1>2, <3>1
    <3>3. DOMAIN <<>> = {}
      OBVIOUS
    <3> QED
      BY <3>1, <3>2, <3>3
  <2> QED
    BY <2>1
<1> QED
  BY <1>3, <1>4 DEF Unasked, Polling

\* Reconcile begins with the cache's copy.
LEMMA ReconcileIsTrim ==
  ASSUME IInv, Born, Tidied, Orderly, ClientFaults = FALSE, Reconcile
  PROVE  /\ Bare(w') /\ (Trim(w') \/ cache.deleting)
         /\ w'.pc \in Creates /\ w'.fresh => Unasked(apiObj')
<1>1. /\ BaseInv /\ cache \in Objects /\ cache \in Copies /\ UNCHANGED apiObj
      /\ Version(0) = cache /\ 0 \in 0..Len(watch)
  BY Parts, LastVersion DEF BaseInv, BaseTypes, Copies, Reconcile, ReconcileWith
<1>2. CASE UNCHANGED w
  <2>1. w.pc = "idle"
    BY DEF Reconcile, ReconcileWith
  <2> QED
    BY <1>2, <2>1, OutIsTrim DEF Creates
<1>3. CASE Exists(cache) /\ w' = Dispatch(cache, watch = <<>>)
  <2>1. cache.gen > 0 /\ (Tidy(cache) \/ cache.deleting)
    BY <1>1, <1>3 DEF Born, Tidied
  <2>2. /\ Bare(w') /\ (Trim(w') \/ cache.deleting)
        /\ w'.pc \in Creates => Unasked(cache) /\ w'.fresh = (watch = <<>>)
    BY <1>1, <1>3, <2>1, DispatchIsTrim
  <2>3. watch = <<>> => cache = apiObj
    BY <1>1, CacheIsCurrent DEF BaseInv
  <2> QED
    BY <1>1, <2>2, <2>3
<1> QED
  BY <1>2, <1>3, Zenon DEF Reconcile, ReconcileWith

\* The first attempt to write a status.
LEMMA StatusUpdateIsTrim ==
  ASSUME IInv, Born, Infant, Orderly, StatusUpdate
  PROVE  /\ Bare(w') /\ (Trim(w) => Trim(w'))
         /\ w'.pc \in Creates => Unasked(apiObj')
<1>1. /\ w.pc = "status" /\ w.obj \in Objects /\ Exists(w.obj) /\ w.obj \in Copies /\ w \in Workers
      /\ apiObj \in Objects
  BY Holding, Parts DEF StatusUpdate, StatusUpdateThen, Copies, BaseInv, BaseTypes
<1>2. CASE /\ w.fresh /\ Write([apiObj EXCEPT !.status = w.obj.status])
           /\ w' = Continue(apiObj', TRUE, w.next)
  <2>1. apiObj' = w.obj /\ Exists(apiObj)
    BY <1>1, <1>2 DEF IInv, Held, Write, Exists, Objects
  <2>2. w.next = "init" => Unasked(w.obj)
    BY <1>1, <2>1, NothingAsked DEF Infant, Setting
  <2>3. w.obj.gen > 0 /\ w.next # "noClient"
    BY <1>1 DEF Born, Orderly
  <2>4. w' = Continue(w.obj, TRUE, w.next)
    BY <1>2, <2>1
  <2>5. ASSUME NEW f, f = TRUE
        PROVE  /\ Bare(w') /\ Trim(w')
               /\ w'.pc \in Creates => Unasked(w.obj)
    <3>1. w' = Continue(w.obj, f, w.next)
      BY <2>4, <2>5
    <3> QED
      BY <1>1, <2>2, <2>3, <3>1, ContinueIsTrim
  <2> QED
    BY <2>1, <2>5
<1>3. CASE w' = [w EXCEPT !.try = 2]
  <2>1. w'.pc = w.pc /\ w'.obj = w.obj
    BY <1>1, <1>3 DEF Workers
  <2> QED
    BY <1>1, <2>1 DEF Bare, Trim, Creates
<1> QED
  BY <1>2, <1>3, Zenon DEF StatusUpdate, StatusUpdateThen

\* A later attempt goes on with what the cache shows.
LEMMA StatusRetryIsTrim ==
  ASSUME IInv, Born, Infant, Tidied, Orderly, StatusRetry
  PROVE  /\ Bare(w') /\ (Trim(w) => Trim(w') \/ cache.deleting)
         /\ w'.pc \in Creates /\ w'.fresh => Unasked(apiObj')
<1>1. /\ w.pc = "status" /\ w.obj \in Objects /\ w \in Workers
      /\ cache \in Objects /\ cache \in Copies /\ apiObj \in Objects
      /\ Version(0) = cache /\ 0 \in 0..Len(watch) /\ w.next # "noClient"
  BY Holding, Parts, LastVersion
     DEF StatusRetry, StatusRetryThen, Copies, BaseInv, BaseTypes, Orderly
<1>2. CASE /\ Exists(cache) /\ watch = <<>>
           /\ Write([cache EXCEPT !.status = w.obj.status])
           /\ w' = Continue(cache, cache.status = w.obj.status, w.next)
  <2>1. apiObj = cache
    BY <1>2, CacheIsCurrent DEF IInv
  <2>2. w.next = "init" => Unasked(cache)
    BY <1>1, <1>2, <2>1, NothingAsked DEF Infant, Setting
  <2>3. cache.gen > 0 /\ (cache.status = w.obj.status) \in BOOLEAN
    BY <1>1, <1>2 DEF Born
  <2>4. ASSUME NEW f, f = (cache.status = w.obj.status)
        PROVE  /\ Bare(w') /\ Trim(w')
               /\ w'.pc \in Creates => Unasked(cache) /\ w'.fresh = f
    <3>1. w' = Continue(cache, f, w.next)
      BY <1>2, <2>4
    <3> QED
      BY <1>1, <2>2, <2>3, <3>1, ContinueIsTrim
  <2>5. apiObj'.status = w.obj.status
    BY <1>1, <1>2 DEF Write, Objects
  <2>6. cache.status = w.obj.status /\ Unasked(cache) => Unasked(apiObj')
    BY <2>5 DEF Unasked, Polling
  <2> QED
    BY <2>4, <2>6
<1>3. ASSUME NEW o \in {w.obj, cache}, NEW f, o = cache => Exists(cache) \/ w.obj = cache,
             \/ w' = GiveUp(o, f, w.next)
             \/ w' = [w EXCEPT !.obj = o, !.fresh = f, !.try = @ + 1]
      PROVE  /\ Bare(w') /\ (Trim(w) => Trim(w') \/ cache.deleting)
             /\ w'.pc \notin Creates
  <2>1. CASE w' = Idle
    BY <2>1, OutIsTrim DEF Idle, Creates
  <2>2. CASE w'.pc = "status" /\ w'.obj = o
    <3>1. Trim(w) => Tidy(w.obj)
      BY <1>1 DEF Trim
    <3>2. Exists(cache) => Tidy(cache) \/ cache.deleting
      BY <1>1 DEF Tidied
    <3> QED
      BY <1>3, <2>2, <3>1, <3>2 DEF Bare, Trim, Creates
  <2>3. w' = [w EXCEPT !.obj = o, !.fresh = f, !.try = @ + 1] => w'.pc = "status" /\ w'.obj = o
    BY <1>1 DEF Workers
  <2> QED
    BY <1>1, <1>3, <2>1, <2>2, <2>3 DEF GiveUp
<1>4. ASSUME LET o == IF Exists(cache) THEN cache ELSE w.obj
                 f == Exists(cache) /\ watch = <<>>
             IN w' = [w EXCEPT !.obj = o, !.fresh = f, !.try = @ + 1] \/ w' = GiveUp(o, f, w.next)
      PROVE  /\ Bare(w') /\ (Trim(w) => Trim(w') \/ cache.deleting)
             /\ w'.pc \notin Creates
  <2> DEFINE o == IF Exists(cache) THEN cache ELSE w.obj
             f == Exists(cache) /\ watch = <<>>
  <2>1. o \in {w.obj, cache} /\ (o = cache => Exists(cache) \/ w.obj = cache)
    OBVIOUS
  <2>2. w' = [w EXCEPT !.obj = o, !.fresh = f, !.try = @ + 1] \/ w' = GiveUp(o, f, w.next)
    BY <1>4
  <2> HIDE DEF o, f
  <2> QED
    BY <1>3, <2>1, <2>2
<1>5. \/ /\ Exists(cache) /\ watch = <<>>
         /\ Write([cache EXCEPT !.status = w.obj.status])
         /\ w' = Continue(cache, cache.status = w.obj.status, w.next)
      \/ LET o == IF Exists(cache) THEN cache ELSE w.obj
             f == Exists(cache) /\ watch = <<>>
         IN w' = [w EXCEPT !.obj = o, !.fresh = f, !.try = @ + 1] \/ w' = GiveUp(o, f, w.next)
  BY Zenon DEF StatusRetry, StatusRetryThen
<1> QED
  BY <1>2, <1>4, <1>5

\* init begins with a resource SM was asked nothing for, or with one that is gone.
LEMMA InitFinalizerIsTrim ==
  ASSUME IInv, Infant, InitFinalizer
  PROVE  Bare(w') /\ (Trim(w') \/ (Exists(w.obj) /\ ~Exists(cache)))
<1>1. BaseInv /\ Held /\ apiObj \in Objects /\ apiObj \in Copies
  BY Parts DEF BaseInv, BaseTypes, Copies
<1>2. w.pc = "addFinalizer" /\ Exists(w.obj)
  BY <1>1 DEF InitFinalizer, AddFinalizer, Held
<1>3. CASE w' = Idle
  BY <1>3, OutIsTrim DEF Idle, Creates
<1>4. CASE /\ w'.pc = "status" /\ Exists(apiObj)
           /\ Restates(w'.obj, apiObj') /\ apiObj' = [apiObj EXCEPT !.finalizer = TRUE]
  <2>1. Unasked(apiObj)
    BY <1>1, <1>2, <1>4, NothingAsked DEF Infant
  <2>2. apiObj'.status = apiObj.status
    BY <1>1, <1>4 DEF Objects
  <2>3. Tidy(w'.obj)
    BY <1>4, <2>1, <2>2 DEF Restates, Tidy, Unasked, Polling
  <2> QED
    BY <1>4, <2>3 DEF Bare, Trim, Creates
<1>5. CASE w'.pc = "status" /\ ~Exists(cache)
  BY <1>2, <1>5 DEF Bare, Creates
<1> QED
  BY <1>1, <1>3, <1>4, <1>5, AddFinalizerOutcome DEF InitFinalizer

\* The worker stays in order, or the resource is to go.
LEMMA WorkerIsOrderly ==
  ASSUME MaxLives <= 1, Names = {K8sName}, DropsFailed = FALSE, "list" \notin SMFaults,
         ClientFaults = FALSE, GInv, Born, Infant, Tidied, Orderly, Worker
  PROVE  Orderly'
<1>1. [Next]_vars
  BY DEF Next
<1>2. IInv /\ IInv' /\ OneStep(Calls) /\ GInv'
  BY <1>1, NextIInv, StepIsOne, NextGInv DEF GInv
<1>3. /\ Doomed => Doomed'
      /\ w.obj.deleting => Doomed
      /\ Exists(w.obj) /\ ~Exists(cache) => Vanished
      /\ Removing(Removes) => Doomed
      /\ w.pc = "recoverForDelete" => w.obj.deleting
      /\ w.pc = "unbind" => w.obj.deleting
  BY <1>2, OneStepFacts DEF GInv, OneLife, IInv, CallsAreMeant
<1>4. cache.deleting => Doomed
  <2>1. cache.deleting => Exists(cache)
    BY <1>2 DEF IInv, DeletionIsFinal, Copies
  <2> QED
    BY <1>2, <2>1, OneStepFacts
<1>5. Removing(Removes)' => Doomed'
  BY <1>2 DEF GInv, OneLife
<1>6. Vanished => Doomed
  BY DEF Vanished, Doomed
<1>7. /\ Bare(w) /\ (Trim(w) \/ Doomed) /\ w.next # "noClient"
      /\ w.pc \in Creates /\ w.fresh => Unasked(apiObj)
  BY DEF Orderly
<1>8. w'.next # "noClient"
  BY <1>2, <1>7, WorkersNext
<1> SUFFICES /\ Bare(w')
             /\ w'.pc \in Creates /\ w'.fresh => Unasked(apiObj')
             /\ Trim(w') \/ Doomed'
  BY <1>8 DEF Orderly
<1>9. CASE ReadInstance \/ Recover
  <2>1. w.pc \in {"instance", "recover"} /\ UNCHANGED apiObj
    <3>1. CASE ReadInstance
      <4>1. w.pc = "instance"
        BY <3>1, Zenon DEF ReadInstance
      <4>2. UNCHANGED apiObj
        BY <3>1, Zenon DEF ReadInstance, Restart
      <4> QED
        BY <4>1, <4>2
    <3>2. CASE Recover
      <4>1. w.pc = "recover"
        BY <3>2, Zenon DEF Recover
      <4>2. UNCHANGED apiObj
        BY <1>2, <3>2, CallsAreQuiet DEF Call
      <4> QED
        BY <4>1, <4>2
    <3> QED
      BY <1>9, <3>1, <3>2
  <2>3. w.pc \in Creates
    BY <2>1 DEF Creates
  <2>2. w'.fresh => w.fresh
    <3>1. Idle.fresh = FALSE
      BY DEF Idle
    <3> QED
      BY <1>2, <1>9, <3>1, ReadInstanceStep, RecoverStep DEF Moves, Goes, Carries, Restart
  <2> QED
    BY <1>2, <1>7, <1>9, <2>1, <2>2, <2>3, ReadInstanceIsTrim, RecoverIsTrim
<1>10. CASE SetOwner
  <2>1. w.pc \in Creates
    BY <1>10 DEF SetOwner, Creates
  <2> QED
    BY <1>2, <1>7, <1>10, <2>1, SetOwnerIsTrim
<1>11. CASE Bind \/ storeBindingSecret \/ Poll \/ GetBindingByID \/ RecoverForDelete \/ Unbind
            \/ deleteBindingSecret
  <2>1. Bare(w') /\ (Trim(w') \/ Doomed')
    <3>1. CASE Bind
      BY <1>2, <1>7, <3>1, BindIsTrim
    <3>2. CASE storeBindingSecret /\ Trim(w)
      BY <1>2, <3>2, StoreIsTrim
    <3>3. CASE GetBindingByID /\ Trim(w)
      BY <3>3, FetchIsTrim
    <3>4. CASE Poll /\ Trim(w) /\ ~w.obj.deleting
      BY <1>2, <1>5, <3>4, PollIsTrim
    <3>5. CASE RecoverForDelete \/ Unbind \/ deleteBindingSecret
      <4>1. Doomed
        BY <1>3, <3>5 DEF RecoverForDelete, Unbind, deleteBindingSecret, Removing, Removes
      <4> QED
        BY <1>3, <3>5, <4>1, DeletionIsBare
    <3>6. CASE Doomed /\ (storeBindingSecret \/ GetBindingByID \/ Poll)
      <4>1. w'.pc \notin Creates
        <5>1. ~(ReadInstance \/ Recover \/ SetOwner)
          BY <3>6 DEF storeBindingSecret, GetBindingByID, Poll, ReadInstance, Recover, SetOwner
        <5> QED
          BY <3>6, <5>1, CallsGoOn DEF Call
      <4> QED
        BY <1>3, <3>6, <4>1 DEF Bare
    <3> QED
      BY <1>3, <1>7, <1>11, <3>1, <3>2, <3>3, <3>4, <3>5, <3>6
  <2>2. w'.pc \notin Creates
    <3>1. ~(ReadInstance \/ Recover \/ SetOwner)
      BY <1>11 DEF Bind, storeBindingSecret, GetBindingByID, Poll, RecoverForDelete, Unbind,
         deleteBindingSecret, ReadInstance, Recover, SetOwner
    <3> QED
      BY <1>11, <3>1, CallsGoOn DEF Call
  <2> QED
    BY <2>1, <2>2
<1>12. CASE Reconcile
  BY <1>2, <1>3, <1>4, <1>12, ReconcileIsTrim
<1>13. CASE StatusUpdate
  BY <1>2, <1>3, <1>7, <1>13, StatusUpdateIsTrim
<1>14. CASE StatusRetry
  BY <1>2, <1>3, <1>4, <1>7, <1>14, StatusRetryIsTrim
<1>15. CASE InitFinalizer
  <2>1. w'.pc = "status" \/ w' = Idle
    BY <1>2, <1>15, Parts, AddFinalizerOutcome DEF InitFinalizer
  <2>3. w'.pc \notin Creates
    BY <2>1 DEF Idle, Creates
  <2> QED
    BY <1>2, <1>3, <1>6, <1>15, <2>3, InitFinalizerIsTrim
<1>16. CASE DropFinalizer
  <2>1. w'.pc \notin Creates
    BY <1>2, <1>16, Parts, RemoveFinalizerOutcome DEF DropFinalizer, Idle, Creates
  <2>2. Doomed
    BY <1>3, <1>16 DEF DropFinalizer, RemoveFinalizer, Removing, Removes
  <2> QED
    BY <1>3, <2>1, <2>2 DEF Bare
<1> QED
  BY <1>9, <1>10, <1>11, <1>12, <1>13, <1>14, <1>15, <1>16 DEF Worker

\* What the status of a resource that stays comes from.
LEMMA StatusComesFrom ==
  ASSUME IInv, [Next]_vars, Exists(apiObj')
  PROVE  \/ Exists(apiObj) /\ (apiObj'.status = apiObj.status \/ apiObj'.deleting)
         \/ (StatusUpdate \/ StatusRetry) /\ apiObj'.status = w.obj.status
         \/ apiObj'.status = EmptyStatus
         \/ UNCHANGED apiObj
<1> DEFINE Goal == \/ Exists(apiObj) /\ (apiObj'.status = apiObj.status \/ apiObj'.deleting)
                   \/ (StatusUpdate \/ StatusRetry) /\ apiObj'.status = w.obj.status
                   \/ apiObj'.status = EmptyStatus
                   \/ UNCHANGED apiObj
<1>1. BaseInv /\ Held /\ apiObj \in Objects
  BY Parts DEF BaseInv, BaseTypes
<1>2. ~Exists(NoObject)
  BY DEF NoObject, Exists
<1>3. CASE Call \/ Around \/ Reconcile \/ ReadInstance \/ Deliver \/ Stop
  BY <1>3, CallsAreQuiet, AroundIsQuiet
     DEF Reconcile, ReconcileWith, ReadInstance, Deliver, Stop, Restart
<1>4. CASE StatusUpdate \/ StatusRetry
  <2>1. cache \in Objects
    BY <1>1 DEF BaseInv, BaseTypes
  <2>2. \/ UNCHANGED apiObj
        \/ apiObj' = [apiObj EXCEPT !.status = w.obj.status]
        \/ apiObj' = [cache EXCEPT !.status = w.obj.status]
    BY <1>4 DEF StatusUpdate, StatusUpdateThen, StatusRetry, StatusRetryThen, Write
  <2> QED
    BY <1>1, <1>4, <2>1, <2>2 DEF Objects
<1>5. CASE InitFinalizer
  <2>1. UNCHANGED apiObj \/ (apiObj' = [apiObj EXCEPT !.finalizer = TRUE] /\ Exists(apiObj))
    BY <1>1, <1>5, AddFinalizerOutcome DEF InitFinalizer
  <2> QED
    BY <1>1, <2>1 DEF Objects
<1>6. CASE DropFinalizer
  <2>1. UNCHANGED apiObj \/ apiObj' = Released(apiObj)
    BY <1>1, <1>6, RemoveFinalizerOutcome DEF DropFinalizer
  <2> QED
    BY <1>1, <1>2, <2>1 DEF Released, Objects, Exists
<1>7. CASE SetOwner
  <2>1. UNCHANGED apiObj \/ apiObj' = [apiObj EXCEPT !.owner = found.owner]
    BY <1>7, Zenon DEF SetOwner, Write
  <2> QED
    BY <1>1, <2>1 DEF Objects, Exists
<1>8. CASE UserDelete
  <2>1. Exists(apiObj) /\ (apiObj' = NoObject \/ apiObj' = [apiObj EXCEPT !.deleting = TRUE])
    BY <1>8 DEF UserDelete, Write
  <2> QED
    BY <1>1, <1>2, <2>1 DEF Objects
<1>9. ASSUME NEW name, NEW s, UserCreate(name, s) PROVE Goal
  BY <1>9 DEF UserCreate, Write, NoObject
<1>10. ASSUME NEW name, NEW s, UserEdit(name, s) PROVE Goal
  BY <1>1, <1>10 DEF UserEdit, Write, Objects
<1> QED
  BY <1>3, <1>4, <1>5, <1>6, <1>7, <1>8, <1>9, <1>10, StepsThereAre, UserActs

\* A version that stays is one the worker left tidy, or a new one.
LEMMA ResourceIsTidy ==
  ASSUME IInv, [Next]_vars, Tidied, Trim(w) \/ ~(StatusUpdate \/ StatusRetry),
         Exists(apiObj'), ~apiObj'.deleting
  PROVE  Tidy(apiObj')
<1>1. BaseInv /\ Kinds
  BY Parts, KindsOfSteps
<1>2. Exists(apiObj) => ~apiObj.deleting
  BY <1>1 DEF Kinds, Undisturbed, Rewritten, Begun, Deliver, Restart, Write, Exists
<1>3. Exists(apiObj) => Tidy(apiObj)
  BY <1>1, <1>2, LastVersion DEF Tidied
<1>4. \A o, p : o.status = p.status /\ Tidy(p) => Tidy(o)
  BY DEF Tidy, Polling, isInProgress
<1>5. CASE Exists(apiObj) /\ apiObj'.status = apiObj.status
  BY <1>3, <1>4, <1>5
<1>6. CASE (StatusUpdate \/ StatusRetry) /\ apiObj'.status = w.obj.status
  <2>1. w.pc = "status"
    BY <1>6 DEF StatusUpdate, StatusUpdateThen, StatusRetry, StatusRetryThen
  <2> QED
    BY <1>4, <1>6, <2>1 DEF Trim
<1>7. CASE apiObj'.status = EmptyStatus
  BY <1>7 DEF Tidy, Polling, EmptyStatus
<1>8. CASE UNCHANGED apiObj
  BY <1>3, <1>8
<1> QED
  BY <1>5, <1>6, <1>7, <1>8, StatusComesFrom

\* Nobody but the worker puts it out of order.
LEMMA OthersKeepOrder ==
  ASSUME IInv, Orderly, Doomed => Doomed',
         \/ User \/ CollectBinding \/ Secrets \/ Instance \/ Informer \/ Stop
         \/ ServiceManagerStep \/ UNCHANGED vars
  PROVE  Orderly'
<1>1. w \in Workers
  BY Parts
<1>2. CASE w' = Idle
  BY <1>2 DEF Orderly, Bare, Trim, Idle, Creates
<1>3. CASE /\ w'.pc = w.pc /\ w'.next = w.next /\ w'.obj = w.obj
           /\ w'.fresh => w.fresh /\ UNCHANGED apiObj
  <2>1. (Bare(w) => Bare(w')) /\ (Trim(w) => Trim(w'))
    BY <1>3 DEF Bare, Trim
  <2> QED
    BY <1>3, <2>1 DEF Orderly
<1> QED
  BY <1>1, <1>2, <1>3, OthersLeaveWorker

LEMMA OrderlyKept ==
  ASSUME MaxLives <= 1, Names = {K8sName}, DropsFailed = FALSE, "list" \notin SMFaults,
         ClientFaults = FALSE, GInv, Born, Infant, Tidied, Orderly, [Prompt]_vars
  PROVE  Orderly'
<1>1. [Next]_vars /\ IInv
  BY PromptSteps DEF GInv
<1>2. OneStep(Calls)
  BY <1>1, StepIsOne
<1>3. Doomed => Doomed'
  BY <1>2, OneStepFacts
<1> QED
  BY <1>1, <1>3, PromptSteps, WorkerIsOrderly, OthersKeepOrder

LEMMA TidiedKept ==
  ASSUME MaxLives <= 1, Names = {K8sName}, DropsFailed = FALSE, GInv, Tidied, Orderly,
         [Next]_vars
  PROVE  Tidied'
<1>1. IInv /\ IInv' /\ OneStep(Calls)
  BY NextIInv, StepIsOne DEF GInv
<1>2. BaseInv /\ BaseInv' /\ Kinds /\ (Doomed => Doomed')
  BY <1>1, OneStepFacts, Parts
<1>3. Exists(apiObj)' /\ ~apiObj'.deleting => Tidy(apiObj')
  <2>2. \E n \in 0..Len(watch') : apiObj' = Version(n)'
    BY <1>2 DEF BaseInv, CacheFollows, Version, BaseTypes
  <2>1. Doomed' => ~Exists(apiObj') \/ apiObj'.deleting
    BY <2>2 DEF Doomed, Exists
  <2> QED
    BY <1>1, <1>2, <2>1, ResourceIsTidy DEF Orderly
<1>4. ASSUME NEW k \in 0..Len(watch'), Exists(Version(k)'), ~Version(k)'.deleting
      PROVE  Tidy(Version(k)')
  <2>1. CASE Version(k)' = apiObj'
    BY <1>3, <1>4, <2>1
  <2>2. ASSUME NEW j \in 0..Len(watch), Version(k)' = Version(j) PROVE Tidy(Version(k)')
    BY <1>4, <2>2 DEF Tidied
  <2> QED
    BY <1>2, <2>1, <2>2, NewVersions
<1> QED
  BY <1>4 DEF Tidied

\* What holds from the beginning of an incarnation on, in any order of the steps in
\* which a binding is reconciled only when its finalizer is seen.
UInv == GInv /\ Born /\ Infant /\ Tidied /\ Orderly

LEMMA InitUInv == Init => UInv
<1> SUFFICES ASSUME Init PROVE UInv
  OBVIOUS
<1>1. IInv /\ GInv
  BY InitIInv, InitGInv
<1>2. apiObj = NoObject /\ cache = NoObject /\ watch = <<>> /\ w = Idle /\ ~Exists(NoObject)
  BY DEF Init, NoObject, Exists
<1>3. Born
  BY <1>2 DEF Born, Copies, Idle
<1>4. Infant
  BY <1>2 DEF Infant, Idle
<1>5. Tidied
  <2>1. Version(0) = NoObject /\ Len(watch) = 0
    BY <1>2 DEF Version
  <2> QED
    BY <1>2, <2>1 DEF Tidied
<1>6. Orderly
  BY <1>2 DEF Orderly, Bare, Trim, Idle, Creates
<1> QED
  BY <1>1, <1>3, <1>4, <1>5, <1>6 DEF UInv

LEMMA NextUInv ==
  ASSUME MaxLives <= 1, Names = {K8sName}, DropsFailed = FALSE, "list" \notin SMFaults,
         ClientFaults = FALSE
  PROVE  UInv /\ [Prompt]_vars => UInv'
<1> SUFFICES ASSUME UInv, [Prompt]_vars PROVE UInv'
  OBVIOUS
<1>1. [Next]_vars /\ IInv
  BY PromptSteps DEF UInv, GInv
<1>2. GInv' /\ Born' /\ Infant'
  BY <1>1, NextGInv, BornKept, InfantKept DEF UInv
<1>3. Tidied' /\ Orderly'
  BY <1>1, TidiedKept, OrderlyKept DEF UInv
<1> QED
  BY <1>2, <1>3 DEF UInv

\* The last line of createOrUpdate is never reached: a binding that has an id is either
\* observed, in progress only as long as there is an operation to poll, or to be deleted,
\* so that Reconcile returns before it. It is reached only if the cache does not show
\* the finalizer (PromptSpec excludes it) or no client can be had before the first
\* reconciliation, and so both must be excluded.
THEOREM LastLineIsUnreached ==
  ASSUME MaxLives <= 1, Names = {K8sName}, DropsFailed = FALSE, "list" \notin SMFaults,
         ClientFaults = FALSE
  PROVE  PromptSpec => []UpdateLineUnreached
<1>1. UInv => UpdateLineUnreached
  BY DEF UInv, Orderly, Bare, Unasked, Creates, UpdateLineUnreached
<1>2. UInv /\ [Prompt]_vars => UInv'
  BY NextUInv
<1> QED
  BY <1>1, <1>2, InitUInv, PTL DEF PromptSpec

------------------------------------------------------------------------------
(* Nothing is forgotten *)

\* What the worker is at when nothing is owed: its copy is fresh, and what it does
\* next leaves the binding settled, or asks for another Reconcile, or changes the
\* resource.
OnItsWay ==
  LET o == w.obj
      st == apiObj.status
  IN /\ w.fresh /\ w.try < 2
     /\ w.pc = "status" =>
          /\ w.next \in {"done", "requeue", "finalize"}
          /\ w.next = "done" => o.status # st \/ Settled(o)
     /\ w.pc = "poll" => o.status = st
     /\ w.pc = "fetch" => Polling(o)
     /\ w.pc \in {"fetch", "store"} =>
          IF Polling(o) THEN st.op # NoOp ELSE st.id = NoId /\ found.id # NoId
     /\ w.pc \in Creates => ~o.deleting
     /\ w.pc = "recoverForDelete" => st.id = NoId
     /\ w.pc = "addFinalizer" => ~o.finalizer

\* What is not owed is settled, or the worker is at it.
Ahead == IF w.pc = "idle" THEN Settled(apiObj) ELSE OnItsWay
Heeded == Marked /\ (Owed \/ Ahead)

\* A call that ends in a status update keeps it.
LEMMA SavedIsHeeded ==
  ASSUME NEW o, NEW next \in {"done", "requeue", "finalize"}, Save(o, next), w.fresh,
         UNCHANGED apiObj, next = "done" => o.status # apiObj.status \/ Settled(o)
  PROVE  Ahead'
<1>1. /\ w'.pc = "status" /\ w'.obj = o /\ w'.fresh /\ w'.try = 1 /\ w'.next = next
  BY DEF Save, Saving
<1> QED
  BY <1>1 DEF Ahead, OnItsWay, Settled, Polling, isInProgress, Creates

\* One that goes on with the same copy, too.
LEMMA GoneIsHeeded ==
  ASSUME NEW pc, NEW o, Goto(pc, o), w.fresh, UNCHANGED apiObj,
         pc \notin {"idle", "status", "poll", "recoverForDelete", "addFinalizer"},
         pc = "fetch" => Polling(o),
         pc \in {"fetch", "store"} =>
           IF Polling(o) THEN apiObj.status.op # NoOp ELSE apiObj.status.id = NoId /\ found'.id # NoId,
         pc \in Creates => ~o.deleting
  PROVE  Ahead'
<1>1. w'.pc = pc /\ w'.obj = o /\ w'.fresh /\ w'.try = 0 /\ apiObj' = apiObj
  BY DEF Goto, At
<1> QED
  BY <1>1 DEF Ahead, OnItsWay, Polling

\* A binding that is blocked is settled, and one whose failure is final.
LEMMA EndedIsSettled ==
  ASSUME NEW o \in Objects, NEW type \in OperationCategories,
         ~Polling(o), ~o.deleting, o.status.obs > 0, o.gen > 0
  PROVE  /\ Settled(markAsNonTransientError(type, o))
         /\ Settled(setBlockedCondition(o))
<1>1. ASSUME NEW c, c.ready = "True" \/ c.failed \/ c.reason = "Blocked",
             NEW p, p = WithConditions(o, c)
      PROVE  Settled(p) /\ Settled(observe(p))
  BY <1>1 DEF Settled, WithConditions, observe, Polling, isInProgress, Objects, Statuses
<1> QED
  BY <1>1 DEF markAsNonTransientError, setBlockedCondition, setFailureConditions

\* Clearing the operation, and taking the id that was found, make another status.
LEMMA NewStatus ==
  ASSUME NEW o \in Objects
  PROVE  /\ ClearOp(o).status.op = NoOp
         /\ \A f \in FoundTypes : f.state \in OperationStates =>
              resyncBindingStatus(o, f).status.id = f.id
         /\ \A i \in IDs :
              /\ setSuccessConditions("CREATE", [o EXCEPT !.status.id = i]).status.id = i
              /\ setInProgressCondition("DELETE", [o EXCEPT !.status.id = i]).status.id = i
         /\ \A type : setSuccessConditions(type, o).status.op = o.status.op
<1>1. ASSUME NEW p \in Objects, NEW c
      PROVE  /\ WithConditions(p, c).status.id = p.status.id
             /\ WithConditions(p, c).status.op = p.status.op
  BY DEF WithConditions, Objects, Statuses
<1>2. ClearOp(o).status.op = NoOp
  BY DEF ClearOp, Objects, Statuses
<1>3. ASSUME NEW f \in FoundTypes, f.state \in OperationStates
      PROVE  resyncBindingStatus(o, f).status.id = f.id
  BY <1>3 DEF setSuccessConditions, setInProgressCondition, setFailureConditions, InOperation,
     WithConditions, Objects, Statuses, resyncBindingStatus, OperationStates, FoundTypes
<1>4. ASSUME NEW i \in IDs
      PROVE  /\ setSuccessConditions("CREATE", [o EXCEPT !.status.id = i]).status.id = i
             /\ setInProgressCondition("DELETE", [o EXCEPT !.status.id = i]).status.id = i
  <2>1. [o EXCEPT !.status.id = i] \in Objects /\ [o EXCEPT !.status.id = i].status.id = i
    BY DEF Objects, Statuses
  <2> QED
    BY <1>1, <2>1 DEF setSuccessConditions, setInProgressCondition
<1>5. \A type : setSuccessConditions(type, o).status.op = o.status.op
  BY <1>1 DEF setSuccessConditions
<1> QED
  BY <1>2, <1>3, <1>4, <1>5

\* What recovery found is taken over, or there is nothing and it is created.
LEMMA AfterOwnerIsHeeded ==
  ASSUME NEW o \in Objects, ~o.deleting, ~Polling(o), UNCHANGED apiObj, NEW fresh, fresh = TRUE,
         apiObj.status.id = NoId, NEW f \in FoundTypes, found' = f,
         f.id # NoId => f.state \in OperationStates, w' = AfterOwner(o, fresh, f)
  PROVE  Ahead'
<1>1. CASE f.id = NoId /\ w' = At("bind", o, fresh)
  BY <1>1 DEF Ahead, OnItsWay, At
<1>2. CASE f.id # NoId /\ w' = At("store", o, fresh)
  BY <1>2 DEF Ahead, OnItsWay, At, Polling, Creates
<1>3. ASSUME NEW p, p = resyncBindingStatus(o, f), f.id # NoId, w' = Saving(p, fresh, "done")
      PROVE  Ahead'
  <2>1. p.status.id = f.id
    BY <1>3, NewStatus
  <2>2. p.status # apiObj.status
    BY <1>3, <2>1
  <2> QED
    BY <1>3, <2>2 DEF Saving, Ahead, OnItsWay, Creates
<1> QED
  BY <1>1, <1>2, <1>3 DEF AfterOwner

\* What recovery has found has an operation.
LEMMA FoundHasOperation ==
  ASSUME IInv, Recover, found'.id # NoId
  PROVE  found'.op # NoOp
<1>1. CASE UNCHANGED found
  BY <1>1 DEF Recover, IInv, CallsAreMeant
<1>2. ASSUME NEW i \in IDs, found' = Recovered(i) PROVE found'.op # NoOp
  <2>1. found'.op.id = i /\ i # NoId
    BY <1>2, Holding, ServiceManagerAssumption DEF Recovered, FoundTypes
  <2> QED
    BY <2>1 DEF NoOp
<1> QED
  BY <1>1, <1>2 DEF Recover

\* The calls: each ends in a status that is new, settled, or tried again.
LEMMA CallsAreHeeded ==
  ASSUME IInv, IInv', Born, Orderly, w.pc # "idle", Ahead, UNCHANGED apiObj, ~queued', Call
  PROVE  Ahead'
<1> DEFINE o == w.obj
           st == apiObj.status
<1>1. /\ OnItsWay /\ w.fresh /\ w \in Workers /\ o \in Objects /\ o.status \in Statuses
      /\ apiObj \in Objects /\ found \in FoundTypes /\ FoundIsTrue
  BY Holding, Parts DEF Ahead, OnItsWay, BaseInv, BaseTypes, IInv
<1>2. \A p, next : /\ Save(p, next) /\ next \in {"done", "requeue", "finalize"}
                   /\ next = "done" => p.status # st \/ Settled(p)
                   => Ahead'
  BY <1>1, SavedIsHeeded
<1>3. {"CREATE", "UPDATE", "DELETE"} \subseteq OperationCategories
  BY DEF OperationCategories
<1>4. ~Requeue
  BY DEF Requeue
<1>5. w.pc \in Creates => /\ Unasked(o) /\ Unasked(apiObj) /\ ~o.deleting
                          /\ o.status.obs > 0 /\ o.gen > 0
  BY <1>1, Beginning DEF Orderly, OnItsWay
<1>6. CASE Poll
  <2> DEFINE op == o.status.op
             failed == setFailureConditions(op.type, o)
             succeeded == setSuccessConditions(op.type, o)
  <2>1. /\ o.status = st /\ op # NoOp /\ op.type \in OperationCategories
    BY <1>1, <1>6 DEF Poll, OnItsWay, IInv, CallsAreMeant, Polling, Statuses, OpRefs
  <2>2. failed \in Objects /\ ClearOp(failed).status.op = NoOp /\ succeeded.status.op = op
    BY <1>1, <2>1, SettersType, NewStatus
  <2>3. \/ Save([o EXCEPT !.status = freshStatus(o, failed.status.cond)], "requeue")
        \/ Requeue
        \/ \E next \in {"done", "requeue"} : Save(ClearOp(failed), next)
        \/ Goto("fetch", succeeded)
        \/ Save(setSuccessConditions("DELETE", [o EXCEPT !.status.id = NoId]), "finalize")
    BY <1>6 DEF Poll, removeBindingFromKubernetes
  <2>4. CASE Goto("fetch", succeeded)
    BY <1>1, <2>1, <2>2, <2>4, GoneIsHeeded DEF Polling, Creates
  <2> HIDE DEF failed, succeeded
  <2> QED
    BY <1>2, <1>4, <2>1, <2>2, <2>3, <2>4
<1>7. CASE GetBindingByID
  <2>1. w.pc = "fetch" /\ (Goto("store", o) \/ Requeue)
    BY <1>7, Zenon DEF GetBindingByID
  <2>2. Polling(o) /\ st.op # NoOp
    BY <1>1, <2>1 DEF OnItsWay
  <2> QED
    BY <1>1, <1>4, <2>1, <2>2, GoneIsHeeded DEF Creates
<1>8. CASE Recover
  <2>1. w.pc = "recover" /\ w.pc \in Creates
    BY <1>8 DEF Recover, Creates
  <2>2. st.id = NoId /\ ~Polling(o) /\ ~o.deleting
    BY <1>5, <2>1 DEF Unasked
  <2>3. found' \in FoundTypes /\ (found'.id # NoId => found'.state \in OperationStates)
    <3>1. found' \in FoundTypes /\ FoundIsTrue'
      BY Parts DEF Own
    <3>2. found'.id # NoId => found'.op # NoOp
      BY <1>8, FoundHasOperation
    <3> QED
      BY <3>1, <3>2 DEF FoundIsTrue
  <2>6. w.fresh = TRUE
    BY <1>1 DEF Workers
  <2>4. CASE w' = AfterOwner(o, w.fresh, found')
    BY <1>1, <2>2, <2>3, <2>4, <2>6, AfterOwnerIsHeeded
  <2>5. CASE w' = At("own", o, w.fresh)
    <3>1. w'.pc = "own" /\ w'.obj = o /\ w'.fresh /\ w'.try = 0
      BY <1>1, <2>5 DEF At
    <3> QED
      BY <2>2, <3>1 DEF Ahead, OnItsWay
  <2> QED
    BY <1>8, <2>4, <2>5, <2>6 DEF Recover
<1>9. CASE Bind
  <2>1. w.pc = "bind" /\ w.pc \in Creates
    BY <1>9 DEF Bind, Creates
  <2>2. st.id = NoId /\ ~Polling(o) /\ ~o.deleting /\ o.status.obs > 0 /\ o.gen > 0
    BY <1>5, <2>1 DEF Unasked
  <2>3. \/ \E i \in FreeIDs : Goto("store", o) /\ found' = [found EXCEPT !.id = i]
        \/ \E p : Save(p, "requeue")
        \/ NonTransient("CREATE")
    BY <1>9, Zenon DEF Bind, Unanswered, Transient, Return
  <2>4. ASSUME NEW i \in FreeIDs, Goto("store", o), found' = [found EXCEPT !.id = i]
        PROVE  Ahead'
    <3>1. found'.id = i /\ i # NoId
      BY <1>1, <2>4, ServiceManagerAssumption DEF FreeIDs, FoundTypes
    <3> QED
      BY <1>1, <2>2, <2>4, <3>1, GoneIsHeeded DEF Creates
  <2>5. Settled(markAsNonTransientError("CREATE", o))
    BY <1>1, <1>3, <2>2, EndedIsSettled
  <2> QED
    BY <1>2, <2>3, <2>4, <2>5 DEF NonTransient
<1>10. CASE storeBindingSecret
  <2>1. w.pc = "store"
    BY <1>10 DEF storeBindingSecret
  <2>2. IF Polling(o) THEN st.op # NoOp ELSE st.id = NoId /\ found.id # NoId
    BY <1>1, <2>1 DEF OnItsWay
  <2>3. \/ Requeue \/ \E p : Save(p, "requeue")
        \/ Polling(o) /\ Save(ClearOp(o), "done")
        \/ ~Polling(o) /\ found.op # NoOp /\ Save(resyncBindingStatus(o, found), "done")
        \/ ~Polling(o)
           /\ Save(setSuccessConditions("CREATE", [o EXCEPT !.status.id = found.id]), "done")
    BY <1>10 DEF storeBindingSecret, Return, AfterStore, NotStored
  <2>4. Polling(o) => ClearOp(o).status # st
    BY <1>1, <2>2, NewStatus
  <2>5. ~Polling(o) /\ found.op # NoOp => resyncBindingStatus(o, found).status # st
    BY <1>1, <2>2, NewStatus DEF FoundIsTrue
  <2>6. ~Polling(o) =>
          setSuccessConditions("CREATE", [o EXCEPT !.status.id = found.id]).status # st
    <3>1. ~Polling(o) => found.id \in IDs
      BY <1>1, <2>2 DEF FoundTypes
    <3> QED
      BY <1>1, <2>2, <3>1, NewStatus
  <2> QED
    BY <1>2, <1>4, <2>3, <2>4, <2>5, <2>6
<1>11. CASE RecoverForDelete
  <2>1. w.pc = "recoverForDelete" /\ st.id = NoId
    BY <1>1, <1>11 DEF RecoverForDelete, OnItsWay
  <2>2. ASSUME NEW i \in IDs,
               Save(setInProgressCondition("DELETE", [o EXCEPT !.status.id = i]), "done")
        PROVE  Ahead'
    <3>1. setInProgressCondition("DELETE", [o EXCEPT !.status.id = i]).status.id = i /\ i # NoId
      BY <1>1, NewStatus, ServiceManagerAssumption
    <3> QED
      BY <1>2, <2>1, <2>2, <3>1
  <2>3. CASE Goto("deleteSecret", o)
    BY <1>1, <2>3, GoneIsHeeded DEF Creates
  <2> QED
    BY <1>4, <1>11, <2>2, <2>3 DEF RecoverForDelete
<1>12. CASE Unbind
  <2>1. \/ \E p : Save(p, "requeue") \/ Save(p, "finalize")
    BY <1>12, Zenon DEF Unbind, UnansweredDelete, Transient, removeBindingFromKubernetes
  <2> QED
    BY <1>2, <2>1
<1>13. CASE deleteBindingSecret
  <2>1. Goto("removeFinalizer", o) \/ Requeue
    BY <1>13, Zenon DEF deleteBindingSecret
  <2> QED
    BY <1>1, <1>4, <2>1, GoneIsHeeded DEF Creates
<1> QED
  BY <1>6, <1>7, <1>8, <1>9, <1>10, <1>11, <1>12, <1>13 DEF Call

\* The instance is read: the binding waits for it, is blocked, or recovered.
LEMMA ReadInstanceIsHeeded ==
  ASSUME IInv, Born, Orderly, w.pc # "idle", Ahead, Exists(apiObj), UNCHANGED apiObj, ~queued',
         ReadInstance
  PROVE  Ahead'
<1> DEFINE o == w.obj
<1>1. w.pc \in Creates /\ OnItsWay /\ w.fresh
  BY DEF ReadInstance, Creates, Ahead, OnItsWay
<1>2. o \in Objects /\ Unasked(o) /\ o.status.obs > 0 /\ o.gen > 0 /\ ~o.deleting
  BY <1>1, Beginning DEF Orderly, OnItsWay
<1>3. \/ Goto("recover", o)
      \/ \E p : Save(p, "requeue")
      \/ Save(setBlockedCondition(o), "done")
      \/ o.status.id # NoId
      \/ queued' = Exists(apiObj)
  BY Zenon DEF ReadInstance, Restart
<1>4. CASE Goto("recover", o)
  BY <1>1, <1>2, <1>4, GoneIsHeeded
<1>5. ASSUME NEW p, Save(p, "requeue") PROVE Ahead'
  BY <1>1, <1>5, SavedIsHeeded
<1>6. CASE Save(setBlockedCondition(o), "done")
  <2>1. Settled(setBlockedCondition(o))
    BY <1>2, EndedIsSettled DEF Unasked, OperationCategories
  <2> QED
    BY <1>1, <1>6, <2>1, SavedIsHeeded
<1> QED
  BY <1>2, <1>3, <1>4, <1>5, <1>6 DEF Unasked

\* The owner is there already.
LEMMA SetOwnerIsHeeded ==
  ASSUME IInv, Born, Orderly, w.pc # "idle", Ahead, UNCHANGED apiObj, ApiFaults = FALSE, SetOwner
  PROVE  Ahead'
<1>1. w.pc = "own" /\ w.pc \in Creates /\ OnItsWay /\ w.fresh
  BY DEF SetOwner, Creates, Ahead, OnItsWay
<1>2. /\ w.obj \in Objects /\ ~w.obj.deleting /\ Unasked(apiObj) /\ found \in FoundTypes
      /\ found.id # NoId => found.state \in OperationStates
      /\ apiObj \in Objects /\ w.obj = [apiObj EXCEPT !.status = w.obj.status]
  BY <1>1, Beginning, Parts DEF Orderly, OnItsWay, IInv, CallsAreMeant, FoundIsTrue, Held, BaseInv,
     BaseTypes
<1>3. UNCHANGED found /\ w' = AfterOwner(Returned(apiObj), TRUE, found)
  BY <1>1 DEF SetOwner
<1>4. ~apiObj.deleting /\ w.obj.status.obs \in Nat
  BY <1>2 DEF Objects, Statuses
<1>5. ASSUME NEW a, a = Returned(apiObj) PROVE a \in Objects /\ ~a.deleting /\ ~Polling(a)
  BY <1>2, <1>4, <1>5 DEF Returned, Objects, Statuses, Unasked, Polling
<1> QED
  BY <1>2, <1>3, <1>5, AfterOwnerIsHeeded DEF Unasked

\* A Reconcile that starts from what the API server has does what there is to do.
LEMMA ReconcileIsHeeded ==
  ASSUME IInv, Marked, ClientFaults = FALSE, Reconcile, ~Owed'
  PROVE  Ahead'
<1>1. UNCHANGED <<apiObj, watch>> /\ w.pc = "idle" /\ watch = <<>> /\ Exists(apiObj)
  <2>1. UNCHANGED <<apiObj, watch>> /\ w.pc = "idle"
    BY DEF Reconcile, ReconcileWith
  <2> QED
    BY <2>1 DEF Owed
<1>2. cache = apiObj /\ apiObj \in Objects /\ (apiObj.deleting => apiObj.finalizer)
  BY <1>1, Parts, CacheIsCurrent DEF BaseInv, BaseTypes, Marked
<1> DEFINE o == apiObj
<1>3. w' = Dispatch(o, TRUE)
  BY <1>1, <1>2 DEF Reconcile, ReconcileWith
<1>4. o.deleting \in BOOLEAN /\ o.finalizer \in BOOLEAN
  BY <1>2 DEF Objects
<1>5. ASSUME NEW pc, w' = At(pc, o, TRUE),
             \/ pc = "poll" \/ pc = "unbind"
             \/ pc = "recoverForDelete" /\ o.status.id = NoId
             \/ pc = "addFinalizer" /\ ~o.finalizer
      PROVE  Ahead'
  <2>1. w'.pc = pc /\ w'.obj = apiObj' /\ w'.fresh = TRUE /\ w'.try = 0 /\ apiObj' = apiObj
    BY <1>1, <1>5 DEF At
  <2>2. /\ pc \notin {"idle", "status", "fetch", "store"} \cup Creates
        /\ pc = "recoverForDelete" => apiObj'.status.id = NoId
        /\ pc = "addFinalizer" => ~apiObj'.finalizer
    BY <1>5, <2>1 DEF Creates
  <2> QED
    BY <2>1, <2>2 DEF Ahead, OnItsWay
<1>6. CASE w' = At("poll", o, TRUE)
  BY <1>5, <1>6
<1>7. CASE w' = At(DeleteCall(o), o, TRUE)
  BY <1>5, <1>7 DEF DeleteCall
<1>8. CASE ~o.finalizer /\ w' = At("addFinalizer", o, TRUE)
  BY <1>5, <1>8
<1>9. CASE ~Polling(o) /\ ~o.deleting /\ o.status.obs > 0 /\ ~isInProgress(o) /\ w' = Idle
  <2>1. Settled(apiObj) /\ apiObj' = apiObj
    BY <1>1, <1>9 DEF Settled
  <2>2. Settled(apiObj)'
    BY <2>1 DEF Settled, Polling, isInProgress
  <2> QED
    BY <1>9, <2>2 DEF Ahead, Idle
<1>10. CASE ~o.deleting /\ w' = At("instance", observe(o), TRUE)
  <2>1. ~observe(o).deleting
    BY <1>2, <1>10 DEF observe, Objects
  <2> QED
    BY <1>10, <2>1 DEF At, Ahead, OnItsWay
<1> QED
  BY <1>2, <1>3, <1>4, <1>6, <1>7, <1>8, <1>9, <1>10 DEF Dispatch, isDelete, Proceed

\* A status that is written and changes nothing was settled before it was computed.
LEMMA StatusUpdateIsHeeded ==
  ASSUME IInv, Ahead, ApiFaults = FALSE, StatusUpdate, UNCHANGED apiObj, ~queued'
  PROVE  Ahead'
<1>1. /\ w.pc = "status" /\ OnItsWay /\ w.fresh /\ apiObj \in Objects
      /\ w.obj = [apiObj EXCEPT !.status = w.obj.status]
  BY Parts DEF StatusUpdate, StatusUpdateThen, Ahead, OnItsWay, BaseInv, BaseTypes, Held
<1>2. /\ apiObj' = [apiObj EXCEPT !.status = w.obj.status]
      /\ w' = Continue(apiObj', TRUE, w.next) /\ w.next # "requeue"
  BY <1>1 DEF StatusUpdate, StatusUpdateThen, Write
<1>3. w.obj = apiObj /\ apiObj' = apiObj
  BY <1>1, <1>2
<1>4. CASE w.next = "done"
  <2>1. w' = Idle /\ Settled(apiObj)
    BY <1>1, <1>2, <1>3, <1>4 DEF OnItsWay, Continue
  <2> QED
    BY <1>3, <2>1 DEF Ahead, Idle, Settled, Polling, isInProgress
<1>5. CASE w.next = "finalize"
  BY <1>2, <1>5 DEF Continue, At, Ahead, OnItsWay, Creates
<1> QED
  BY <1>1, <1>2, <1>4, <1>5 DEF OnItsWay

\* The finalizer is taken from a resource that is to go.
LEMMA DropIsOwed ==
  ASSUME GInv, Marked, ~Owed, Ahead, ApiFaults = FALSE, DropFinalizer
  PROVE  Owed'
<1>1. /\ w.pc = "removeFinalizer" /\ w.pc \in Removes /\ w.fresh /\ BaseInv /\ Held
      /\ Exists(apiObj) /\ watch = <<>> /\ RemoveFinalizer
  BY Parts DEF DropFinalizer, RemoveFinalizer, Removes, Ahead, OnItsWay, GInv, Owed
<1>2. apiObj.deleting
  <2>1. Doomed
    BY <1>1 DEF GInv, OneLife, Removing
  <2> QED
    BY <1>1, <2>1, LastVersion DEF Doomed
<1>3. w.obj.finalizer
  BY <1>1, <1>2 DEF Marked, Held, BaseInv, BaseTypes, Objects
<1> QED
  BY <1>1, <1>3, RemoveFinalizerIsOwed

\* A step after which nothing is owed leaves a settled binding, or one on its way.
LEMMA NextHeeded ==
  ASSUME Names = {K8sName}, ApiFaults = FALSE, ClientFaults = FALSE
  PROVE  UInv /\ IInv' /\ Heeded /\ [Next]_vars => Heeded'
<1> SUFFICES ASSUME UInv, IInv', Heeded, [Next]_vars PROVE Heeded'
  OBVIOUS
<1>1. GInv /\ IInv /\ Born /\ Orderly /\ BaseInv /\ Held /\ Touched /\ Marked /\ BaseTypes
  BY Parts, AlwaysTouched DEF Heeded, BaseInv, UInv, GInv
<1>2. Marked'
  BY <1>1, MarkedKept
<1> SUFFICES ASSUME ~Owed' PROVE Ahead'
  BY <1>2 DEF Heeded
<1>3. ASSUME queued => queued', UNCHANGED <<apiObj, watch>> \/ \E o : Write(o)
      PROVE  Ahead /\ ~Owed /\ UNCHANGED <<apiObj, watch>> /\ ~queued'
  BY <1>1, <1>3, NothingOwedBefore DEF Heeded
<1>4. CASE Reconcile
  BY <1>1, <1>4, ReconcileIsHeeded
<1>5. CASE StatusUpdate
  <2>1. Ahead /\ UNCHANGED <<apiObj, watch>> /\ ~queued'
    BY <1>3, <1>5 DEF StatusUpdate, StatusUpdateThen
  <2> QED
    BY <1>1, <1>5, <2>1, StatusUpdateIsHeeded
<1>6. CASE StatusRetry
  <2>1. Ahead /\ w.try > 1 /\ w.pc = "status" /\ w \in Workers
    BY <1>1, <1>3, <1>6, Parts DEF StatusRetry, StatusRetryThen
  <2> QED
    BY <2>1 DEF Ahead, OnItsWay, Workers
<1>7. CASE InitFinalizer
  <2>1. Ahead /\ w.pc = "addFinalizer" /\ AddFinalizer
    BY <1>3, <1>7 DEF InitFinalizer, AddFinalizer, Requeue
  <2> QED
    BY <1>1, <2>1, AddFinalizerIsOwed DEF Ahead, OnItsWay
<1>8. CASE DropFinalizer
  <2>1. Ahead /\ ~Owed
    BY <1>3, <1>8 DEF DropFinalizer, RemoveFinalizer, Requeue
  <2> QED
    BY <1>1, <1>8, <2>1, DropIsOwed
<1>9. CASE ReadInstance
  <2>1. CASE inst.state = "new" /\ Restart
    BY <1>1, <2>1, OthersOwe
  <2>2. CASE UNCHANGED <<apiObj, watch>> /\ (queued => queued')
    <3>1. Ahead /\ ~Owed /\ UNCHANGED <<apiObj, watch>> /\ ~queued'
      BY <1>3, <2>2
    <3>2. w.pc # "idle" /\ Exists(apiObj)
      BY <1>9, <3>1 DEF ReadInstance, Owed
    <3> QED
      BY <1>1, <1>9, <3>1, <3>2, ReadInstanceIsHeeded
  <2>3. \/ inst.state = "new" /\ Restart
        \/ UNCHANGED <<apiObj, watch>> /\ (queued => queued')
    BY <1>9 DEF ReadInstance, Save, Goto
  <2> QED
    BY <2>1, <2>2, <2>3
<1>10. CASE SetOwner
  <2>1. w.pc # "idle" /\ (queued => queued') /\ (UNCHANGED <<apiObj, watch>> \/ \E o : Write(o))
    <3>1. \/ Write([apiObj EXCEPT !.owner = found.owner]) /\ UNCHANGED queued
          \/ UNCHANGED <<apiObj, watch>> /\ Requeue
          \/ UNCHANGED <<apiObj, watch>>
             /\ Save(setFailureConditions("CREATE", w.obj), "requeue")
      BY <1>10, Zenon DEF SetOwner, Return
    <3> QED
      BY <1>10, <3>1 DEF SetOwner, Requeue, Save
  <2> QED
    BY <1>1, <1>3, <1>10, <2>1, SetOwnerIsHeeded
<1>11. CASE Call
  <2>1. queued => queued'
    BY <1>11 DEF Call, Recover, Bind, storeBindingSecret, Poll, GetBindingByID, RecoverForDelete,
       Unbind, deleteBindingSecret, removeBindingFromKubernetes, AfterStore, NotStored, Return, Save,
       Goto, Requeue, Transient, NonTransient, Unanswered, UnansweredDelete
  <2>2. UNCHANGED <<apiObj, watch>> /\ w.pc # "idle"
    BY <1>1, <1>11, CallsAreQuiet
  <2> QED
    BY <1>1, <1>3, <1>11, <2>1, <2>2, CallsAreHeeded
<1>12. CASE User \/ CollectBinding
  BY <1>1, <1>12, OthersOwe, UserActs
<1>13. CASE Deliver \/ Stop
  BY <1>1, <1>13, OthersOwe DEF Stop
<1>14. CASE Around
  <2>1. CASE Resync
    BY <1>1, <2>1, OthersOwe
  <2>2. CASE UNCHANGED <<apiObj, watch, queued, w, found>>
    <3>1. Ahead
      BY <1>3, <2>2
    <3> QED
      BY <2>2, <3>1 DEF Ahead, OnItsWay, Settled, Polling, isInProgress, Creates
  <2>3. Resync \/ UNCHANGED <<apiObj, watch, queued, w, found>>
    BY <1>14 DEF Around, Secrets, SyncSecrets, CollectSecret, Intrude, Instance, InstanceStep,
       ServiceManagerStep, Finish, SMComplete, vars, baseVars, ownVars
  <2> QED
    BY <2>1, <2>2, <2>3
<1> QED
  BY <1>4, <1>5, <1>6, <1>7, <1>8, <1>9, <1>10, <1>11, <1>12, <1>13, <1>14, StepsThereAre

\* A binding that nobody is going to look at again is bound, has failed for good or is
\* blocked by the secret of another. As for an instance, a write to the API server may
\* fail by a conflict only; and what holds in UInv of the beginning of an incarnation
\* and of its end is needed too, and so are its hypotheses.
THEOREM NoBindingForgotten ==
  ASSUME MaxLives <= 1, Names = {K8sName}, DropsFailed = FALSE, "list" \notin SMFaults,
         ClientFaults = FALSE, ApiFaults = FALSE
  PROVE  PromptSpec => []NoLostWakeup
<1>1. Init => UInv /\ Heeded
  BY InitUInv DEF Init, Heeded, Marked, Owed, NoObject, Exists
<1>2. UInv /\ Heeded /\ [Prompt]_vars => (UInv /\ Heeded)'
  <2>1. UInv /\ [Prompt]_vars => UInv' /\ [Next]_vars
    BY NextUInv, PromptSteps
  <2>2. UInv' => IInv'
    BY DEF UInv, GInv
  <2> QED
    BY <2>1, <2>2, NextHeeded
<1>3. Heeded => NoLostWakeup
  BY DEF Heeded, Ahead, Owed, Quiescent, NoLostWakeup
<1> QED
  BY <1>1, <1>2, <1>3, PTL DEF PromptSpec

------------------------------------------------------------------------------
(* The credentials are delivered *)

\* A resource that does not exist has nothing to say.
Blank == ~Exists(apiObj) => apiObj = NoObject

\* Everybody knows the secret by the same name.
SameSecret ==
  \A o, p \in Copies : Exists(o) /\ Exists(p) =>
    o.secretName = p.secretName /\ o.secretName \in SecretNames

\* What is gone leaves nothing behind.
LEMMA BlankKept ==
  ASSUME IInv, Blank, [Next]_vars
  PROVE  Blank'
<1>1. BaseInv /\ Held /\ apiObj \in Objects /\ lives \in Nat /\ cache \in Objects
  BY Parts DEF BaseInv, BaseTypes
<1>2. ASSUME ~Exists(apiObj) => apiObj' = apiObj \/ Exists(apiObj'),
             Exists(apiObj) => Exists(apiObj') \/ apiObj' = NoObject
      PROVE  Blank'
  BY <1>2 DEF Blank, Exists
<1>3. CASE Call \/ Around \/ Reconcile \/ ReadInstance \/ Deliver \/ Stop
  <2>1. UNCHANGED apiObj
    BY <1>3, CallsAreQuiet, AroundIsQuiet
       DEF Reconcile, ReconcileWith, ReadInstance, Deliver, Stop, Restart
  <2> QED
    BY <1>2, <2>1
<1>4. CASE StatusUpdate
  <2>1. w.pc = "status"
    BY <1>4 DEF StatusUpdate, StatusUpdateThen
  <2>2. UNCHANGED apiObj \/ (w.fresh /\ apiObj' = [apiObj EXCEPT !.status = w.obj.status])
    BY <1>4, Zenon DEF StatusUpdate, StatusUpdateThen, Write
  <2>3. w.fresh => Exists(apiObj)
    BY <1>1, <2>1, Holding DEF Held, Exists, Objects
  <2> QED
    BY <1>1, <1>2, <2>2, <2>3 DEF Exists, Objects
<1>5. CASE StatusRetry
  <2>1. \/ UNCHANGED apiObj
        \/ /\ Exists(cache) /\ watch = <<>>
           /\ apiObj' = [cache EXCEPT !.status = w.obj.status]
    BY <1>5, Zenon DEF StatusRetry, StatusRetryThen, Write
  <2>2. watch = <<>> => cache = apiObj
    BY <1>1, CacheIsCurrent DEF BaseInv
  <2> QED
    BY <1>1, <1>2, <2>1, <2>2 DEF Exists, Objects
<1>6. CASE InitFinalizer
  <2>1. UNCHANGED apiObj \/ (Exists(apiObj) /\ apiObj' = [apiObj EXCEPT !.finalizer = TRUE])
    BY <1>1, <1>6, AddFinalizerOutcome DEF InitFinalizer
  <2> QED
    BY <1>1, <1>2, <2>1 DEF Exists, Objects
<1>7. CASE DropFinalizer
  <2>1. UNCHANGED apiObj \/ apiObj' = Released(apiObj)
    BY <1>1, <1>7, RemoveFinalizerOutcome DEF DropFinalizer
  <2>2. Released(apiObj) = NoObject \/ Released(apiObj) = [apiObj EXCEPT !.finalizer = FALSE]
    BY DEF Released
  <2>3. [NoObject EXCEPT !.finalizer = FALSE] = NoObject
    <3>1. \A o \in Objects : ~o.finalizer => [o EXCEPT !.finalizer = FALSE] = o
      BY DEF Objects
    <3> QED
      BY <3>1, NoObjectType DEF NoObject
  <2> QED
    BY <1>1, <1>2, <2>1, <2>2, <2>3 DEF Blank, Exists, Objects
<1>8. CASE SetOwner
  <2>1. UNCHANGED apiObj \/ (Exists(apiObj) /\ apiObj' = [apiObj EXCEPT !.owner = found.owner])
    BY <1>8, SetOwnerWrites DEF OwnsIt, Write
  <2> QED
    BY <1>1, <1>2, <2>1 DEF Exists, Objects
<1>9. CASE UserDelete
  <2>1. Exists(apiObj) /\ (apiObj' = NoObject \/ apiObj' = [apiObj EXCEPT !.deleting = TRUE])
    BY <1>9 DEF UserDelete, Write
  <2> QED
    BY <1>1, <1>2, <2>1 DEF Exists, Objects
<1>10. ASSUME NEW name, NEW s, UserCreate(name, s) PROVE Blank'
  <2>1. apiObj'.uid = lives + 1
    BY <1>10 DEF UserCreate, Write, NoObject
  <2> QED
    BY <1>1, <2>1 DEF Blank, Exists
<1>11. ASSUME NEW name, NEW s, UserEdit(name, s) PROVE Blank'
  <2>1. Exists(apiObj) /\ apiObj'.uid = apiObj.uid
    BY <1>1, <1>11 DEF UserEdit, Write, Objects
  <2> QED
    BY <1>2, <2>1 DEF Exists
<1> QED
  BY <1>3, <1>4, <1>5, <1>6, <1>7, <1>8, <1>9, <1>10, <1>11, StepsThereAre, UserActs

\* The name of the secret stays what it was when the resource was created, if it cannot
\* be edited or there is no other.
LEMMA SameSecretKept ==
  ASSUME MaxLives <= 1, MaxGen <= 1 \/ SecretNames = {K8sName}, IInv, Born, SameSecret, [Next]_vars
  PROVE  SameSecret'
<1>1. BaseInv /\ apiObj \in Objects /\ apiObj \in Copies /\ Kinds
  BY Parts, KindsOfSteps DEF BaseInv, BaseTypes, Copies
<1>2. MaxGen \in Nat
  BY ConstantsAssumption
<1> DEFINE Inherited(o) == \E p \in Copies : Exists(p) /\ o.secretName = p.secretName
           New(o) == o = apiObj' /\ \A p \in Copies : ~Exists(p)
<1>3. ASSUME NEW o \in Copies', Exists(o)
      PROVE  /\ o.secretName \in SecretNames
             /\ Inherited(o) \/ New(o) \/ SecretNames = {K8sName}
  <2>1. ASSUME NEW p \in Copies, Alike(o, p) PROVE Inherited(o) /\ o.secretName \in SecretNames
    BY <1>3, <2>1 DEF Alike, Exists, SameSecret
  <2>2. ASSUME o = apiObj', ~Exists(apiObj), NEW name, NEW s \in SecretNames, UserCreate(name, s)
        PROVE  New(o) /\ o.secretName \in SecretNames
    <3>1. o.secretName = s
      BY <2>2 DEF UserCreate, Write, NoObject
    <3> QED
      BY <1>1, <1>3, <2>2, <3>1, NothingYet DEF Exists
  <2>3. ASSUME o = apiObj', Exists(apiObj), NEW name, NEW s \in SecretNames, UserEdit(name, s)
        PROVE  SecretNames = {K8sName} /\ o.secretName \in SecretNames
    <3>1. apiObj.gen > 0 /\ apiObj.gen < MaxGen /\ apiObj.gen \in Nat /\ o.secretName = s
      BY <1>1, <2>3 DEF Born, UserEdit, Write, Objects
    <3> QED
      BY <1>2, <3>1
  <2> QED
    BY <1>3, <2>1, <2>2, <2>3, CopiesAlike
<1>4. ASSUME NEW o \in Copies', NEW p \in Copies', Exists(o), Exists(p)
      PROVE  o.secretName = p.secretName
  <2>1. /\ Inherited(o) \/ New(o) \/ SecretNames = {K8sName}
        /\ Inherited(p) \/ New(p) \/ SecretNames = {K8sName}
        /\ o.secretName \in SecretNames /\ p.secretName \in SecretNames
    BY <1>3, <1>4
  <2> QED
    BY <2>1 DEF SameSecret
<1> QED
  BY <1>3, <1>4 DEF SameSecret, Exists

\* A binding that is yet to be created, or is to stay.
Stays == lives = 0 \/ (Exists(apiObj) /\ ~apiObj.deleting)

\* What is stored are the credentials of what SM has, for this resource.
SecretsOwn ==
  \A n \in SecretNames : secrets[n] # NoSecret =>
    secrets[n].cred \in Used /\ secrets[n].owner \in 1..lives

\* A binding that has an operation has an id, and one that was created a secret.
Known(o) == Polling(o) => o.status.id # NoId
Delivered(o, stored) ==
  o.status.cond.reason = "Created" => o.status.id # NoId /\ stored[o.secretName] # NoSecret

\* The worker's copy is known, and delivered when it is to be written; it has no id
\* before the binding is created, and the id that is stored after.
Straight ==
  /\ w.pc # "idle" => Known(w.obj)
  /\ w.pc = "status" => Delivered(w.obj, secrets)
  /\ w.pc \in {"recover", "own", "bind"} => w.obj.status.id = NoId
  /\ w.pc \in {"instance", "recover", "own"} /\ w.fresh => apiObj.status.id = w.obj.status.id
  /\ w.pc = "store" => found.id # NoId /\ (Polling(w.obj) => w.obj.status.id = found.id)

Shown ==
  \A k \in 0..Len(watch) :
    Exists(Version(k)) => Known(Version(k)) /\ Delivered(Version(k), secrets)
Delivery == Stays => SecretsOwn /\ Shown /\ Straight

\* What is to stay has no one to remove it, and there is a resource when the worker works.
LEMMA StaysMeans ==
  ASSUME MaxLives <= 1
  PROVE  /\ GInv /\ Stays => /\ ~Doomed /\ ~Removing(Removes) /\ ~w.obj.deleting /\ ~cache.deleting
                             /\ w.pc # "idle" => Exists(apiObj) /\ lives > 0
         /\ GInv' /\ Stays' => ~Removing(Removes)'
<1>1. GInv /\ Stays => ~Doomed
  <2> SUFFICES ASSUME GInv, lives > 0, Exists(apiObj), ~apiObj.deleting PROVE ~Doomed
    BY DEF Stays, Doomed
  <2>1. \E n \in 0..Len(watch) : apiObj = Version(n)
    BY Parts, LastVersion DEF GInv
  <2> QED
    BY <2>1 DEF Doomed
<1>2. GInv' /\ Stays' => ~Doomed'
  <2> SUFFICES ASSUME GInv', lives' > 0, Exists(apiObj'), ~apiObj'.deleting PROVE ~Doomed'
    BY DEF Stays, Doomed, Exists
  <2>1. BaseInv'
    BY Parts DEF GInv
  <2>2. \E n \in 0..Len(watch') : apiObj' = Version(n)'
    BY <2>1 DEF BaseInv, CacheFollows, Version, BaseTypes
  <2> QED
    BY <2>2 DEF Doomed, Exists
<1>3. GInv => (w.obj.deleting => Doomed) /\ (Removing(Removes) => Doomed)
  BY DEF GInv, OneLife
<1>4. GInv' => (Removing(Removes)' => Doomed')
  BY DEF GInv, OneLife
<1>5. ASSUME GInv, Stays PROVE ~cache.deleting
  <2>1. BaseInv /\ cache \in Copies /\ IInv /\ apiObj \in Objects /\ cache \in Objects /\ lives \in Nat
    BY <1>5, Parts DEF GInv, Copies, BaseInv, BaseTypes
  <2>2. CASE lives = 0
    BY <2>1, <2>2 DEF IInv, DeletionIsFinal, Exists, Objects
  <2>3. CASE lives > 0 /\ Exists(apiObj) /\ ~apiObj.deleting
    BY <1>5, <2>1, <2>3, <1>1, CacheForetells DEF GInv, IInv, DeletionIsFinal
  <2> QED
    BY <1>5, <2>1, <2>2, <2>3 DEF Stays
<1>6. ASSUME GInv, Stays, w.pc # "idle" PROVE Exists(apiObj) /\ lives > 0
  <2>1. w.obj \in Copies /\ Exists(w.obj) /\ w.obj \in Objects /\ lives \in Nat /\ IInv
    BY <1>6, Holding DEF GInv, IInv, TypeOK, Held, Copies
  <2> QED
    BY <1>6, <2>1 DEF IInv, DeletionIsFinal, Exists, Stays, Objects
<1> QED
  BY <1>1, <1>2, <1>3, <1>4, <1>5, <1>6

\* What stays has stayed.
LEMMA StayedBefore ==
  ASSUME MaxLives <= 1, IInv, [Next]_vars, Stays'
  PROVE  Stays
<1>1. BaseInv /\ Kinds /\ apiObj \in Objects /\ lives \in Nat
  BY Parts, KindsOfSteps DEF BaseInv, BaseTypes
<1>2. lives' = lives \/ lives' = lives + 1
  BY <1>1 DEF Kinds, Undisturbed, Rewritten, Begun, Deliver, Restart
<1>3. CASE ~Exists(apiObj) /\ Exists(apiObj')
  BY <1>1, <1>3, NothingYet DEF Stays
<1>4. CASE Exists(apiObj) /\ Exists(apiObj')
  BY <1>1, <1>2, <1>4 DEF Stays, Kinds, Undisturbed, Rewritten, Begun, Deliver, Restart, Write, Exists
<1> QED
  BY <1>1, <1>2, <1>3, <1>4 DEF Stays, Exists

\* What becomes of the secrets.
LEMMA SecretsWritten ==
  ASSUME Intruders = FALSE, [Next]_vars
  PROVE  \/ UNCHANGED secrets
         \/ /\ storeBindingSecret
            /\ secrets' = [secrets EXCEPT ![w.obj.secretName] = BindingSecret(w.obj, found.id)]
         \/ deleteBindingSecret /\ secrets' = [secrets EXCEPT ![w.obj.secretName] = NoSecret]
         \/ \E name \in SecretNames :
              /\ secrets[name].owner \notin {0, apiObj.uid}
              /\ secrets' = [secrets EXCEPT ![name] = NoSecret]
<1>1. CASE storeBindingSecret \/ deleteBindingSecret
  BY <1>1 DEF storeBindingSecret, deleteBindingSecret
<1>2. CASE \/ Recover \/ Bind \/ Poll \/ GetBindingByID \/ RecoverForDelete \/ Unbind
           \/ Reconcile \/ StatusUpdate \/ StatusRetry \/ InitFinalizer \/ DropFinalizer \/ SetOwner
           \/ User \/ CollectBinding \/ (Deliver /\ UNCHANGED ownVars) \/ Stop
  BY <1>2 DEF Recover, Bind, Poll, GetBindingByID, RecoverForDelete, Unbind, Reconcile,
     StatusUpdate, StatusRetry, InitFinalizer, DropFinalizer, SetOwner, User, CollectBinding,
     Stop, ownVars
<1>3. CASE ReadInstance
  BY <1>3, Zenon DEF ReadInstance, ownVars
<1>4. CASE Around
  BY <1>4 DEF Around, Secrets, SyncSecrets, CollectSecret, Intrude, Instance, InstanceStep,
     ServiceManagerStep, Finish, vars, ownVars
<1> QED
  BY <1>1, <1>2, <1>3, <1>4, StepsThereAre DEF Call

\* As long as the binding is to stay no secret goes, and what is stored is its own.
LEMMA SecretsKept ==
  ASSUME MaxLives <= 1, Names = {K8sName}, DropsFailed = FALSE, "list" \notin SMFaults,
         Intruders = FALSE, GInv, Stays, Delivery, [Next]_vars
  PROVE  /\ SecretsOwn'
         /\ \A n \in SecretNames : secrets[n] # NoSecret => secrets'[n] # NoSecret
<1>1. /\ IInv /\ Backlog /\ BaseInv /\ SecretsOwn /\ lives \in Nat /\ MaxLives \in Nat
      /\ secrets \in [SecretNames -> SecretTypes] /\ w.obj \in Objects /\ apiObj \in Objects
  BY Parts, Holding, ConstantsAssumption DEF GInv, Delivery, Own, BaseInv, BaseTypes
<1>2. Used \subseteq Used' /\ (lives' = lives \/ lives' = lives + 1)
  <2>1. Asked(Calls) /\ Kinds
    BY <1>1, StepIsAsked, KindsOfSteps
  <2> QED
    BY <1>1, <2>1, RecordsGrow DEF Kinds, Undisturbed, Rewritten, Begun, Deliver, Restart
<1>3. 1..lives \subseteq 1..lives'
  BY <1>1, <1>2
<1>4. SecretsOwn' <=> \A n \in SecretNames : secrets'[n] # NoSecret =>
                        secrets'[n].cred \in Used' /\ secrets'[n].owner \in 1..lives'
  BY DEF SecretsOwn, NoSecret
<1>5. CASE UNCHANGED secrets
  BY <1>1, <1>2, <1>3, <1>4, <1>5 DEF SecretsOwn
<1>6. CASE /\ storeBindingSecret
           /\ secrets' = [secrets EXCEPT ![w.obj.secretName] = BindingSecret(w.obj, found.id)]
  <2> DEFINE new == BindingSecret(w.obj, found.id)
  <2>1. w.pc = "store" /\ w.pc # "idle" /\ found.id # NoId
    BY <1>6 DEF storeBindingSecret, Delivery, Straight
  <2>2. new # NoSecret /\ new.cred = found.id /\ new.owner = w.obj.uid
    BY DEF BindingSecret, NoSecret
  <2>3. w.obj.uid \in 1..lives
    <3>1. Exists(w.obj) /\ w.obj.uid <= lives
      BY <1>1, <2>1 DEF IInv, Held, DeletionIsFinal, Copies
    <3> QED
      BY <1>1, <3>1 DEF Exists, Objects
  <2>4. found.id \in Used
    BY <1>1, <2>1, Holding DEF IInv, FoundIsTrue, Recorded, FoundTypes, Used, FreeIDs
  <2>5. \A n \in SecretNames : secrets'[n] = secrets[n] \/ secrets'[n] = new
    BY <1>1, <1>6
  <2> HIDE DEF new
  <2> QED
    BY <1>1, <1>2, <1>3, <1>4, <2>2, <2>3, <2>4, <2>5 DEF SecretsOwn
<1>7. ~deleteBindingSecret
  BY StaysMeans DEF deleteBindingSecret, Removing, Removes
<1>8. ASSUME NEW name \in SecretNames, secrets[name].owner \notin {0, apiObj.uid},
             secrets' = [secrets EXCEPT ![name] = NoSecret]
      PROVE  UNCHANGED secrets
  <2>1. secrets[name] = NoSecret
    <3>1. CASE secrets[name] # NoSecret
      <4>1. secrets[name].owner \in 1..lives
        BY <1>1, <3>1 DEF SecretsOwn
      <4>2. lives > 0 /\ lives <= 1
        BY <1>1, <4>1 DEF Backlog
      <4>3. apiObj.uid = lives
        BY <1>1, <4>2 DEF Stays, Backlog
      <4> QED
        BY <1>1, <1>8, <4>1, <4>2, <4>3
    <3> QED
      BY <3>1
  <2> QED
    BY <1>1, <1>8, <2>1
<1> QED
  BY <1>5, <1>6, <1>7, <1>8, SecretsWritten

\* The name of the secret is what it was.
LEMMA SecretNameKept ==
  ASSUME MaxLives <= 1, MaxGen <= 1 \/ SecretNames = {K8sName}, IInv, Born, SameSecret, [Next]_vars,
         Exists(apiObj), Exists(apiObj')
  PROVE  apiObj'.secretName = apiObj.secretName
<1>1. apiObj \in Objects /\ apiObj \in Copies /\ apiObj' \in Copies' /\ SameSecret' /\ MaxGen \in Nat
  BY Parts, SameSecretKept, ConstantsAssumption DEF BaseInv, BaseTypes, Copies
<1>2. ASSUME NEW name, NEW s \in SecretNames, UserEdit(name, s) PROVE SecretNames = {K8sName}
  <2>1. apiObj.gen > 0 /\ apiObj.gen < MaxGen /\ apiObj.gen \in Nat
    BY <1>1, <1>2 DEF Born, UserEdit, Objects
  <2> QED
    BY <1>1, <2>1
<1>3. apiObj'.secretName \in SecretNames /\ apiObj.secretName \in SecretNames
  BY <1>1 DEF SameSecret, Exists
<1>4. Alike(apiObj', apiObj) => apiObj'.secretName = apiObj.secretName
  BY DEF Alike
<1>5. apiObj' # NoObject
  BY DEF Exists, NoObject
<1> QED
  BY <1>2, <1>3, <1>4, <1>5, GenerationWritten

\* A version shown next has an id and a secret, like those before.
LEMMA ShownNext ==
  ASSUME MaxLives <= 1, MaxGen <= 1 \/ SecretNames = {K8sName}, Names = {K8sName},
         DropsFailed = FALSE, "list" \notin SMFaults, Intruders = FALSE,
         GInv, Born, SameSecret, Stays, Stays', Delivery, [Next]_vars
  PROVE  Shown'
<1>1. /\ IInv /\ IInv' /\ BaseInv /\ Kinds /\ Shown /\ Straight /\ w.obj \in Objects
      /\ apiObj \in Objects /\ apiObj \in Copies /\ w.obj \in Copies
      /\ \A n \in SecretNames : secrets[n] # NoSecret => secrets'[n] # NoSecret
  BY Parts, Holding, KindsOfSteps, NextIInv, SecretsKept
     DEF GInv, Delivery, BaseInv, BaseTypes, Copies
<1>2. ASSUME NEW o, NEW p, Known(p), Delivered(p, secrets), o.status = p.status,
             o.secretName = p.secretName, p.secretName \in SecretNames
      PROVE  Known(o) /\ Delivered(o, secrets')
  BY <1>1, <1>2 DEF Known, Delivered, Polling
<1>3. ASSUME Exists(apiObj)
      PROVE  Known(apiObj) /\ Delivered(apiObj, secrets) /\ apiObj.secretName \in SecretNames
  BY <1>1, <1>3, LastVersion DEF Shown, SameSecret
<1>4. ASSUME Exists(apiObj') PROVE Known(apiObj') /\ Delivered(apiObj', secrets')
  <2>1. CASE Exists(apiObj) /\ apiObj'.status = apiObj.status
    BY <1>1, <1>2, <1>3, <1>4, <2>1, SecretNameKept
  <2>2. ~apiObj'.deleting
    <3>1. apiObj' \in Objects' /\ apiObj' \in Copies' /\ lives' \in Nat
      BY <1>1, Parts DEF BaseInv, BaseTypes, Copies
    <3>2. apiObj'.uid \in Nat /\ apiObj'.uid # 0 /\ apiObj'.uid <= lives'
      BY <1>1, <1>4, <3>1 DEF Objects, Exists, IInv, DeletionIsFinal
    <3>3. lives' # 0
      BY <3>1, <3>2
    <3> QED
      BY <1>4, <3>3 DEF Stays, Exists
  <2>3. CASE (StatusUpdate \/ StatusRetry) /\ apiObj'.status = w.obj.status
    <3>1. w.pc = "status"
      BY <2>3 DEF StatusUpdate, StatusUpdateThen, StatusRetry, StatusRetryThen
    <3>2. Exists(apiObj) /\ Exists(w.obj)
      BY <1>1, <3>1, StaysMeans DEF IInv, Held
    <3>3. Known(w.obj) /\ Delivered(w.obj, secrets)
      BY <1>1, <3>1 DEF Straight
    <3>4. apiObj'.secretName = w.obj.secretName /\ w.obj.secretName \in SecretNames
      BY <1>1, <1>4, <3>2, SecretNameKept DEF SameSecret
    <3> QED
      BY <1>2, <2>3, <3>3, <3>4
  <2>4. CASE apiObj'.status = EmptyStatus
    BY <2>4 DEF EmptyStatus, NoConditions, Known, Delivered, Polling
  <2>5. CASE UNCHANGED apiObj
    BY <1>2, <1>3, <1>4, <2>5 DEF Exists
  <2> QED
    BY <1>1, <1>4, <2>1, <2>2, <2>3, <2>4, <2>5, StatusComesFrom
<1>5. ASSUME NEW k \in 0..Len(watch'), Exists(Version(k)')
      PROVE  Known(Version(k)') /\ Delivered(Version(k)', secrets')
  <2>1. CASE Version(k)' = apiObj'
    BY <1>4, <1>5, <2>1
  <2>2. ASSUME NEW j \in 0..Len(watch), Version(k)' = Version(j)
        PROVE  Known(Version(k)') /\ Delivered(Version(k)', secrets')
    <3>1. Known(Version(j)) /\ Delivered(Version(j), secrets)
      BY <1>1, <1>5, <2>2 DEF Shown
    <3>2. Version(j) \in Copies
      BY DEF Version, Copies
    <3>3. Version(j).secretName \in SecretNames
      BY <1>5, <2>2, <3>2 DEF SameSecret
    <3> QED
      BY <1>2, <2>2, <3>1, <3>3
  <2> QED
    BY <1>1, <2>1, <2>2, NewVersions
<1> QED
  BY <1>5 DEF Shown, Known, Delivered, Polling, Exists

\* The condition p has does not say that o was created.
NotCreated(p, o) ==
  /\ p.status.cond.reason # "Created"
  /\ p.status.id = o.status.id /\ p.status.op = o.status.op

LEMMA SettersDoNotCreate ==
  ASSUME NEW o \in Objects, NEW type \in OperationCategories
  PROVE  /\ NotCreated(setInProgressCondition(type, o), o)
         /\ NotCreated(setFailureConditions(type, o), o)
         /\ NotCreated(markAsNonTransientError(type, o), o)
         /\ NotCreated(setBlockedCondition(o), o)
<1>1. ASSUME NEW c, c.reason # "Created"
      PROVE  NotCreated(WithConditions(o, c), o) /\ NotCreated(observe(WithConditions(o, c)), o)
  BY <1>1 DEF NotCreated, WithConditions, observe, Objects, Statuses
<1>2. /\ getConditionReason(type, "IN_PROGRESS") # "Created"
      /\ getConditionReason(type, "FAILED") # "Created"
  BY DEF getConditionReason, OperationCategories
<1> QED
  BY <1>1, <1>2 DEF setInProgressCondition, setFailureConditions, markAsNonTransientError,
     setBlockedCondition

\* What is no creation is written with an operation only if it has an id.
LEMMA NotCreatedIsStraight ==
  ASSUME NEW o, NEW p, NEW next, Known(o), NotCreated(p, o), w'.pc = "status", w'.obj = p
  PROVE  Straight'
BY DEF NotCreated, Straight, Known, Delivered, Polling

\* The worker is at none of these.
LEMMA OutIsStraight ==
  ASSUME \/ w'.pc = "idle"
         \/ /\ Known(w'.obj)
            /\ w'.pc \notin {"status", "instance", "recover", "own", "bind", "store"}
  PROVE  Straight'
BY DEF Straight, Known, Polling

\* A request that failed, before SM had anything.
LEMMA ErrorIsStraight ==
  ASSUME w.obj \in Objects, Known(w.obj), NEW type \in OperationCategories,
         Transient(type) \/ NonTransient(type)
  PROVE  Straight'
<1>1. \E p \in {setInProgressCondition(type, w.obj), markAsNonTransientError(type, w.obj)} :
        w'.pc = "status" /\ w'.obj = p
  BY DEF Transient, NonTransient, Save, Saving
<1> QED
  BY <1>1, SettersDoNotCreate, NotCreatedIsStraight

\* What the worker has in its hands, and finds when it looks around.
InHand ==
  /\ IInv /\ SameSecret /\ Straight /\ Shown
  /\ w.pc # "idle" => Exists(apiObj)
  /\ ~w.obj.deleting /\ ~cache.deleting
  /\ ~Removing(Removes)'
  /\ \A n \in SecretNames : secrets[n] # NoSecret => secrets'[n] # NoSecret

\* The worker's copy has an id if it has an operation, and so has the cache's, the last
\* version too; the names they have for the secret are those of secrets.
LEMMA Handed ==
  ASSUME InHand
  PROVE  /\ w.obj \in Objects /\ apiObj \in Objects /\ cache \in Objects /\ found \in FoundTypes
         /\ w \in Workers
         /\ w.pc # "idle" => /\ Exists(w.obj) /\ Known(w.obj) /\ w.obj.secretName \in SecretNames
                             /\ Exists(apiObj) /\ Known(apiObj)
         /\ Exists(cache) => /\ Known(cache) /\ Delivered(cache, secrets')
<1>1. BaseInv /\ {w.obj, cache, apiObj} \subseteq Copies
  BY Parts DEF InHand, Copies
<1>2. /\ w.obj \in Objects /\ apiObj \in Objects /\ cache \in Objects /\ found \in FoundTypes
      /\ w \in Workers
  BY <1>1, Holding DEF InHand, BaseInv, BaseTypes
<1>3. w.pc # "idle" => /\ Exists(w.obj) /\ Known(w.obj) /\ w.obj.secretName \in SecretNames
                       /\ Exists(apiObj) /\ Known(apiObj)
  BY <1>1, LastVersion DEF InHand, IInv, Held, Straight, Shown, SameSecret
<1>4. Exists(cache) => /\ Known(cache) /\ Delivered(cache, secrets)
                       /\ cache.secretName \in SecretNames
  BY <1>1, LastVersion DEF InHand, Shown, SameSecret
<1>5. Exists(cache) => Delivered(cache, secrets')
  BY <1>4 DEF InHand, Delivered
<1> QED
  BY <1>2, <1>3, <1>4, <1>5

\* A Reconcile begins with what the cache shows.
LEMMA ReconcileIsStraight ==
  ASSUME InHand, Reconcile
  PROVE  Straight'
<1>1. CASE UNCHANGED w
  <2>1. w.pc = "idle"
    BY DEF Reconcile, ReconcileWith
  <2> QED
    BY <1>1, <2>1, OutIsStraight
<1>2. CASE Exists(cache) /\ w' = Dispatch(cache, watch = <<>>)
  <2> DEFINE f == watch = <<>>
  <2>1. /\ cache \in Objects /\ Known(cache) /\ apiObj' = apiObj /\ ~cache.deleting
        /\ f => cache = apiObj
    BY <1>2, Handed, CacheIsCurrent DEF InHand, Reconcile, ReconcileWith, IInv
  <2>2. w' = Dispatch(cache, f)
    BY <1>2
  <2> HIDE DEF f
  <2>3. \/ w' = Idle \/ w' = At("poll", cache, f) \/ w' = At("addFinalizer", cache, f)
        \/ w' = At("instance", observe(cache), f)
    BY <2>1, <2>2 DEF Dispatch, isDelete, Proceed
  <2>4. Known(observe(cache)) /\ observe(cache).status.id = cache.status.id
    BY <2>1 DEF observe, Known, Polling, Objects, Statuses
  <2>5. CASE w' = At("instance", observe(cache), f)
    BY <2>1, <2>4, <2>5 DEF At, Straight, Known, Polling
  <2>6. CASE w' = Idle \/ w' = At("poll", cache, f) \/ w' = At("addFinalizer", cache, f)
    BY <2>1, <2>6, OutIsStraight DEF Idle, At, Known, Polling
  <2> QED
    BY <2>3, <2>5, <2>6
<1>3. CASE Exists(cache) /\ w' = Saving(setBlockedCondition(cache), watch = <<>>, "noClient")
  <2>1. NotCreated(setBlockedCondition(cache), cache) /\ Known(cache)
    BY <1>3, Handed, SettersDoNotCreate DEF OperationCategories
  <2>2. w'.pc = "status" /\ w'.obj = setBlockedCondition(cache)
    BY <1>3 DEF Saving
  <2> QED
    BY <2>1, <2>2, NotCreatedIsStraight
<1> QED
  BY <1>1, <1>2, <1>3, Zenon DEF Reconcile, ReconcileWith

\* Where it goes on when a status was written.
LEMMA ContinueIsStraight ==
  ASSUME NEW o \in Objects, Known(o), NEW f, NEW next, w' = Continue(o, f, next),
         f => apiObj'.status.id = o.status.id
  PROVE  Straight'
<1>1. \/ w' = Idle \/ w' = At("instance", observe(o), f) \/ w' = At("deleteSecret", o, f)
      \/ w' = NoClient(o, f)
  BY DEF Continue, Proceed
<1>2. CASE w' = Idle \/ w' = At("deleteSecret", o, f)
  BY <1>2, OutIsStraight DEF Idle, At, Known, Polling
<1>3. CASE w' = At("instance", observe(o), f)
  <2>1. Known(observe(o)) /\ observe(o).status.id = o.status.id
    BY DEF observe, Known, Polling, Objects, Statuses
  <2> QED
    BY <1>3, <2>1 DEF At, Straight, Known, Polling
<1>4. CASE w' = NoClient(o, f)
  <2>1. w'.pc = "status" /\ w'.obj = setFailureConditions("CREATE", o)
    BY <1>4 DEF NoClient, Saving
  <2>2. NotCreated(setFailureConditions("CREATE", o), o)
    BY SettersDoNotCreate DEF OperationCategories
  <2> QED
    BY <2>1, <2>2, NotCreatedIsStraight
<1> QED
  BY <1>1, <1>2, <1>3, <1>4

\* The first attempt to write a status.
LEMMA StatusUpdateIsStraight ==
  ASSUME InHand, StatusUpdate
  PROVE  Straight'
<1>1. /\ w.pc = "status" /\ w.obj \in Objects /\ apiObj \in Objects /\ w \in Workers
      /\ Known(w.obj) /\ Delivered(w.obj, secrets) /\ UNCHANGED ownVars
  BY Handed DEF StatusUpdate, StatusUpdateThen, InHand, Straight
<1>2. CASE /\ w.fresh /\ Write([apiObj EXCEPT !.status = w.obj.status])
           /\ w' = Continue(apiObj', TRUE, w.next)
  <2>1. apiObj' = w.obj
    BY <1>1, <1>2 DEF InHand, IInv, Held, Write, Objects
  <2>2. ASSUME NEW f, f = TRUE PROVE Straight'
    <3>1. w' = Continue(w.obj, f, w.next)
      BY <1>2, <2>1, <2>2
    <3> QED
      BY <1>1, <2>1, <3>1, ContinueIsStraight
  <2> QED
    BY <2>2
<1>3. CASE w' = [w EXCEPT !.try = 2]
  <2>1. w'.pc = "status" /\ w'.obj = w.obj
    BY <1>1, <1>3 DEF Workers
  <2> QED
    BY <1>1, <2>1 DEF Straight, Known, Delivered, Polling, ownVars
<1> QED
  BY <1>2, <1>3, Zenon DEF StatusUpdate, StatusUpdateThen

\* A later attempt takes what the cache shows.
LEMMA StatusRetryIsStraight ==
  ASSUME InHand, StatusRetry
  PROVE  Straight'
<1>1. /\ w.pc = "status" /\ w.obj \in Objects /\ cache \in Objects /\ w \in Workers
      /\ Known(w.obj) /\ Delivered(w.obj, secrets) /\ UNCHANGED ownVars
      /\ Exists(cache) => Known(cache) /\ Delivered(cache, secrets')
  BY Handed DEF StatusRetry, StatusRetryThen, InHand, Straight
<1>2. CASE /\ Exists(cache) /\ Write([cache EXCEPT !.status = w.obj.status])
           /\ w' = Continue(cache, cache.status = w.obj.status, w.next)
  <2>1. apiObj'.status = w.obj.status
    BY <1>1, <1>2 DEF Write, Objects
  <2>2. ASSUME NEW f, f = (cache.status = w.obj.status) PROVE Straight'
    <3>1. w' = Continue(cache, f, w.next) /\ (f => apiObj'.status.id = cache.status.id)
      BY <1>2, <2>1, <2>2
    <3> QED
      BY <1>1, <1>2, <3>1, ContinueIsStraight
  <2> QED
    BY <2>2
<1>3. ASSUME NEW o \in {w.obj, cache}, NEW f, o = cache => Exists(cache) \/ w.obj = cache,
             \/ w' = GiveUp(o, f, w.next)
             \/ w' = [w EXCEPT !.obj = o, !.fresh = f, !.try = @ + 1]
      PROVE  Straight'
  <2>1. Known(o) /\ Delivered(o, secrets') /\ o \in Objects
    BY <1>1, <1>3 DEF ownVars
  <2>2. CASE w' = Idle
    BY <2>2, OutIsStraight DEF Idle
  <2>3. CASE w' = NoClient(o, f)
    <3>1. w'.pc = "status" /\ w'.obj = setFailureConditions("CREATE", o)
      BY <2>3 DEF NoClient, Saving
    <3>2. NotCreated(setFailureConditions("CREATE", o), o)
      BY <2>1, SettersDoNotCreate DEF OperationCategories
    <3> QED
      BY <2>1, <3>1, <3>2, NotCreatedIsStraight
  <2>4. CASE w' = [w EXCEPT !.obj = o, !.fresh = f, !.try = @ + 1]
    <3>1. w'.pc = "status" /\ w'.obj = o
      BY <1>1, <2>4 DEF Workers
    <3> QED
      BY <2>1, <3>1 DEF Straight, Known, Delivered, Polling
  <2> QED
    BY <1>3, <2>2, <2>3, <2>4 DEF GiveUp
<1>4. ASSUME LET o == IF Exists(cache) THEN cache ELSE w.obj
                 f == Exists(cache) /\ watch = <<>>
             IN w' = [w EXCEPT !.obj = o, !.fresh = f, !.try = @ + 1] \/ w' = GiveUp(o, f, w.next)
      PROVE  Straight'
  <2> DEFINE o == IF Exists(cache) THEN cache ELSE w.obj
             f == Exists(cache) /\ watch = <<>>
  <2>1. o \in {w.obj, cache} /\ (o = cache => Exists(cache) \/ w.obj = cache)
    OBVIOUS
  <2>2. w' = [w EXCEPT !.obj = o, !.fresh = f, !.try = @ + 1] \/ w' = GiveUp(o, f, w.next)
    BY <1>4
  <2> HIDE DEF o, f
  <2> QED
    BY <1>3, <2>1, <2>2
<1>5. \/ /\ Exists(cache) /\ Write([cache EXCEPT !.status = w.obj.status])
         /\ w' = Continue(cache, cache.status = w.obj.status, w.next)
      \/ LET o == IF Exists(cache) THEN cache ELSE w.obj
             f == Exists(cache) /\ watch = <<>>
         IN w' = [w EXCEPT !.obj = o, !.fresh = f, !.try = @ + 1] \/ w' = GiveUp(o, f, w.next)
  BY Zenon DEF StatusRetry, StatusRetryThen
<1> QED
  BY <1>2, <1>4, <1>5

\* init begins with what the API server has; a resource that is to stay is not gone.
LEMMA InitFinalizerIsStraight ==
  ASSUME InHand, ~(Exists(w.obj) /\ ~Exists(cache)), InitFinalizer
  PROVE  Straight'
<1>1. /\ BaseInv /\ Held /\ apiObj \in Objects /\ w.pc = "addFinalizer" /\ Exists(w.obj)
  BY Parts, Handed DEF InHand, InitFinalizer, AddFinalizer
<1>2. CASE w' = Idle
  BY <1>2, OutIsStraight DEF Idle
<1>3. CASE /\ w'.pc = "status" /\ apiObj' = [apiObj EXCEPT !.finalizer = TRUE]
           /\ w'.obj = setInProgressCondition("CREATE", apiObj')
  <2>1. Known(apiObj)
    BY <1>1, Handed
  <2>2. apiObj' \in Objects /\ Known(apiObj')
    BY <1>1, <1>3, <2>1 DEF Objects, Known, Polling
  <2>3. ASSUME NEW o \in Objects, Known(o), o = apiObj' PROVE Straight'
    <3>1. NotCreated(setInProgressCondition("CREATE", o), o)
      BY SettersDoNotCreate DEF OperationCategories
    <3> QED
      BY <1>3, <2>3, <3>1, NotCreatedIsStraight
  <2> QED
    BY <2>2, <2>3
<1> QED
  BY <1>1, <1>2, <1>3, AddFinalizerOutcome DEF InitFinalizer

\* The instance is read: the binding is blocked, or recovered if it has no id.
LEMMA ReadInstanceIsStraight ==
  ASSUME InHand, ReadInstance
  PROVE  Straight'
<1>1. w.pc = "instance" /\ w.obj \in Objects /\ Known(w.obj)
  BY Handed DEF ReadInstance
<1>2. \/ w' = Idle
      \/ w.obj.status.id = NoId /\ Goto("recover", w.obj) /\ UNCHANGED apiObj
      \/ \E p \in {setBlockedCondition(w.obj), setInProgressCondition("CREATE", w.obj)} :
           Save(p, "done") \/ Save(p, "requeue")
  BY Zenon DEF ReadInstance, Restart
<1>3. CASE w' = Idle
  BY <1>3, OutIsStraight DEF Idle
<1>4. CASE w.obj.status.id = NoId /\ Goto("recover", w.obj) /\ UNCHANGED apiObj
  BY <1>1, <1>4 DEF InHand, Straight, Goto, At, Known, Polling
<1>5. ASSUME NEW p \in {setBlockedCondition(w.obj), setInProgressCondition("CREATE", w.obj)},
             Save(p, "done") \/ Save(p, "requeue")
      PROVE  Straight'
  <2>1. w'.pc = "status" /\ w'.obj = p
    BY <1>5 DEF Save, Saving
  <2>2. NotCreated(p, w.obj)
    BY <1>1, <1>5, SettersDoNotCreate DEF OperationCategories
  <2> QED
    BY <1>1, <2>1, <2>2, NotCreatedIsStraight
<1> QED
  BY <1>2, <1>3, <1>4, <1>5

\* A binding that recovery found has its id written; and it says that it was created
\* only if SM does.
LEMMA ResyncedIs ==
  ASSUME NEW o \in Objects, NEW f \in FoundTypes, f.op # NoOp, f.id # NoId,
         f.state \in OperationStates
  PROVE  LET p == resyncBindingStatus(o, f)
         IN /\ p.status.id = f.id /\ p.secretName = o.secretName
            /\ p.status.cond.reason = "Created" => f.op.type = "CREATE" /\ f.state = "SUCCEEDED"
<1> DEFINE r == [o EXCEPT !.status.obs = o.gen, !.status.id = f.id, !.status.op = NoOp]
           op == [type |-> f.op.type, id |-> f.id, n |-> f.op.n]
           q == [r EXCEPT !.status.id = f.id, !.status.op = op]
<1>1. /\ r \in Objects /\ r.status.id = f.id /\ r.secretName = o.secretName
      /\ f.op.type \in OperationCategories /\ f.id \in IDs /\ f.op.n \in Nat
  BY DEF Objects, Statuses, OpRefs, NoOp, FoundTypes
<1> HIDE DEF r
<1>2. op \in OpRefs
  BY <1>1 DEF OpRefs
<1> HIDE DEF op
<1>3. q \in Objects /\ q.status.id = f.id /\ q.secretName = o.secretName
  BY <1>1, <1>2 DEF Objects, Statuses
<1> HIDE DEF q
<1>4. /\ getConditionReason(f.op.type, "IN_PROGRESS") # "Created"
      /\ getConditionReason(f.op.type, "FAILED") # "Created"
      /\ getConditionReason(f.op.type, "SUCCEEDED") = "Created" => f.op.type = "CREATE"
  BY <1>1 DEF getConditionReason, OperationCategories
<1>5. ASSUME NEW a \in Objects, a.status.id = f.id, a.secretName = o.secretName, NEW c
      PROVE  /\ WithConditions(a, c).status.id = f.id
             /\ WithConditions(a, c).secretName = o.secretName
             /\ WithConditions(a, c).status.cond = c
  BY <1>5 DEF WithConditions, Objects, Statuses
<1>6. resyncBindingStatus(o, f) = CASE f.state = "IN_PROGRESS" -> setInProgressCondition(f.op.type, q)
                                    [] f.state = "SUCCEEDED" -> setSuccessConditions(f.op.type, r)
                                    [] f.state = "FAILED" -> setFailureConditions(f.op.type, r)
  BY DEF resyncBindingStatus, InOperation, r, q, op
<1>7. CASE f.state = "IN_PROGRESS"
  BY <1>3, <1>4, <1>5, <1>6, <1>7 DEF setInProgressCondition
<1>8. CASE f.state = "SUCCEEDED"
  BY <1>1, <1>4, <1>5, <1>6, <1>8 DEF setSuccessConditions
<1>9. CASE f.state = "FAILED"
  BY <1>1, <1>4, <1>5, <1>6, <1>9 DEF setFailureConditions
<1> QED
  BY <1>7, <1>8, <1>9 DEF OperationStates

\* What recovery leads to once the owner is set.
LEMMA AfterOwnerIsStraight ==
  ASSUME NEW o \in Objects, Known(o), o.status.id = NoId, NEW fresh,
         NEW f \in FoundTypes, f = found',
         f.id # NoId => f.op # NoOp /\ f.state \in OperationStates,
         w' = AfterOwner(o, fresh, f)
  PROVE  Straight'
<1>1. CASE f.id = NoId /\ w' = At("bind", o, fresh)
  BY <1>1 DEF At, Straight, Known, Polling
<1>2. CASE f.id # NoId /\ w' = At("store", o, fresh)
  BY <1>2 DEF At, Straight, Known, Polling
<1>3. CASE /\ f.id # NoId /\ f.op.type = "CREATE" /\ f.state # "SUCCEEDED"
           /\ w' = Saving(resyncBindingStatus(o, f), fresh, "done")
  <2>1. /\ resyncBindingStatus(o, f).status.id = f.id
        /\ resyncBindingStatus(o, f).status.cond.reason # "Created"
    BY <1>3, ResyncedIs
  <2>2. w'.pc = "status" /\ w'.obj = resyncBindingStatus(o, f)
    BY <1>3 DEF Saving
  <2> QED
    BY <1>3, <2>1, <2>2 DEF Straight, Known, Delivered, Polling
<1> QED
  BY <1>1, <1>2, <1>3 DEF AfterOwner

\* Recovery has found a binding, or none.
LEMMA RecoverIsStraight ==
  ASSUME InHand, IInv', Recover
  PROVE  Straight'
<1>1. /\ w.pc = "recover" /\ w.obj \in Objects /\ Known(w.obj) /\ w.obj.status.id = NoId
      /\ w.fresh => apiObj.status.id = w.obj.status.id
  BY Handed DEF Recover, InHand, Straight
<1>2. found' \in FoundTypes /\ FoundIsTrue' /\ UNCHANGED apiObj
  BY DEF Recover, IInv, TypeOK
<1>3. found'.id # NoId => found'.op # NoOp
  <2>1. CASE UNCHANGED found
    BY <1>1, <2>1 DEF InHand, IInv, CallsAreMeant
  <2>2. ASSUME NEW i \in IDs, found' = Recovered(i) PROVE found'.op # NoOp
    <3>1. found'.op.id = i /\ i # NoId
      BY <2>2, Handed, ServiceManagerAssumption DEF Recovered, FoundTypes
    <3> QED
      BY <3>1 DEF NoOp
  <2> QED
    BY <2>1, <2>2 DEF Recover
<1>4. found'.op # NoOp => found'.state \in OperationStates
  BY <1>2 DEF FoundIsTrue
<1>5. CASE w' = AfterOwner(w.obj, w.fresh, found')
  <2>1. ASSUME NEW f, f = found' PROVE Straight'
    BY <1>1, <1>2, <1>3, <1>4, <1>5, <2>1, AfterOwnerIsStraight
  <2> QED
    BY <2>1
<1>6. CASE w' = At("own", w.obj, w.fresh)
  BY <1>1, <1>2, <1>6 DEF At, Straight, Known, Polling
<1> QED
  BY <1>5, <1>6 DEF Recover

\* The owner is set on what the API server has, or is not.
LEMMA SetOwnerIsStraight ==
  ASSUME InHand, SetOwner
  PROVE  Straight'
<1>1. /\ w.pc = "own" /\ w.obj \in Objects /\ Known(w.obj) /\ w.obj.status.id = NoId
      /\ w.fresh => apiObj.status.id = NoId
      /\ apiObj \in Objects /\ Known(apiObj) /\ found \in FoundTypes
      /\ found.id # NoId => found.op # NoOp /\ found.state \in OperationStates
  BY Handed DEF SetOwner, InHand, Straight, IInv, CallsAreMeant, FoundIsTrue
<1>2. CASE /\ w.fresh /\ Write([apiObj EXCEPT !.owner = found.owner]) /\ UNCHANGED found
           /\ w' = AfterOwner(Returned(apiObj'), TRUE, found)
  <2>1. apiObj' \in Objects /\ apiObj'.status.id = NoId /\ Known(apiObj')
    BY <1>1, <1>2 DEF Write, Objects, FoundTypes, Known, Polling
  <2>2. ASSUME NEW a \in Objects, a.status.id = NoId, Known(a)
        PROVE  Returned(a) \in Objects /\ Returned(a).status.id = NoId /\ Known(Returned(a))
    <3>1. w.obj.status.obs \in Nat
      BY <1>1 DEF Objects, Statuses
    <3> QED
      BY <2>2, <3>1 DEF Returned, Objects, Statuses, Known, Polling
  <2>3. ASSUME NEW o \in Objects, o.status.id = NoId, Known(o), o = Returned(apiObj'),
               NEW f, f = found', NEW fresh, fresh = TRUE
        PROVE  Straight'
    <3>1. w' = AfterOwner(o, fresh, f) /\ f = found
      BY <1>2, <2>3
    <3> QED
      BY <1>1, <2>3, <3>1, AfterOwnerIsStraight
  <2>4. ASSUME NEW a \in Objects, a.status.id = NoId, Known(a), a = apiObj' PROVE Straight'
    BY <2>2, <2>3, <2>4
  <2> QED
    BY <2>1, <2>4
<1>3. CASE Save(setFailureConditions("CREATE", w.obj), "requeue")
  <2>1. w'.pc = "status" /\ w'.obj = setFailureConditions("CREATE", w.obj)
    BY <1>3 DEF Save, Saving
  <2>2. NotCreated(setFailureConditions("CREATE", w.obj), w.obj)
    BY <1>1, SettersDoNotCreate DEF OperationCategories
  <2> QED
    BY <1>1, <2>1, <2>2, NotCreatedIsStraight
<1>4. CASE Requeue
  BY <1>4, OutIsStraight DEF Requeue, Idle
<1> QED
  BY <1>2, <1>3, <1>4, Zenon DEF SetOwner, Return

\* SM was asked for the binding.
LEMMA BindIsStraight ==
  ASSUME InHand, Bind
  PROVE  Straight'
<1>1. /\ w.pc = "bind" /\ w.obj \in Objects /\ Known(w.obj) /\ w.obj.status.id = NoId
      /\ found \in FoundTypes
  BY Handed DEF Bind, InHand, Straight
<1>2. \/ \E i \in FreeIDs : Goto("store", w.obj) /\ found' = [found EXCEPT !.id = i]
      \/ \E i \in FreeIDs : Save(InOperation("CREATE", i, 1, w.obj), "requeue")
      \/ Transient("CREATE") \/ NonTransient("CREATE")
  BY Zenon DEF Bind, Unanswered, Return
<1>3. ASSUME NEW i \in FreeIDs, Goto("store", w.obj), found' = [found EXCEPT !.id = i]
      PROVE  Straight'
  <2>1. found'.id # NoId
    BY <1>1, <1>3, ServiceManagerAssumption DEF FreeIDs, FoundTypes
  <2> QED
    BY <1>1, <1>3, <2>1 DEF Goto, At, Straight, Known, Polling
<1>4. ASSUME NEW i \in FreeIDs, Save(InOperation("CREATE", i, 1, w.obj), "requeue")
      PROVE  Straight'
  <2> DEFINE o == [w.obj EXCEPT !.status.id = i, !.status.op = [type |-> "CREATE", id |-> i, n |-> 1]]
  <2>1. i \in IDs /\ i # NoId /\ [type |-> "CREATE", id |-> i, n |-> 1] \in OpRefs
    BY ServiceManagerAssumption DEF FreeIDs, OpRefs, OperationCategories
  <2>2. o \in Objects /\ o.status.id = i
    BY <1>1, <2>1 DEF Objects, Statuses
  <2>3. w'.pc = "status" /\ w'.obj = setInProgressCondition("CREATE", o)
    BY <1>4 DEF Save, Saving, InOperation
  <2> HIDE DEF o
  <2>4. NotCreated(setInProgressCondition("CREATE", o), o)
    BY <2>2, SettersDoNotCreate DEF OperationCategories
  <2> QED
    BY <2>1, <2>2, <2>3, <2>4, NotCreatedIsStraight DEF Known
<1>5. CASE Transient("CREATE") \/ NonTransient("CREATE")
  BY <1>1, <1>5, ErrorIsStraight DEF OperationCategories
<1> QED
  BY <1>2, <1>3, <1>4, <1>5

\* The secret that is stored is there when the binding is said to be created.
LEMMA StoreIsStraight ==
  ASSUME InHand, storeBindingSecret
  PROVE  Straight'
<1>1. /\ w.pc = "store" /\ w.obj \in Objects /\ Known(w.obj) /\ w.obj.secretName \in SecretNames
      /\ found \in FoundTypes /\ FoundIsTrue /\ found.id # NoId
      /\ Polling(w.obj) => w.obj.status.id = found.id
  BY Handed DEF storeBindingSecret, InHand, Straight, IInv
<1>2. \/ /\ secrets' = IF secrets[w.obj.secretName] # NoSecret THEN secrets
                       ELSE [secrets EXCEPT ![w.obj.secretName] = BindingSecret(w.obj, found.id)]
         /\ AfterStore
      \/ NotStored
  BY Zenon DEF storeBindingSecret, Return
<1>3. CASE /\ secrets' = IF secrets[w.obj.secretName] # NoSecret THEN secrets
                         ELSE [secrets EXCEPT ![w.obj.secretName] = BindingSecret(w.obj, found.id)]
           /\ AfterStore
  <2>1. secrets'[w.obj.secretName] # NoSecret
    <3>1. secrets \in [SecretNames -> SecretTypes]
      BY DEF InHand, IInv, TypeOK
    <3>2. BindingSecret(w.obj, found.id) # NoSecret
      BY DEF BindingSecret, NoSecret
    <3> QED
      BY <1>1, <1>3, <3>1, <3>2
  <2>2. ASSUME NEW p, Save(p, "done"), p.status.id = found.id, p.secretName = w.obj.secretName
        PROVE  Straight'
    <3>1. w'.pc = "status" /\ w'.obj = p
      BY <2>2 DEF Save, Saving
    <3> QED
      BY <1>1, <2>1, <2>2, <3>1 DEF Straight, Known, Delivered, Polling
  <2>3. CASE Polling(w.obj) /\ Save(ClearOp(w.obj), "done")
    <3>1. ClearOp(w.obj).status.id = found.id /\ ClearOp(w.obj).secretName = w.obj.secretName
      BY <1>1, <2>3 DEF ClearOp, Objects, Statuses
    <3> QED
      BY <2>2, <2>3, <3>1
  <2>4. CASE found.op # NoOp /\ Save(resyncBindingStatus(w.obj, found), "done")
    <3>1. found.state \in OperationStates
      BY <1>1, <2>4 DEF FoundIsTrue
    <3>2. /\ resyncBindingStatus(w.obj, found).status.id = found.id
          /\ resyncBindingStatus(w.obj, found).secretName = w.obj.secretName
      BY <1>1, <2>4, <3>1, ResyncedIs
    <3> QED
      BY <2>2, <2>4, <3>2
  <2>5. CASE Save(setSuccessConditions("CREATE", [w.obj EXCEPT !.status.id = found.id]), "done")
    <3> DEFINE p == setSuccessConditions("CREATE", [w.obj EXCEPT !.status.id = found.id])
    <3>1. p.status.id = found.id /\ p.secretName = w.obj.secretName
      BY <1>1 DEF setSuccessConditions, WithConditions, Objects, Statuses
    <3> QED
      BY <2>2, <2>5, <3>1
  <2> QED
    BY <1>3, <2>3, <2>4, <2>5 DEF AfterStore
<1>4. CASE NotStored
  <2>1. ASSUME NEW type \in OperationCategories, Save(setFailureConditions(type, w.obj), "requeue")
        PROVE  Straight'
    <3>1. w'.pc = "status" /\ w'.obj = setFailureConditions(type, w.obj)
      BY <2>1 DEF Save, Saving
    <3> QED
      BY <1>1, <2>1, <3>1, SettersDoNotCreate, NotCreatedIsStraight
  <2>2. found.op # NoOp => found.op.type \in OperationCategories
    BY <1>1 DEF FoundTypes, OpRefs
  <2>3. CASE Requeue
    BY <2>3, OutIsStraight DEF Requeue, Idle
  <2> QED
    BY <1>4, <2>1, <2>2, <2>3 DEF NotStored, OperationCategories
<1> QED
  BY <1>2, <1>3, <1>4

\* The operation is polled: what is left of it is no creation, or it is fetched.
LEMMA PollIsStraight ==
  ASSUME InHand, Poll
  PROVE  Straight'
<1> DEFINE op == w.obj.status.op
           failed == setFailureConditions(op.type, w.obj)
           succeeded == setSuccessConditions(op.type, w.obj)
           unread == [w.obj EXCEPT !.status = freshStatus(w.obj, failed.status.cond)]
<1>1. w.pc = "poll" /\ w.obj \in Objects /\ Known(w.obj) /\ Polling(w.obj)
  BY Handed DEF Poll, InHand, IInv, CallsAreMeant
<1>2. op.type \in OperationCategories
  BY <1>1 DEF Polling, Objects, Statuses, OpRefs
<1>3. NotCreated(failed, w.obj)
  BY <1>1, <1>2, SettersDoNotCreate
<1>4. \/ Requeue
      \/ Save(unread, "requeue")
      \/ Save(ClearOp(failed), "requeue") \/ Save(ClearOp(failed), "done")
      \/ Goto("fetch", succeeded)
      \/ removeBindingFromKubernetes(w.obj)
  BY DEF Poll
<1>5. CASE Requeue
  BY <1>5, OutIsStraight DEF Requeue, Idle
<1>6. ASSUME NEW p, NEW next, Save(p, next), ~Polling(p), p.status.cond.reason # "Created"
      PROVE  Straight'
  BY <1>6 DEF Save, Saving, Straight, Known, Delivered, Polling
<1>7. CASE Save(unread, "requeue")
  <2>1. ~Polling(unread) /\ unread.status.cond = failed.status.cond
    BY <1>1 DEF freshStatus, EmptyStatus, Polling, Objects, NoOp
  <2> QED
    BY <1>3, <1>6, <1>7, <2>1 DEF NotCreated
<1>8. CASE Save(ClearOp(failed), "requeue") \/ Save(ClearOp(failed), "done")
  <2>1. ~Polling(ClearOp(failed)) /\ ClearOp(failed).status.cond.reason # "Created"
    BY <1>1, <1>3 DEF NotCreated, ClearOp, setFailureConditions, WithConditions, Polling, Objects,
       Statuses
  <2> QED
    BY <1>6, <1>8, <2>1
<1>9. CASE Goto("fetch", succeeded)
  <2>1. Known(succeeded)
    BY <1>1 DEF setSuccessConditions, WithConditions, Known, Polling, Objects, Statuses
  <2>2. w'.pc = "fetch" /\ w'.obj = succeeded
    BY <1>9 DEF Goto, At
  <2> QED
    BY <2>1, <2>2, OutIsStraight DEF Known, Polling
<1>10. ~removeBindingFromKubernetes(w.obj)
  BY AsideTurns DEF InHand, Removing
<1> QED
  BY <1>4, <1>5, <1>7, <1>8, <1>9, <1>10

\* The binding that was created is fetched by its id.
LEMMA FetchIsStraight ==
  ASSUME InHand, GetBindingByID
  PROVE  Straight'
<1>1. /\ w.pc = "fetch" /\ w.obj \in Objects /\ Known(w.obj)
      /\ \A i \in Live : i # NoId
  BY Handed, ServiceManagerAssumption DEF GetBindingByID, Live
<1>2. CASE Requeue
  BY <1>2, OutIsStraight DEF Requeue, Idle
<1>3. CASE /\ w.obj.status.id \in Live /\ Goto("store", w.obj)
           /\ found' = [Nothing EXCEPT !.id = w.obj.status.id]
  <2>1. found'.id = w.obj.status.id
    BY <1>3 DEF Nothing
  <2> QED
    BY <1>1, <1>3, <2>1 DEF Goto, At, Straight, Known, Polling
<1> QED
  BY <1>2, <1>3 DEF GetBindingByID

\* Nobody but the worker disturbs it.
LEMMA OthersLeaveStraight ==
  ASSUME InHand,
         \/ User \/ CollectBinding \/ Secrets \/ Instance \/ Informer \/ Stop
         \/ ServiceManagerStep \/ UNCHANGED vars
  PROVE  Straight'
<1>1. w \in Workers
  BY Handed
<1>2. CASE w' = Idle
  BY <1>2, OutIsStraight DEF Idle
<1>3. CASE /\ w' # Idle
           /\ w'.pc = w.pc /\ w'.next = w.next /\ w'.obj = w.obj
           /\ w'.fresh => w.fresh /\ UNCHANGED apiObj
  <2>1. UNCHANGED found
    BY <1>3 DEF User, CollectBinding, Secrets, SyncSecrets, CollectSecret, Intrude, Instance,
       InstanceStep, Informer, Stop, Restart, ServiceManagerStep, Finish, vars, ownVars
  <2>2. w.pc # "idle" => Known(w.obj) /\ w.obj.secretName \in SecretNames
    BY Handed
  <2>3. w.pc = "status" /\ Delivered(w.obj, secrets) => Delivered(w.obj, secrets')
    BY <2>2 DEF Delivered, InHand
  <2> QED
    BY <1>3, <2>1, <2>2, <2>3 DEF InHand, Straight, Known, Delivered, Polling
<1> QED
  BY <1>1, <1>2, <1>3, OthersLeaveWorker

\* The worker goes on with ids, and with a secret when it says that one was created.
LEMMA StraightNext ==
  ASSUME MaxLives <= 1, Names = {K8sName}, DropsFailed = FALSE, "list" \notin SMFaults,
         Intruders = FALSE, GInv, SameSecret, Stays, Stays', Delivery, [Next]_vars
  PROVE  Straight'
<1>1. GInv' /\ IInv /\ IInv'
  BY NextGInv DEF GInv
<1>2. InHand
  BY <1>1, StaysMeans, SecretsKept DEF InHand, Delivery
<1>3. ~(Exists(w.obj) /\ ~Exists(cache))
  BY StaysMeans DEF GInv, OneLife, Vanished, Doomed
<1>4. ~(RecoverForDelete \/ Unbind \/ deleteBindingSecret \/ DropFinalizer)
  <2>1. /\ w.pc \notin Removes
        /\ w.pc # "recoverForDelete" /\ w.pc # "unbind"
    BY StaysMeans DEF GInv, Removing, IInv, CallsAreMeant
  <2> QED
    BY <2>1 DEF RecoverForDelete, Unbind, deleteBindingSecret, DropFinalizer, RemoveFinalizer,
       Removes
<1>5. CASE Worker
  BY <1>1, <1>2, <1>3, <1>4, <1>5, ReconcileIsStraight, StatusUpdateIsStraight,
     StatusRetryIsStraight, InitFinalizerIsStraight, ReadInstanceIsStraight, RecoverIsStraight,
     SetOwnerIsStraight, BindIsStraight, StoreIsStraight, PollIsStraight, FetchIsStraight
     DEF Worker
<1>6. CASE \/ User \/ CollectBinding \/ Secrets \/ Instance \/ Informer \/ Stop
           \/ ServiceManagerStep \/ UNCHANGED vars
  BY <1>2, <1>6, OthersLeaveStraight
<1> QED
  BY <1>5, <1>6 DEF Next

\* What holds while a binding is on its way to its credentials, or has them.
EInv == GInv /\ Born /\ Blank /\ SameSecret /\ Delivery

LEMMA InitEInv == Init => EInv
<1> SUFFICES ASSUME Init PROVE EInv
  OBVIOUS
<1>1. /\ GInv /\ apiObj = NoObject /\ cache = NoObject /\ watch = <<>> /\ w = Idle
      /\ secrets = [name \in SecretNames |-> NoSecret] /\ ~Exists(NoObject)
  BY InitGInv DEF Init, NoObject, Exists
<1>2. Born /\ SameSecret
  BY <1>1 DEF Born, SameSecret, Copies, Idle
<1>3. Blank
  BY <1>1 DEF Blank
<1>4. Delivery
  <2>1. SecretsOwn
    BY <1>1 DEF SecretsOwn
  <2>2. Shown
    <3>1. Version(0) = NoObject /\ Len(watch) = 0
      BY <1>1 DEF Version
    <3> QED
      BY <1>1, <3>1 DEF Shown
  <2>3. Straight
    BY <1>1 DEF Straight, Idle
  <2> QED
    BY <2>1, <2>2, <2>3 DEF Delivery
<1> QED
  BY <1>1, <1>2, <1>3, <1>4 DEF EInv

LEMMA NextEInv ==
  ASSUME MaxLives <= 1, MaxGen <= 1 \/ SecretNames = {K8sName}, Names = {K8sName},
         DropsFailed = FALSE, "list" \notin SMFaults, Intruders = FALSE
  PROVE  EInv /\ [Next]_vars => EInv'
<1> SUFFICES ASSUME EInv, [Next]_vars PROVE EInv'
  OBVIOUS
<1>1. IInv
  BY DEF EInv, GInv
<1>2. GInv' /\ Born' /\ Blank' /\ SameSecret'
  BY <1>1, NextGInv, BornKept, BlankKept, SameSecretKept DEF EInv
<1>3. ASSUME Stays' PROVE SecretsOwn' /\ Shown' /\ Straight'
  <2>1. Stays
    BY <1>1, <1>3, StayedBefore
  <2> QED
    BY <1>3, <2>1, SecretsKept, ShownNext, StraightNext DEF EInv
<1>4. Delivery'
  BY <1>3 DEF Delivery
<1> QED
  BY <1>2, <1>4 DEF EInv

\* A binding that came to rest as created has its credentials in its secret: the
\* secret is stored before the status says so, and holds what SM has, which is one
\* binding. It holds for one incarnation, whose secret keeps its name (the webhook lets
\* it be edited) and which finds no secret of somebody else under it (a secret that is
\* there already is taken for its own).
THEOREM BindingDelivered ==
  ASSUME MaxLives <= 1, MaxGen <= 1 \/ SecretNames = {K8sName}, Names = {K8sName},
         DropsFailed = FALSE, "list" \notin SMFaults, Intruders = FALSE
  PROVE  Spec => []SecretDelivered
<1>1. EInv => SecretDelivered
  <2> SUFFICES ASSUME EInv, apiObj.status.cond.reason = "Created", ~apiObj.deleting
               PROVE  secrets[apiObj.secretName].cred = apiObj.status.id
    BY DEF SecretDelivered
  <2>1. /\ IInv /\ BaseInv /\ apiObj \in Copies /\ apiObj \in Objects
        /\ Delivery /\ \A i, j \in Used : i = j
    BY Parts DEF EInv, GInv, OneLife, Copies, BaseInv, BaseTypes
  <2>2. Exists(apiObj)
    BY DEF EInv, Blank, NoObject, EmptyStatus, NoConditions
  <2>3. SecretsOwn /\ Known(apiObj) /\ Delivered(apiObj, secrets)
    BY <2>1, <2>2, LastVersion DEF Delivery, Stays, Shown
  <2>4. apiObj.secretName \in SecretNames
    BY <2>1, <2>2 DEF EInv, SameSecret
  <2>5. apiObj.status.id # NoId /\ secrets[apiObj.secretName].cred \in Used
    BY <2>3, <2>4 DEF Delivered, SecretsOwn
  <2>6. apiObj.status.id \in Used
    <3>1. apiObj.status.id \in IDs /\ sm[apiObj.status.id].ops # <<>>
      BY <2>1, <2>5 DEF IInv, Truthful, Recorded, Objects, Statuses
    <3> QED
      BY <3>1 DEF Used, FreeIDs
  <2> QED
    BY <2>1, <2>5, <2>6
<1> QED
  BY <1>1, InitEInv, NextEInv, PTL DEF Spec
=============================================================================
