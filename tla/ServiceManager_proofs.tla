------------------------ MODULE ServiceManager_proofs ------------------------
(* What an operation of SM does, for the proofs about those who call it. *)
EXTENDS ServiceManager, TLAPS

\* Only the thing i changes, and of what is recorded of it at most the outcomes.
Advanced(i) ==
  /\ sm' \in [IDs -> Things] /\ LiveIsRecorded'
  /\ \A j \in IDs \ {i} : sm'[j] = sm[j]
  /\ \A k \in DOMAIN sm[i].ops :
       /\ k \in DOMAIN sm'[i].ops
       /\ sm'[i].ops[k].type = sm[i].ops[k].type
       /\ sm'[i].ops[k].spec = sm[i].ops[k].spec

\* The new operations of i are op alone, if there is one.
Adds(i, op) ==
  \A k \in DOMAIN sm'[i].ops : k \in DOMAIN sm[i].ops \/ sm'[i].ops[k] = op

\* No operation of i succeeds that had not before.
NoSuccess(i) ==
  \A k \in DOMAIN sm[i].ops :
    sm'[i].ops[k].state = "SUCCEEDED" => sm[i].ops[k].state = "SUCCEEDED"

------------------------------------------------------------------------------
(* The operations one by one *)

\* A request of a type and a state is recorded as an operation.
LEMMA OperationType ==
  ASSUME NEW type \in {"CREATE", "UPDATE", "DELETE"},
         NEW state \in {"SUCCEEDED", "IN_PROGRESS", "FAILED"}, NEW spec \in Requests
  PROVE  Operation(type, state, spec) \in Operations
BY DEF Operation, Operations, OperationCategories, OperationStates

\* A new record of i is of the right type.
LEMMA RecordType ==
  ASSUME sm \in [IDs -> Things], LiveIsRecorded, NEW i \in IDs, NEW r \in Things,
         r.alive => r.ops # <<>>, sm' = [sm EXCEPT ![i] = r]
  PROVE  /\ sm' \in [IDs -> Things] /\ LiveIsRecorded' /\ sm'[i] = r
         /\ \A j \in IDs \ {i} : sm'[j] = sm[j]
BY DEF LiveIsRecorded

\* The operations a deletion finds keep their places.
LEMMA SupersededType ==
  ASSUME sm \in [IDs -> Things], NEW i \in IDs
  PROVE  /\ sm[i].ops \in Seq(Operations)
         /\ Superseded(i) \in Seq(Operations) /\ Len(Superseded(i)) = Len(sm[i].ops)
         /\ \A k \in DOMAIN sm[i].ops :
              /\ Superseded(i)[k].type = sm[i].ops[k].type
              /\ Superseded(i)[k].spec = sm[i].ops[k].spec
              /\ Superseded(i)[k].state = "SUCCEEDED" => sm[i].ops[k].state = "SUCCEEDED"
<1>1. sm[i].ops \in Seq(Operations)
  BY DEF Things
<1>2. \A k \in DOMAIN sm[i].ops : sm[i].ops[k] \in Operations
  BY <1>1
<1>3. \A op \in Operations : /\ [op EXCEPT !.state = "FAILED"] \in Operations
                            /\ [op EXCEPT !.state = "FAILED"].type = op.type
                            /\ [op EXCEPT !.state = "FAILED"].spec = op.spec
                            /\ [op EXCEPT !.state = "FAILED"].state = "FAILED"
  BY DEF Operations, OperationStates
<1>4. Superseded(i) \in [1..Len(sm[i].ops) -> Operations]
  BY <1>1, <1>2, <1>3 DEF Superseded
<1>5. DOMAIN Superseded(i) = DOMAIN sm[i].ops
  BY DEF Superseded
<1>6. \A k \in DOMAIN sm[i].ops :
        /\ Superseded(i)[k].type = sm[i].ops[k].type
        /\ Superseded(i)[k].spec = sm[i].ops[k].spec
        /\ Superseded(i)[k].state = "SUCCEEDED" => sm[i].ops[k].state = "SUCCEEDED"
  BY <1>2, <1>3 DEF Superseded
<1> QED
  BY <1>1, <1>4, <1>5, <1>6

\* SM creates a thing under an id that was free.
LEMMA CreateFacts ==
  ASSUME sm \in [IDs -> Things], LiveIsRecorded, NEW i \in IDs, NEW spec \in Requests,
         NEW state \in {"SUCCEEDED", "IN_PROGRESS"}, SMCreate(i, spec, state)
  PROVE  /\ Advanced(i) /\ Adds(i, Operation("CREATE", state, spec)) /\ NoSuccess(i)
         /\ i \in FreeIDs /\ ~sm[i].alive /\ sm'[i].alive /\ sm'[i].spec = spec
         /\ 1 \in DOMAIN sm'[i].ops /\ sm'[i].ops[1].type = "CREATE"
<1> DEFINE op == Operation("CREATE", state, spec)
           r == [alive |-> TRUE, spec |-> spec, ops |-> <<op>>]
<1>1. op \in Operations /\ op.type = "CREATE"
  BY OperationType DEF Operation
<1>2. i \in FreeIDs /\ sm' = [sm EXCEPT ![i] = r]
  BY DEF SMCreate
<1>3. sm[i].ops = <<>> /\ ~sm[i].alive
  BY <1>2 DEF FreeIDs, LiveIsRecorded
<1> HIDE DEF op
<1>4. r \in Things /\ r.ops # <<>>
  BY <1>1 DEF Things
<1>5. /\ sm' \in [IDs -> Things] /\ LiveIsRecorded' /\ sm'[i] = r
      /\ \A j \in IDs \ {i} : sm'[j] = sm[j]
  BY <1>2, <1>4, RecordType
<1>6. /\ sm'[i].ops = <<op>> /\ sm'[i].alive /\ sm'[i].spec = spec
      /\ DOMAIN sm'[i].ops = {1}
  BY <1>5
<1>7. DOMAIN sm[i].ops = {}
  BY <1>3
<1> QED
  BY <1>1, <1>2, <1>3, <1>5, <1>6, <1>7 DEF Advanced, Adds, NoSuccess, op

\* SM changes a thing, now or later.
LEMMA PatchFacts ==
  ASSUME sm \in [IDs -> Things], LiveIsRecorded, NEW i \in IDs, NEW spec \in Requests,
         NEW state \in {"SUCCEEDED", "IN_PROGRESS"}, SMPatch(i, spec, state)
  PROVE  /\ Advanced(i) /\ Adds(i, Operation("UPDATE", state, spec)) /\ NoSuccess(i)
         /\ sm[i].alive /\ sm'[i].alive /\ sm'[i].spec \in {sm[i].spec, spec}
         /\ state = "SUCCEEDED" => sm'[i].spec = spec
         /\ Len(sm'[i].ops) = Len(sm[i].ops) + 1 /\ Len(sm[i].ops) + 1 \in DOMAIN sm'[i].ops
         /\ sm'[i].ops[Len(sm[i].ops) + 1].type = "UPDATE"
<1> DEFINE op == Operation("UPDATE", state, spec)
           s == IF state = "SUCCEEDED" THEN spec ELSE sm[i].spec
           r == [sm[i] EXCEPT !.spec = s, !.ops = Append(@, op)]
<1>1. op \in Operations /\ op.type = "UPDATE"
  BY OperationType DEF Operation
<1>2. sm[i].alive /\ sm[i] \in Things /\ sm[i].ops \in Seq(Operations)
  BY DEF SMPatch, Things
<1>3. sm' = [sm EXCEPT ![i] = r]
  BY <1>2 DEF SMPatch, Things
<1>4. s \in {sm[i].spec, spec} /\ s \in Requests /\ (state = "SUCCEEDED" => s = spec)
  BY <1>2 DEF Things
<1> HIDE DEF op, s
<1>5. Append(sm[i].ops, op) \in Seq(Operations) /\ Append(sm[i].ops, op) # <<>>
  BY <1>1, <1>2
<1>6. r \in Things /\ r.ops = Append(sm[i].ops, op) /\ r.alive /\ r.spec = s
  BY <1>2, <1>4, <1>5 DEF Things
<1> HIDE DEF r
<1>7. /\ sm' \in [IDs -> Things] /\ LiveIsRecorded' /\ sm'[i] = r
      /\ \A j \in IDs \ {i} : sm'[j] = sm[j]
  BY <1>3, <1>5, <1>6, RecordType
<1>8. sm'[i].ops = Append(sm[i].ops, op) /\ sm'[i].alive /\ sm'[i].spec = s
  BY <1>6, <1>7
<1>9. /\ DOMAIN sm'[i].ops = DOMAIN sm[i].ops \cup {Len(sm[i].ops) + 1}
      /\ Len(sm'[i].ops) = Len(sm[i].ops) + 1 /\ sm'[i].ops[Len(sm[i].ops) + 1] = op
      /\ \A k \in DOMAIN sm[i].ops : sm'[i].ops[k] = sm[i].ops[k]
  BY <1>1, <1>2, <1>8
<1> QED
  BY <1>1, <1>2, <1>4, <1>7, <1>8, <1>9 DEF Advanced, Adds, NoSuccess, op

\* SM deletes a thing at once.
LEMMA DeleteNowFacts ==
  ASSUME sm \in [IDs -> Things], LiveIsRecorded, NEW i \in IDs, SMDeleteNow(i)
  PROVE  /\ Advanced(i) /\ NoSuccess(i)
         /\ DOMAIN sm'[i].ops = DOMAIN sm[i].ops
         /\ ~sm'[i].alive /\ sm'[i].spec = sm[i].spec
<1> DEFINE r == [sm[i] EXCEPT !.alive = FALSE, !.ops = Superseded(i)]
<1>1. sm[i] \in Things /\ Superseded(i) \in Seq(Operations)
  BY SupersededType
<1>2. sm' = [sm EXCEPT ![i] = r]
  BY <1>1 DEF SMDeleteNow, Things
<1>3. r \in Things /\ ~r.alive /\ r.ops = Superseded(i) /\ r.spec = sm[i].spec
  BY <1>1 DEF Things
<1> HIDE DEF r
<1>4. /\ sm' \in [IDs -> Things] /\ LiveIsRecorded' /\ sm'[i] = r
      /\ \A j \in IDs \ {i} : sm'[j] = sm[j]
  BY <1>2, <1>3, RecordType
<1>5. DOMAIN Superseded(i) = DOMAIN sm[i].ops
  BY DEF Superseded
<1> QED
  BY <1>3, <1>4, <1>5, SupersededType DEF Advanced, NoSuccess

\* SM accepts a deletion.
LEMMA DeleteAsyncFacts ==
  ASSUME sm \in [IDs -> Things], LiveIsRecorded, NEW i \in IDs, SMDeleteAsync(i)
  PROVE  /\ Advanced(i) /\ NoSuccess(i)
         /\ Adds(i, Operation("DELETE", "IN_PROGRESS", sm[i].spec))
         /\ sm[i].alive /\ sm'[i].alive /\ sm'[i].spec = sm[i].spec
         /\ Len(sm'[i].ops) = Len(sm[i].ops) + 1 /\ Len(sm[i].ops) + 1 \in DOMAIN sm'[i].ops
         /\ sm'[i].ops[Len(sm[i].ops) + 1].type = "DELETE"
<1> DEFINE op == Operation("DELETE", "IN_PROGRESS", sm[i].spec)
           s == Append(Superseded(i), op)
           r == [sm[i] EXCEPT !.ops = s]
<1>1. /\ sm[i] \in Things /\ sm[i].alive /\ sm[i].ops \in Seq(Operations)
      /\ Superseded(i) \in Seq(Operations) /\ Len(Superseded(i)) = Len(sm[i].ops)
  BY SupersededType DEF SMDeleteAsync
<1>2. op \in Operations /\ op.type = "DELETE"
  BY <1>1, OperationType DEF Operation, Things
<1> HIDE DEF op
<1>3. /\ s \in Seq(Operations) /\ s # <<>>
      /\ DOMAIN s = DOMAIN sm[i].ops \cup {Len(sm[i].ops) + 1}
      /\ Len(s) = Len(sm[i].ops) + 1 /\ s[Len(sm[i].ops) + 1] = op
      /\ \A k \in DOMAIN sm[i].ops : s[k] = Superseded(i)[k]
  <2>1. ASSUME NEW t \in Seq(Operations), NEW u \in Seq(Operations), Len(t) = Len(u)
        PROVE  /\ Append(t, op) \in Seq(Operations) /\ Append(t, op) # <<>>
               /\ DOMAIN Append(t, op) = DOMAIN u \cup {Len(u) + 1}
               /\ Len(Append(t, op)) = Len(u) + 1 /\ Append(t, op)[Len(u) + 1] = op
               /\ \A k \in DOMAIN u : Append(t, op)[k] = t[k]
    BY <1>2, <2>1
  <2> QED
    BY <1>1, <2>1
<1>4. sm' = [sm EXCEPT ![i] = r]
  BY <1>1 DEF SMDeleteAsync, Things, op
<1> HIDE DEF s
<1>5. r \in Things /\ r.ops = s /\ r.alive /\ r.spec = sm[i].spec
  BY <1>1, <1>3 DEF Things
<1> HIDE DEF r
<1>6. /\ sm' \in [IDs -> Things] /\ LiveIsRecorded' /\ sm'[i] = r
      /\ \A j \in IDs \ {i} : sm'[j] = sm[j]
  BY <1>3, <1>4, <1>5, RecordType
<1>7. sm'[i].ops = s /\ sm'[i].alive /\ sm'[i].spec = sm[i].spec
  BY <1>5, <1>6
<1>8. \A k \in DOMAIN sm[i].ops : /\ sm'[i].ops[k] = Superseded(i)[k]
                                 /\ k \in DOMAIN sm'[i].ops
  BY <1>3, <1>7
<1>9. Advanced(i) /\ NoSuccess(i)
  BY <1>6, <1>8, SupersededType DEF Advanced, NoSuccess
<1>10. Adds(i, op)
  BY <1>3, <1>7 DEF Adds
<1> QED
  BY <1>1, <1>2, <1>3, <1>7, <1>9, <1>10 DEF op

\* SM ends the operation in progress: a deletion that succeeds removes the thing, and
\* a creation that fails may.
LEMMA FinishFacts ==
  ASSUME sm \in [IDs -> Things], LiveIsRecorded, NEW i \in IDs, SMFinish(i)
  PROVE  /\ Advanced(i) /\ sm[i].alive /\ Len(sm[i].ops) \in DOMAIN sm[i].ops
         /\ DOMAIN sm'[i].ops = DOMAIN sm[i].ops
         /\ sm'[i].spec \in {sm[i].spec, Last(i).spec}
         /\ \A k \in DOMAIN sm[i].ops : k # Len(sm[i].ops) => sm'[i].ops[k] = sm[i].ops[k]
         /\ ~sm'[i].alive => Last(i).type = "DELETE" \/ DropsFailed
         /\ Last(i).type = "DELETE" /\ sm'[i].ops[Len(sm[i].ops)].state = "SUCCEEDED"
              => ~sm'[i].alive
         /\ Last(i).type = "UPDATE" /\ sm'[i].ops[Len(sm[i].ops)].state = "SUCCEEDED"
              => sm'[i].spec = Last(i).spec
         /\ Last(i).type # "UPDATE" => sm'[i].spec = sm[i].spec
<1>1. /\ sm[i] \in Things /\ sm[i].alive
      /\ sm[i].ops \in Seq(Operations) /\ sm[i].ops # <<>>
  BY DEF Things, LiveIsRecorded, SMFinish, Busy
<1>2. PICK state \in {"SUCCEEDED", "FAILED"}, removed \in BOOLEAN :
        /\ removed => Last(i).type = "DELETE" \/ DropsFailed
        /\ Last(i).type = "DELETE" /\ state = "SUCCEEDED" => removed
        /\ sm' = [sm EXCEPT
             ![i].alive = ~removed,
             ![i].spec = IF Last(i).type = "UPDATE" /\ state = "SUCCEEDED" THEN Last(i).spec ELSE @,
             ![i].ops[Len(sm[i].ops)].state = state]
  <2>1. PICK state \in {"SUCCEEDED"} \cup (IF "operation" \in SMFaults THEN {"FAILED"} ELSE {}),
             dropped \in {FALSE, DropsFailed} :
          LET op == Last(i)
              removed == \/ op.type = "DELETE" /\ state = "SUCCEEDED"
                         \/ op.type = "CREATE" /\ state = "FAILED" /\ dropped
          IN sm' = [sm EXCEPT
               ![i].alive = ~removed,
               ![i].spec = IF op.type = "UPDATE" /\ state = "SUCCEEDED" THEN op.spec ELSE @,
               ![i].ops[Len(sm[i].ops)].state = state]
    BY Zenon DEF SMFinish
  <2> DEFINE removed == \/ Last(i).type = "DELETE" /\ state = "SUCCEEDED"
                        \/ Last(i).type = "CREATE" /\ state = "FAILED" /\ dropped
  <2>2. removed \in BOOLEAN /\ state \in {"SUCCEEDED", "FAILED"}
    OBVIOUS
  <2>3. /\ removed => Last(i).type = "DELETE" \/ DropsFailed
        /\ Last(i).type = "DELETE" /\ state = "SUCCEEDED" => removed
    <3>1. dropped => DropsFailed
      BY ServiceManagerAssumption
    <3> QED
      BY <3>1, Zenon
  <2>4. sm' = [sm EXCEPT
          ![i].alive = ~removed,
          ![i].spec = IF Last(i).type = "UPDATE" /\ state = "SUCCEEDED" THEN Last(i).spec ELSE @,
          ![i].ops[Len(sm[i].ops)].state = state]
    BY <2>1
  <2> HIDE DEF removed
  <2> QED
    BY <2>2, <2>3, <2>4, Zenon
<1>3. Len(sm[i].ops) \in DOMAIN sm[i].ops /\ Last(i) \in Operations
  BY <1>1 DEF Last
<1> DEFINE last == [Last(i) EXCEPT !.state = state]
           ops == [sm[i].ops EXCEPT ![Len(sm[i].ops)] = last]
           spec == IF Last(i).type = "UPDATE" /\ state = "SUCCEEDED"
                   THEN Last(i).spec ELSE sm[i].spec
           alive == ~removed
           r == [sm[i] EXCEPT !.alive = alive, !.spec = spec, !.ops = ops]
<1>4. /\ last \in Operations /\ last.state = state
      /\ last.type = Last(i).type /\ last.spec = Last(i).spec
  BY <1>3 DEF Operations, OperationStates
<1>5. sm' = [sm EXCEPT ![i] = r]
  BY <1>1, <1>2, ZenonT(30) DEF Last
<1> HIDE DEF last
<1>6. /\ ops \in Seq(Operations) /\ ops # <<>> /\ DOMAIN ops = DOMAIN sm[i].ops
      /\ \A k \in DOMAIN sm[i].ops : k # Len(sm[i].ops) => ops[k] = sm[i].ops[k]
      /\ ops[Len(sm[i].ops)] = last
  <2>1. sm[i].ops \in [1..Len(sm[i].ops) -> Operations] /\ Len(sm[i].ops) \in Nat \ {0}
    BY <1>1
  <2>2. ops \in [1..Len(sm[i].ops) -> Operations]
    BY <1>4, <2>1
  <2>3. /\ DOMAIN ops = DOMAIN sm[i].ops /\ ops[Len(sm[i].ops)] = last
        /\ \A k \in DOMAIN sm[i].ops : k # Len(sm[i].ops) => ops[k] = sm[i].ops[k]
    BY <1>3
  <2> HIDE DEF ops
  <2> QED
    BY <2>1, <2>2, <2>3
<1>7. /\ spec \in Requests /\ alive \in BOOLEAN /\ spec \in {sm[i].spec, Last(i).spec}
      /\ Last(i).type = "UPDATE" /\ state = "SUCCEEDED" => spec = Last(i).spec
      /\ Last(i).type # "UPDATE" => spec = sm[i].spec
  BY <1>1, <1>3 DEF Things, Operations
<1> HIDE DEF ops, spec, alive
<1>8. r \in Things /\ r.ops = ops /\ r.spec = spec /\ r.alive = alive
  BY <1>1, <1>6, <1>7 DEF Things
<1> HIDE DEF r
<1>9. /\ sm' \in [IDs -> Things] /\ LiveIsRecorded' /\ sm'[i] = r
      /\ \A j \in IDs \ {i} : sm'[j] = sm[j]
  BY <1>5, <1>6, <1>8, RecordType
<1>10. Last(i) = sm[i].ops[Len(sm[i].ops)]
  BY DEF Last
<1>11. \A k \in DOMAIN sm[i].ops : sm'[i].ops[k].type = sm[i].ops[k].type
                                  /\ sm'[i].ops[k].spec = sm[i].ops[k].spec
  BY <1>4, <1>6, <1>8, <1>9, <1>10
<1>12. Advanced(i)
  BY <1>6, <1>8, <1>9, <1>11 DEF Advanced
<1>13. ~sm'[i].alive => Last(i).type = "DELETE" \/ DropsFailed
  BY <1>2, <1>8, <1>9 DEF alive
<1>14. Last(i).type = "DELETE" /\ sm'[i].ops[Len(sm[i].ops)].state = "SUCCEEDED"
         => ~sm'[i].alive
  BY <1>2, <1>4, <1>6, <1>8, <1>9 DEF alive
<1>15. Last(i).type = "UPDATE" /\ sm'[i].ops[Len(sm[i].ops)].state = "SUCCEEDED"
         => sm'[i].spec = Last(i).spec
  BY <1>4, <1>6, <1>7, <1>8, <1>9
<1> QED
  BY <1>1, <1>3, <1>6, <1>7, <1>8, <1>9, <1>12, <1>13, <1>14, <1>15

------------------------------------------------------------------------------
(* What all of them keep *)

\* The invariant of SM itself.
SMInv == sm \in [IDs -> Things] /\ LiveIsRecorded /\ RemovedIsGone

\* What SM has recorded stays recorded.
LEMMA RecordsStay ==
  ASSUME sm \in [IDs -> Things], NEW i \in IDs, Advanced(i)
  PROVE  /\ Used \subseteq Used' /\ Used' \subseteq Used \cup {i}
         /\ \A j \in IDs : \A k \in DOMAIN sm[j].ops :
              k \in DOMAIN sm'[j].ops /\ sm'[j].ops[k].type = sm[j].ops[k].type
<1>1. sm'[i].ops = <<>> => sm[i].ops = <<>>
  <2>1. ASSUME sm[i].ops # <<>>, sm[i].ops \in Seq(Operations) PROVE 1 \in DOMAIN sm[i].ops
    BY <2>1
  <2> QED
    BY <2>1 DEF Advanced, Things
<1> QED
  BY <1>1 DEF Advanced, Used, FreeIDs

\* A step keeps the invariant that brings no success of a deletion for a thing left.
LEMMA RemovedKept ==
  ASSUME SMInv, NEW i \in IDs, Advanced(i), NoSuccess(i),
         sm'[i].alive => sm[i].alive \/ i \in FreeIDs,
         \A k \in DOMAIN sm'[i].ops :
           \/ k \in DOMAIN sm[i].ops
           \/ sm'[i].ops[k].type # "DELETE" \/ sm'[i].ops[k].state # "SUCCEEDED"
  PROVE  SMInv'
<1> SUFFICES ASSUME NEW j \in IDs, NEW k \in DOMAIN sm'[j].ops,
                    sm'[j].ops[k].type = "DELETE", sm'[j].ops[k].state = "SUCCEEDED",
                    sm'[j].alive
             PROVE  FALSE
  BY DEF SMInv, Advanced, RemovedIsGone, Ops
<1>1. j = i
  BY DEF SMInv, Advanced, RemovedIsGone, Ops
<1>2. k \in DOMAIN sm[i].ops
  BY <1>1
<1>3. sm[i].ops[k].type = "DELETE" /\ sm[i].ops[k].state = "SUCCEEDED"
  BY <1>1, <1>2 DEF Advanced, NoSuccess
<1>4. i \notin FreeIDs
  <2>1. DOMAIN <<>> = {}
    OBVIOUS
  <2> QED
    BY <1>2, <2>1 DEF FreeIDs
<1> QED
  BY <1>1, <1>2, <1>3, <1>4 DEF SMInv, RemovedIsGone, Ops

\* Requests with names are recorded with names.
LEMMA NamesKept ==
  ASSUME sm \in [IDs -> Things], RequestsNamed, NEW i \in IDs, Advanced(i),
         sm'[i].spec.name \in Names \/ (i \in Used /\ sm'[i].spec = sm[i].spec),
         \A k \in DOMAIN sm'[i].ops : k \in DOMAIN sm[i].ops \/ sm'[i].ops[k].spec.name \in Names
  PROVE  RequestsNamed'
<1>1. ASSUME NEW k \in DOMAIN sm'[i].ops PROVE sm'[i].ops[k].spec.name \in Names
  <2>1. CASE k \in DOMAIN sm[i].ops
    <3>1. sm[i].ops # <<>>
      BY <2>1
    <3> QED
      BY <2>1, <3>1 DEF Advanced, RequestsNamed, Used, FreeIDs, Ops
  <2> QED
    BY <1>1, <2>1
<1>2. sm'[i].spec.name \in Names
  BY DEF RequestsNamed
<1> SUFFICES ASSUME NEW j \in Used' PROVE
      sm'[j].spec.name \in Names /\ \A k \in DOMAIN sm'[j].ops : sm'[j].ops[k].spec.name \in Names
  BY DEF RequestsNamed, Ops
<1>3. CASE j = i
  BY <1>1, <1>2, <1>3
<1>4. CASE j # i
  BY <1>4 DEF Advanced, RequestsNamed, Used, FreeIDs, Ops
<1> QED
  BY <1>3, <1>4

\* Every request keeps all that.
LEMMA RequestAdvances ==
  ASSUME SMInv, NEW i \in IDs, NEW spec \in Requests, NEW state \in {"SUCCEEDED", "IN_PROGRESS"},
         \/ SMCreate(i, spec, state)
         \/ SMPatch(i, spec, state)
         \/ SMDeleteNow(i)
         \/ SMDeleteAsync(i)
  PROVE  Advanced(i) /\ SMInv'
<1>1. CASE SMCreate(i, spec, state)
  <2>1. Operation("CREATE", state, spec).type # "DELETE"
    BY DEF Operation
  <2> QED
    BY <1>1, <2>1, CreateFacts, RemovedKept DEF SMInv, Adds
<1>2. CASE SMPatch(i, spec, state)
  <2>1. Operation("UPDATE", state, spec).type # "DELETE"
    BY DEF Operation
  <2> QED
    BY <1>2, <2>1, PatchFacts, RemovedKept DEF SMInv, Adds
<1>3. CASE SMDeleteNow(i)
  BY <1>3, DeleteNowFacts, RemovedKept DEF SMInv
<1>4. CASE SMDeleteAsync(i)
  <2>1. Operation("DELETE", "IN_PROGRESS", sm[i].spec).state # "SUCCEEDED"
    BY DEF Operation
  <2> QED
    BY <1>4, <2>1, DeleteAsyncFacts, RemovedKept DEF SMInv, Adds
<1> QED
  BY <1>1, <1>2, <1>3, <1>4

\* So does the end of an operation.
LEMMA FinishAdvances ==
  ASSUME SMInv, NEW i \in IDs, SMFinish(i)
  PROVE  Advanced(i) /\ SMInv'
<1>1. /\ sm \in [IDs -> Things] /\ LiveIsRecorded
      /\ Advanced(i) /\ DOMAIN sm'[i].ops = DOMAIN sm[i].ops /\ sm[i].alive
      /\ \A k \in DOMAIN sm[i].ops : k # Len(sm[i].ops) => sm'[i].ops[k] = sm[i].ops[k]
      /\ Last(i).type = "DELETE" /\ sm'[i].ops[Len(sm[i].ops)].state = "SUCCEEDED"
           => ~sm'[i].alive
  BY FinishFacts DEF SMInv
<1> SUFFICES ASSUME NEW j \in IDs, NEW k \in DOMAIN sm'[j].ops,
                    sm'[j].ops[k].type = "DELETE", sm'[j].ops[k].state = "SUCCEEDED",
                    sm'[j].alive
             PROVE  FALSE
  BY <1>1 DEF SMInv, Advanced, RemovedIsGone, Ops
<1>2. j = i
  BY <1>1 DEF SMInv, Advanced, RemovedIsGone, Ops
<1>3. k # Len(sm[i].ops)
  BY <1>1, <1>2 DEF Last, Advanced
<1> QED
  BY <1>1, <1>2, <1>3 DEF SMInv, RemovedIsGone, Ops

\* Whatever else SM was told, its record keeps its type.
LEMMA SMTypes ==
  ASSUME sm \in [IDs -> Things], LiveIsRecorded, NEW i \in IDs, NEW spec \in Requests,
         NEW state \in {"SUCCEEDED", "IN_PROGRESS"},
         \/ SMCreate(i, spec, state)
         \/ SMPatch(i, spec, state)
         \/ SMDeleteNow(i)
         \/ SMDeleteAsync(i)
  PROVE  sm' \in [IDs -> Things] /\ LiveIsRecorded'
BY CreateFacts, PatchFacts, DeleteNowFacts, DeleteAsyncFacts DEF Advanced

\* A creation or a change of a thing with a name keeps the names.
LEMMA RequestKeepsNames ==
  ASSUME SMInv, RequestsNamed, NEW i \in IDs, NEW spec \in Requests, spec.name \in Names,
         NEW state \in {"SUCCEEDED", "IN_PROGRESS"},
         SMCreate(i, spec, state) \/ SMPatch(i, spec, state)
  PROVE  RequestsNamed'
<1>1. Operation("CREATE", state, spec).spec = spec /\ Operation("UPDATE", state, spec).spec = spec
  BY DEF Operation
<1>2. CASE SMCreate(i, spec, state)
  BY <1>1, <1>2, CreateFacts, NamesKept DEF SMInv, Adds
<1>3. CASE SMPatch(i, spec, state)
  <2>1. i \in Used
    BY <1>3 DEF SMPatch, SMInv, LiveIsRecorded, Used, FreeIDs
  <2> QED
    BY <1>1, <1>3, <2>1, PatchFacts, NamesKept DEF SMInv, Adds
<1> QED
  BY <1>2, <1>3

\* So does a deletion, and so does the end of an operation.
LEMMA OthersKeepNames ==
  ASSUME SMInv, RequestsNamed, NEW i \in Used, SMDeleteNow(i) \/ SMDeleteAsync(i) \/ SMFinish(i)
  PROVE  RequestsNamed'
<1>1. i \in IDs /\ sm \in [IDs -> Things] /\ LiveIsRecorded
  BY DEF Used, SMInv
<1>2. CASE SMDeleteNow(i)
  BY <1>1, <1>2, DeleteNowFacts, NamesKept
<1>3. CASE SMDeleteAsync(i)
  <2>1. Operation("DELETE", "IN_PROGRESS", sm[i].spec).spec.name \in Names
    BY DEF Operation, RequestsNamed
  <2> QED
    BY <1>1, <1>3, <2>1, DeleteAsyncFacts, NamesKept DEF Adds
<1>4. CASE SMFinish(i)
  <2>1. Last(i).spec.name \in Names
    BY <1>1, <1>4, FinishFacts DEF Last, RequestsNamed, Ops
  <2> QED
    BY <1>1, <1>4, <2>1, FinishFacts, NamesKept
<1> QED
  BY <1>2, <1>3, <1>4

------------------------------------------------------------------------------
(* What there is after them *)

\* Of the things SM has only the one concerned comes or goes.
LEMMA LiveAfter ==
  ASSUME SMInv, NEW i \in IDs, NEW spec \in Requests, NEW state \in {"SUCCEEDED", "IN_PROGRESS"}
  PROVE  /\ SMCreate(i, spec, state) => Live' = Live \cup {i}
         /\ SMPatch(i, spec, state) => Live' = Live
         /\ SMDeleteNow(i) => Live' = Live \ {i}
         /\ SMDeleteAsync(i) => Live' = Live
         /\ SMFinish(i) => Live' \in {Live, Live \ {i}}
<1>1. sm \in [IDs -> Things] /\ LiveIsRecorded
  BY DEF SMInv
<1> QED
  BY <1>1, CreateFacts, PatchFacts, DeleteNowFacts, DeleteAsyncFacts, FinishFacts
     DEF Live, Advanced

\* Only a deletion dismantles a thing, as long as SM keeps what it failed to create.
LEMMA DismantledBefore ==
  ASSUME SMInv, DropsFailed = FALSE, Dismantled', NEW i \in IDs, NEW spec \in Requests,
         NEW state \in {"SUCCEEDED", "IN_PROGRESS"},
         SMCreate(i, spec, state) \/ SMPatch(i, spec, state) \/ SMFinish(i)
  PROVE  Dismantled
<1>1. sm \in [IDs -> Things] /\ LiveIsRecorded
  BY DEF SMInv
<1>2. Advanced(i)
  BY <1>1, CreateFacts, PatchFacts, FinishFacts
<1>3. \A k \in DOMAIN sm'[i].ops : k \in DOMAIN sm[i].ops \/ sm'[i].ops[k].type # "DELETE"
  <2>1. Operation("CREATE", state, spec).type # "DELETE" /\ Operation("UPDATE", state, spec).type # "DELETE"
    BY DEF Operation
  <2>2. CASE SMCreate(i, spec, state)
    BY <1>1, <2>1, <2>2, CreateFacts DEF Adds
  <2>3. CASE SMPatch(i, spec, state)
    BY <1>1, <2>1, <2>3, PatchFacts DEF Adds
  <2>4. CASE SMFinish(i)
    BY <1>1, <2>4, FinishFacts
  <2> QED
    BY <2>2, <2>3, <2>4
<1>4. ~sm'[i].alive => sm[i].alive /\ Last(i).type = "DELETE" /\ Last(i) \in Ops(i)
  BY <1>1, CreateFacts, PatchFacts, FinishFacts DEF Last, Ops
<1>5. PICK j \in Used' : ~sm'[j].alive \/ \E k \in DOMAIN sm'[j].ops : sm'[j].ops[k].type = "DELETE"
  BY DEF Dismantled, Ops
<1>6. CASE j # i
  BY <1>2, <1>5, <1>6 DEF Dismantled, Advanced, Used, FreeIDs, Ops
<1>7. CASE j = i
  <2>1. \E op \in Ops(i) : op.type = "DELETE"
    BY <1>2, <1>3, <1>4, <1>5, <1>7 DEF Advanced, Ops
  <2>2. i \in Used
    BY <2>1 DEF Used, FreeIDs, Ops
  <2> QED
    BY <2>1, <2>2 DEF Dismantled
<1> QED
  BY <1>6, <1>7

------------------------------------------------------------------------------
(* What SM was asked for, and what it has *)

SpecsOf(i) == {sm[i].spec} \cup {op.spec : op \in Ops(i)}
Specs == UNION {SpecsOf(i) : i \in Used}

\* An update that was asked for last is asked with the latest spec, and what SM has is
\* no older than what it has done.
Latest ==
  \A i \in Used :
    /\ Last(i).type = "UPDATE" => \A s \in SpecsOf(i) : s.gen <= Last(i).spec.gen
    /\ sm[i].alive =>
         \A op \in Ops(i) : \/ op.type = "CREATE"
                            \/ op.type = "UPDATE" /\ op.state = "SUCCEEDED"
                            => op.spec.gen <= sm[i].spec.gen

\* Specs are requests, and have generations.
LEMMA SpecsType ==
  ASSUME SMInv, NEW i \in IDs
  PROVE  /\ SpecsOf(i) \subseteq Requests /\ \A s \in SpecsOf(i) : s.gen \in Nat
         /\ sm[i].spec \in SpecsOf(i) /\ sm[i].ops \in Seq(Operations)
         /\ \A k \in DOMAIN sm[i].ops : /\ sm[i].ops[k] \in Ops(i) /\ sm[i].ops[k] \in Operations
                                        /\ sm[i].ops[k].spec \in SpecsOf(i)
         /\ i \in Used => /\ Len(sm[i].ops) \in DOMAIN sm[i].ops
                          /\ Last(i) \in Ops(i) /\ Last(i).spec \in SpecsOf(i)
<1>1. sm[i] \in Things /\ sm[i].ops \in Seq(Operations) /\ sm[i].spec \in Requests
  BY DEF SMInv, Things
<1>2. \A op \in Ops(i) : op \in Operations
  BY <1>1 DEF Ops
<1>3. SpecsOf(i) \subseteq Requests
  BY <1>1, <1>2 DEF SpecsOf, Operations
<1>4. \A s \in Requests : s.gen \in Nat
  BY DEF Requests
<1>5. \A k \in DOMAIN sm[i].ops : /\ sm[i].ops[k] \in Ops(i) /\ sm[i].ops[k] \in Operations
                                  /\ sm[i].ops[k].spec \in SpecsOf(i)
  BY <1>1 DEF SpecsOf, Ops
<1>6. i \in Used => Len(sm[i].ops) \in DOMAIN sm[i].ops
  BY <1>1 DEF Used, FreeIDs
<1> QED
  BY <1>3, <1>4, <1>1, <1>5, <1>6 DEF Last, SpecsOf

\* What a step adds to what SM was asked for.
LEMMA SpecsAfter ==
  ASSUME SMInv, SMInv', NEW i \in IDs, Advanced(i), NEW spec, 
         sm'[i].spec = spec \/ (i \in Used /\ sm'[i].spec \in SpecsOf(i)),
         \A k \in DOMAIN sm'[i].ops :
           k \in DOMAIN sm[i].ops \/ sm'[i].ops[k].spec = spec
  PROVE  /\ SpecsOf(i)' \subseteq SpecsOf(i) \cup {spec}
         /\ Specs' \subseteq Specs \cup {spec}
<1>1. \A k \in DOMAIN sm'[i].ops : /\ k \in DOMAIN sm[i].ops => i \in Used
                                   /\ sm'[i].ops[k].spec \in SpecsOf(i) \cup {spec}
  <2> SUFFICES ASSUME NEW k \in DOMAIN sm'[i].ops, k \in DOMAIN sm[i].ops
               PROVE  i \in Used /\ sm'[i].ops[k].spec \in SpecsOf(i)
    BY SpecsType
  <2>1. sm[i].ops # <<>>
    OBVIOUS
  <2> QED
    BY <2>1, SpecsType DEF Advanced, Used, FreeIDs
<1>2. SpecsOf(i)' \subseteq SpecsOf(i) \cup {spec}
  BY <1>1 DEF SpecsOf, Ops
<1>3. \A j \in IDs \ {i} : SpecsOf(j)' = SpecsOf(j) /\ (j \in Used' <=> j \in Used)
  BY DEF Advanced, SpecsOf, Ops, Used, FreeIDs
<1>4. i \notin Used => SpecsOf(i)' \subseteq {spec}
  BY <1>1 DEF SpecsOf, Ops
<1>5. Specs' \subseteq Specs \cup {spec}
  <2> SUFFICES ASSUME NEW j \in Used', NEW s \in SpecsOf(j)' PROVE s \in Specs \cup {spec}
    BY DEF Specs
  <2>1. j \in IDs
    BY DEF Used
  <2> QED
    BY <1>2, <1>3, <1>4, <2>1 DEF Specs
<1> QED
  BY <1>2, <1>5

\* What has to be shown of the thing that a step changes.
Renewed(i) ==
  /\ Last(i)'.type = "UPDATE" => \A s \in SpecsOf(i)' : s.gen <= Last(i)'.spec.gen
  /\ sm'[i].alive =>
       /\ i \in Used => sm[i].alive /\ sm[i].spec.gen <= sm'[i].spec.gen
       /\ \A k \in DOMAIN sm'[i].ops :
            LET op == sm'[i].ops[k]
            IN op.type = "CREATE" \/ (op.type = "UPDATE" /\ op.state = "SUCCEEDED")
                 => op.spec.gen <= sm'[i].spec.gen

\* A thing is never changed for an older spec than it has.
NeverOlder ==
  \A j \in Used : sm'[j].alive => sm[j].alive /\ sm[j].spec.gen <= sm'[j].spec.gen

\* The others stay what they are.
LEMMA RenewedKeeps ==
  ASSUME SMInv, NEW i \in IDs, Advanced(i), Latest, Renewed(i)
  PROVE  Latest' /\ NeverOlder
<1>1. \A j \in Used : j \in IDs /\ sm[j].spec.gen \in Nat
  BY SpecsType DEF Used
<1>2. NeverOlder
  BY <1>1 DEF Advanced, Renewed, NeverOlder
<1>3. ASSUME NEW j \in Used', j # i
      PROVE  j \in Used /\ Last(j)' = Last(j) /\ SpecsOf(j)' = SpecsOf(j) /\ Ops(j)' = Ops(j)
             /\ sm'[j] = sm[j]
  BY <1>3 DEF Advanced, Used, FreeIDs, Last, SpecsOf, Ops
<1>4. Latest'
  <2> SUFFICES ASSUME NEW j \in Used'
      PROVE  /\ Last(j)'.type = "UPDATE" => \A s \in SpecsOf(j)' : s.gen <= Last(j)'.spec.gen
             /\ sm'[j].alive =>
                  \A op \in Ops(j)' : op.type = "CREATE" \/ (op.type = "UPDATE" /\ op.state = "SUCCEEDED")
                                         => op.spec.gen <= sm'[j].spec.gen
    BY DEF Latest
  <2>1. CASE j = i
    BY <2>1 DEF Renewed, Ops
  <2>2. CASE j # i
    BY <1>3, <2>2 DEF Latest
  <2> QED
    BY <2>1, <2>2
<1> QED
  BY <1>2, <1>4

\* A request made with a spec that is no older than those before is the latest.
LEMMA RequestIsLatest ==
  ASSUME SMInv, Latest, NEW i \in IDs, NEW spec \in Requests, NEW state \in {"SUCCEEDED", "IN_PROGRESS"},
         \A s \in Specs : s.gen <= spec.gen, SMCreate(i, spec, state) \/ SMPatch(i, spec, state)
  PROVE  Latest' /\ NeverOlder /\ Specs' \subseteq Specs \cup {spec}
<1>1. SMInv' /\ Advanced(i) /\ sm \in [IDs -> Things] /\ LiveIsRecorded
  BY RequestAdvances DEF SMInv
<1>2. spec.gen \in Nat
  BY DEF Requests
<1> DEFINE op(type) == Operation(type, state, spec)
<1>3. \A type : op(type).spec = spec /\ op(type).state = state /\ op(type).type = type
  BY DEF Operation
<1> HIDE DEF op
<1>4. CASE SMCreate(i, spec, state)
  <2>1. /\ i \in FreeIDs /\ sm'[i].spec = spec
        /\ \A k \in DOMAIN sm'[i].ops : k \in DOMAIN sm[i].ops \/ sm'[i].ops[k] = op("CREATE")
    BY <1>1, <1>4, CreateFacts DEF Adds, op
  <2>2. i \notin Used /\ DOMAIN sm[i].ops = {}
    BY <2>1 DEF Used, FreeIDs
  <2>3. \A k \in DOMAIN sm'[i].ops : sm'[i].ops[k] = op("CREATE")
    BY <2>1, <2>2
  <2>4. i \in Used' => Last(i)' = op("CREATE")
    BY <1>1, <2>3, SpecsType DEF Last, Used, FreeIDs, SMInv, Things
  <2>5. Specs' \subseteq Specs \cup {spec}
    BY <1>1, <1>3, <2>1, <2>3, SpecsAfter
  <2>6. sm'[i].ops # <<>>
    BY <1>1, <1>4, CreateFacts
  <2>7. i \in Used'
    BY <2>6 DEF Used, FreeIDs
  <2>8. Renewed(i)
    BY <1>2, <1>3, <2>1, <2>2, <2>3, <2>4, <2>7 DEF Renewed
  <2> QED
    BY <1>1, <2>5, <2>8, RenewedKeeps
<1>5. CASE SMPatch(i, spec, state)
  <2>1. /\ sm[i].alive /\ sm'[i].alive /\ sm'[i].spec \in {sm[i].spec, spec}
        /\ state = "SUCCEEDED" => sm'[i].spec = spec
        /\ Len(sm'[i].ops) = Len(sm[i].ops) + 1 /\ Len(sm[i].ops) + 1 \in DOMAIN sm'[i].ops
        /\ \A k \in DOMAIN sm'[i].ops : k \in DOMAIN sm[i].ops \/ sm'[i].ops[k] = op("UPDATE")
        /\ NoSuccess(i)
    BY <1>1, <1>5, PatchFacts DEF Adds, op
  <2>2. i \in Used /\ \A s \in SpecsOf(i) : s \in Specs /\ s.gen \in Nat /\ s.gen <= spec.gen
    BY <1>1, <2>1, SpecsType DEF LiveIsRecorded, Used, FreeIDs, Specs
  <2>3. SpecsOf(i)' \subseteq SpecsOf(i) \cup {spec} /\ Specs' \subseteq Specs \cup {spec}
    <3>1. \A k \in DOMAIN sm'[i].ops : k \in DOMAIN sm[i].ops \/ sm'[i].ops[k].spec = spec
      BY <1>3, <2>1
    <3>2. sm'[i].spec = spec \/ sm'[i].spec \in SpecsOf(i)
      BY <2>1 DEF SpecsOf
    <3> QED
      BY <1>1, <2>2, <3>1, <3>2, SpecsAfter
  <2>4. Len(sm[i].ops) + 1 \notin DOMAIN sm[i].ops
    BY SpecsType
  <2>5. Last(i)' = op("UPDATE")
    BY <2>1, <2>4 DEF Last
  <2>6. sm[i].spec \in SpecsOf(i)
    BY DEF SpecsOf
  <2>7. ASSUME NEW k \in DOMAIN sm'[i].ops,
               \/ sm'[i].ops[k].type = "CREATE"
               \/ sm'[i].ops[k].type = "UPDATE" /\ sm'[i].ops[k].state = "SUCCEEDED"
        PROVE  sm'[i].ops[k].spec.gen <= sm'[i].spec.gen
    <3>1. CASE k \in DOMAIN sm[i].ops
      <4>1. sm[i].ops[k].spec.gen <= sm[i].spec.gen /\ sm[i].ops[k].spec.gen \in Nat
            /\ sm'[i].ops[k].spec = sm[i].ops[k].spec
        BY <1>1, <2>1, <2>2, <2>7, <3>1, SpecsType DEF Latest, Advanced, NoSuccess
      <4>2. sm'[i].spec = sm[i].spec \/ sm'[i].spec = spec
        BY <2>1
      <4>3. sm[i].spec.gen \in Nat /\ spec.gen \in Nat /\ sm[i].spec.gen <= spec.gen
        BY <1>2, <2>2, <2>6
      <4> QED
        BY <4>1, <4>2, <4>3
    <3>2. CASE sm'[i].ops[k] = op("UPDATE")
      BY <1>2, <1>3, <2>1, <2>7, <3>2
    <3> QED
      BY <2>1, <3>1, <3>2
  <2>8. sm[i].spec.gen <= sm'[i].spec.gen
    BY <2>1, <2>2, <2>6
  <2>9. Renewed(i)
    BY <1>2, <1>3, <2>1, <2>2, <2>3, <2>5, <2>7, <2>8 DEF Renewed
  <2> QED
    BY <1>1, <2>3, <2>9, RenewedKeeps
<1> QED
  BY <1>4, <1>5

\* A deletion, and the end of an operation, ask for nothing new.
LEMMA OthersAreLatest ==
  ASSUME SMInv, Latest, NEW i \in Used, SMDeleteNow(i) \/ SMDeleteAsync(i) \/ SMFinish(i)
  PROVE  Latest' /\ NeverOlder /\ Specs' \subseteq Specs
<1>1. i \in IDs /\ sm \in [IDs -> Things] /\ LiveIsRecorded
  BY DEF Used, SMInv
<1>2. /\ SpecsOf(i) \subseteq Specs /\ \A s \in SpecsOf(i) : s.gen \in Nat
      /\ sm[i].spec \in SpecsOf(i) /\ sm[i].ops \in Seq(Operations)
      /\ Len(sm[i].ops) \in DOMAIN sm[i].ops
      /\ Last(i) = sm[i].ops[Len(sm[i].ops)] /\ Last(i).spec \in SpecsOf(i)
      /\ \A k \in DOMAIN sm[i].ops : sm[i].ops[k] \in Ops(i) /\ sm[i].ops[k].spec \in SpecsOf(i)
  BY <1>1, SpecsType DEF Specs, Last
<1>3. /\ Last(i).type = "UPDATE" => \A s \in SpecsOf(i) : s.gen <= Last(i).spec.gen
      /\ sm[i].alive => \A k \in DOMAIN sm[i].ops :
           LET op == sm[i].ops[k]
           IN op.type = "CREATE" \/ (op.type = "UPDATE" /\ op.state = "SUCCEEDED")
                => op.spec.gen <= sm[i].spec.gen
  BY <1>2 DEF Latest
<1>4. NoRequest \in Requests /\ "SUCCEEDED" \in {"SUCCEEDED", "IN_PROGRESS"}
  BY DEF NoRequest, Requests
<1>5. Advanced(i) /\ SMInv'
  BY <1>1, <1>4, RequestAdvances, FinishAdvances
<1>6. ASSUME NEW spec \in SpecsOf(i), sm'[i].spec \in SpecsOf(i),
             \A k \in DOMAIN sm'[i].ops : k \in DOMAIN sm[i].ops \/ sm'[i].ops[k].spec = spec
      PROVE  SpecsOf(i)' \subseteq SpecsOf(i) /\ Specs' \subseteq Specs
  <2>1. spec \in Specs
    BY <1>2
  <2>2. SpecsOf(i)' \subseteq SpecsOf(i) \cup {spec} /\ Specs' \subseteq Specs \cup {spec}
    BY <1>1, <1>5, <1>6, SpecsAfter
  <2> QED
    BY <2>1, <2>2
<1>7. ASSUME DOMAIN sm'[i].ops = DOMAIN sm[i].ops
      PROVE  Last(i)'.type = Last(i).type /\ Last(i)'.spec = Last(i).spec
  <2>1. sm'[i].ops \in Seq(Operations)
    BY <1>1, <1>5 DEF Advanced, Things
  <2>2. Len(sm'[i].ops) = Len(sm[i].ops)
    BY <1>2, <1>7, <2>1
  <2> QED
    BY <1>2, <1>5, <2>2 DEF Last, Advanced
<1>8. CASE SMDeleteNow(i)
  <2>1. DOMAIN sm'[i].ops = DOMAIN sm[i].ops /\ ~sm'[i].alive /\ sm'[i].spec = sm[i].spec
    BY <1>1, <1>8, DeleteNowFacts
  <2>2. SpecsOf(i)' \subseteq SpecsOf(i) /\ Specs' \subseteq Specs
    BY <1>2, <1>6, <2>1
  <2>3. Renewed(i)
    BY <1>3, <1>7, <2>1, <2>2 DEF Renewed
  <2> QED
    BY <1>1, <1>5, <2>2, <2>3, RenewedKeeps
<1>9. CASE SMDeleteAsync(i)
  <2> DEFINE op == Operation("DELETE", "IN_PROGRESS", sm[i].spec)
  <2>1. /\ sm[i].alive /\ sm'[i].spec = sm[i].spec /\ NoSuccess(i)
        /\ Len(sm'[i].ops) = Len(sm[i].ops) + 1
        /\ sm'[i].ops[Len(sm[i].ops) + 1].type = "DELETE"
        /\ \A k \in DOMAIN sm'[i].ops : k \in DOMAIN sm[i].ops \/ sm'[i].ops[k] = op
    BY <1>1, <1>9, DeleteAsyncFacts DEF Adds
  <2>2. op.spec = sm[i].spec /\ op.type = "DELETE"
    BY DEF Operation
  <2> HIDE DEF op
  <2>3. SpecsOf(i)' \subseteq SpecsOf(i) /\ Specs' \subseteq Specs
    BY <1>2, <1>6, <2>1, <2>2
  <2>4. Last(i)'.type = "DELETE"
    BY <2>1 DEF Last
  <2>5. ASSUME NEW k \in DOMAIN sm'[i].ops,
               \/ sm'[i].ops[k].type = "CREATE"
               \/ sm'[i].ops[k].type = "UPDATE" /\ sm'[i].ops[k].state = "SUCCEEDED"
        PROVE  sm'[i].ops[k].spec.gen <= sm'[i].spec.gen
    BY <1>3, <1>5, <2>1, <2>2, <2>5 DEF Advanced, NoSuccess
  <2>6. Renewed(i)
    BY <1>2, <2>1, <2>4, <2>5 DEF Renewed
  <2> QED
    BY <1>1, <1>5, <2>3, <2>6, RenewedKeeps
<1>10. CASE SMFinish(i)
  <2>1. /\ sm[i].alive /\ DOMAIN sm'[i].ops = DOMAIN sm[i].ops
        /\ sm'[i].spec \in {sm[i].spec, Last(i).spec}
        /\ \A k \in DOMAIN sm[i].ops : k # Len(sm[i].ops) => sm'[i].ops[k] = sm[i].ops[k]
        /\ Last(i).type = "UPDATE" /\ sm'[i].ops[Len(sm[i].ops)].state = "SUCCEEDED"
             => sm'[i].spec = Last(i).spec
    BY <1>1, <1>10, FinishFacts
  <2>2. sm'[i].spec = sm[i].spec \/ Last(i).type = "UPDATE"
    BY <1>1, <1>10, FinishFacts
  <2>3. sm'[i].spec \in SpecsOf(i)
    BY <1>2, <2>1
  <2>4. SpecsOf(i)' \subseteq SpecsOf(i) /\ Specs' \subseteq Specs
    BY <1>2, <1>6, <2>1, <2>3
  <2>5. sm[i].spec.gen <= sm'[i].spec.gen
    BY <1>2, <1>3, <2>1, <2>2
  <2>6. ASSUME NEW k \in DOMAIN sm'[i].ops,
               \/ sm'[i].ops[k].type = "CREATE"
               \/ sm'[i].ops[k].type = "UPDATE" /\ sm'[i].ops[k].state = "SUCCEEDED"
        PROVE  sm'[i].ops[k].spec.gen <= sm'[i].spec.gen
    <3>1. /\ k \in DOMAIN sm[i].ops /\ sm'[i].ops[k].spec = sm[i].ops[k].spec
          /\ sm'[i].ops[k].type = sm[i].ops[k].type
          /\ sm[i].ops[k].spec.gen \in Nat /\ sm[i].spec.gen \in Nat /\ sm'[i].spec.gen \in Nat
      BY <1>2, <1>5, <2>1, <2>3 DEF Advanced
    <3>2. CASE sm[i].ops[k].spec.gen <= sm[i].spec.gen
      BY <2>5, <3>1, <3>2
    <3>3. CASE k = Len(sm[i].ops) /\ sm[i].ops[k].type = "UPDATE"
      BY <1>2, <2>1, <2>6, <3>1, <3>3
    <3> QED
      BY <1>3, <2>1, <2>6, <3>1, <3>2, <3>3
  <2>7. Renewed(i)
    BY <1>3, <1>7, <2>1, <2>4, <2>5, <2>6 DEF Renewed
  <2> QED
    BY <1>1, <1>5, <2>4, <2>7, RenewedKeeps
<1> QED
  BY <1>8, <1>9, <1>10
==============================================================================
