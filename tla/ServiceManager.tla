--------------------------- MODULE ServiceManager ---------------------------
(***************************************************************************)
(* The Service Manager (SM) as the operator meets it through               *)
(* internal/smclient: the things it keeps for one resource of the cluster  *)
(* (its service instances, or its service bindings) and the operations it  *)
(* recorded for each of them, some of which run asynchronously.            *)
(*                                                                         *)
(* SM is not part of the repository.  What is assumed of it is what the    *)
(* controllers rely on: it assigns an id once, accepts no change while an  *)
(* operation is in progress except a deletion, ends every operation, and   *)
(* remembers the outcome of an operation.                                  *)
(***************************************************************************)
EXTENDS Naturals, Sequences

CONSTANTS
  IDs,           \* ids SM assigns, each at most once
  Names,         \* external names: what a thing is called in SM
  NoId, NoName,  \* absence of an id, of a name
  MaxOps,        \* bound: operations SM records for one thing
  SMFaults,      \* the ways, of SMFaultKinds, in which SM may fail
  DropsFailed    \* may SM remove a thing whose creation failed

\* A listing, or a read of one operation or one binding, is not to be had; a
\* request is answered 429, 503 or 504; it is refused; it is executed but the
\* reply is lost; an asynchronous operation fails.
SMFaultKinds == {"list", "poll", "transient", "refused", "lost", "operation"}

ASSUME ServiceManagerAssumption ==
  /\ NoName \notin Names
  /\ NoId \notin IDs
  /\ MaxOps \in Nat
  /\ SMFaults \subseteq SMFaultKinds
  /\ DropsFailed \in BOOLEAN

VARIABLE sm   \* what SM has under each id

OperationCategories == {"CREATE", "UPDATE", "DELETE"}
OperationStates == {"SUCCEEDED", "IN_PROGRESS", "FAILED"}

\* What a request asks for: the incarnation and the generation of the resource
\* it was made for stand for the parameters.
Requests == [uid: Nat, gen: Nat, name: Names \cup {NoName}]
NoRequest == [uid |-> 0, gen |-> 0, name |-> NoName]

Operations == [type: OperationCategories, state: OperationStates, spec: Requests]
Things == [alive: BOOLEAN, spec: Requests, ops: Seq(Operations)]

Unused == [alive |-> FALSE, spec |-> NoRequest, ops |-> <<>>]

Last(i) == sm[i].ops[Len(sm[i].ops)]
Busy(i) == sm[i].alive /\ Last(i).state = "IN_PROGRESS"
Live == {i \in IDs : sm[i].alive}
FreeIDs == {i \in IDs : sm[i].ops = <<>>}
Used == IDs \ FreeIDs
Ops(i) == {sm[i].ops[k] : k \in DOMAIN sm[i].ops}
Operation(type, state, spec) == [type |-> type, state |-> state, spec |-> spec]

\* A delete request ends the operation it finds in progress.
Superseded(i) == [k \in DOMAIN sm[i].ops |->
  IF sm[i].ops[k].state = "IN_PROGRESS" THEN [sm[i].ops[k] EXCEPT !.state = "FAILED"]
                                        ELSE sm[i].ops[k]]

SMCreate(i, spec, state) ==
  /\ i \in FreeIDs
  /\ sm' = [sm EXCEPT ![i] = [alive |-> TRUE, spec |-> spec,
                              ops |-> <<Operation("CREATE", state, spec)>>]]

\* SM refuses to change a thing with an operation in progress.
SMPatch(i, spec, state) ==
  /\ sm[i].alive /\ ~Busy(i) /\ Len(sm[i].ops) < MaxOps
  /\ sm' = [sm EXCEPT
       ![i].spec = IF state = "SUCCEEDED" THEN spec ELSE @,
       ![i].ops = Append(@, Operation("UPDATE", state, spec))]

SMDeleteNow(i) ==
  sm' = [sm EXCEPT ![i].alive = FALSE, ![i].ops = Superseded(i)]

SMDeleteAsync(i) ==
  /\ sm[i].alive /\ Len(sm[i].ops) < MaxOps
  /\ sm' = [sm EXCEPT ![i].ops =
              Append(Superseded(i), Operation("DELETE", "IN_PROGRESS", sm[i].spec))]

\* SM finishes the operation in progress on i.
SMFinish(i) ==
  /\ Busy(i)
  /\ \E state \in {"SUCCEEDED"} \cup (IF "operation" \in SMFaults THEN {"FAILED"} ELSE {}),
        dropped \in {FALSE, DropsFailed} :
       LET op == Last(i)
           removed == \/ op.type = "DELETE" /\ state = "SUCCEEDED"
                      \/ op.type = "CREATE" /\ state = "FAILED" /\ dropped
       IN sm' = [sm EXCEPT
            ![i].alive = ~removed,
            ![i].spec = IF op.type = "UPDATE" /\ state = "SUCCEEDED" THEN op.spec ELSE @,
            ![i].ops[Len(sm[i].ops)].state = state]

\* What a query by an external name finds, as getInstanceForRecovery and
\* getBindingForRecovery make it; cluster, namespace and resource name, by which
\* they query too, are the same for all things of one resource.
Matches_ready(name) ==
  {i \in IDs : sm[i].alive /\ sm[i].spec.name = name /\ Last(i).state = "SUCCEEDED"}
Matches(name) == {i \in IDs : sm[i].alive /\ sm[i].spec.name = name}

------------------------------------------------------------------------------
(* What everybody's proofs need of this part *)

\* A thing SM has, has a last operation.
LiveIsRecorded == \A i \in IDs : sm[i].alive => sm[i].ops # <<>>

\* A thing whose deletion succeeded is gone.
RemovedIsGone ==
  \A i \in IDs : \A op \in Ops(i) : op.type = "DELETE" /\ op.state = "SUCCEEDED" => ~sm[i].alive

\* What SM was asked for has a name.
RequestsNamed == \A i \in Used : /\ sm[i].spec.name \in Names
                                 /\ \A op \in Ops(i) : op.spec.name \in Names

\* SM is rid of a thing, or was told to be.
Dismantled == \E i \in Used : ~sm[i].alive \/ \E op \in Ops(i) : op.type = "DELETE"
=============================================================================
