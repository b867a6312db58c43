------------------------------- MODULE SMClient -------------------------------
(***************************************************************************)
(* internal/smclient: one request to the Service Manager on behalf of a    *)
(* resource, made with the credentials of one tenant.  Before an instance  *)
(* is created or updated, two listings find the id of its plan.            *)
(*                                                                         *)
(* A status code stands for its class: 404 also for 410, 429 for 503 and   *)
(* 504, and 500 for every other one, a 201 where 200 is expected included. *)
(* URLs, headers and bodies are left out; a body or a Location that cannot *)
(* be read is treated like a reply that is lost, and SM is taken to send a *)
(* Location with every 202.  What a request asks for is the plan it names. *)
(***************************************************************************)
EXTENDS ServiceManager, FiniteSets

CONSTANTS
  Tenants,     \* tenants of SM
  NoTenant,    \* absence of a tenant
  TenantOf,    \* the tenant in which SM assigns each id
  Offerings,   \* service offerings
  Plans,       \* service plans
  OfferingOf,  \* the offering each plan belongs to
  NoPlan       \* absence of a plan id

ASSUME ClientAssumption ==
  /\ TenantOf \in [IDs -> Tenants]
  /\ IsFiniteSet(Plans) /\ OfferingOf \in [Plans -> Offerings]
  /\ NoPlan \notin Plans /\ NoTenant \notin Tenants

VARIABLES
  catalog,   \* the offerings and plans that have the names a request gives
  steady,    \* history: the catalog is the same since the request was made
  call       \* the request under way, or the last one

clientVars == <<sm, catalog, steady, call>>

------------------------------------------------------------------------------
(* Requests *)

Planned == {"provision", "update"}
Creating == {"provision", "bind"}
Deleting == {"delete"}
Reading == {"get", "list"}
Kinds == Planned \cup Creating \cup Deleting \cup Reading

Catalogs == [offerings: SUBSET Offerings, plans: SUBSET Plans]

\* A reply is the class of its code and the id its body or Location speaks of.
Codes == {"200", "201", "202", "404", "429", "500"}
Reply(code, i) == [code |-> code, id |-> i]
NoReply == Reply("none", NoId)

Results == {"success", "accepted", "transient", "failed"}

\* id: the thing asked about; planID: the plan id the resource gives; offerings:
\* those listed; plan: the one validated; effect: what SM did, for the properties.
Calls == [pc: {"idle", "offerings", "plans", "send", "reply"},
          kind: Kinds \cup {"none"}, tenant: Tenants \cup {NoTenant}, id: IDs \cup {NoId},
          planID: Plans \cup {NoPlan}, offerings: SUBSET Offerings,
          plan: Plans \cup {NoPlan},
          reply: [code: Codes \cup {"none"}, id: IDs \cup {NoId}],
          effect: {"none", "done", "started", "nothing", "read"},
          result: Results \cup {"none"}]

NoCall == [pc |-> "idle", kind |-> "none", tenant |-> NoTenant, id |-> NoId,
           planID |-> NoPlan, offerings |-> {}, plan |-> NoPlan, reply |-> NoReply,
           effect |-> "none", result |-> "none"]

\* The catalog is looked at while a plan is being searched, and may be any then.
NoCatalog == [offerings |-> {}, plans |-> {}]

NewClient ==
  /\ call.pc = "idle"
  /\ call' = NoCall
  /\ UNCHANGED <<sm, catalog, steady>>

Request(kind, tenant, id, planID) ==
  /\ call.pc = "idle"
  /\ call' = [NoCall EXCEPT !.pc = IF kind \in Planned THEN "offerings" ELSE "send",
                            !.kind = kind, !.tenant = tenant, !.id = id, !.planID = planID]
  /\ catalog' \in IF kind \in Planned THEN Catalogs ELSE {NoCatalog}
  /\ steady' = TRUE
  /\ UNCHANGED sm

\* The client returns, and nothing of the call is left.
Answer(result) ==
  /\ call' = [NoCall EXCEPT !.kind = call.kind, !.effect = call.effect, !.result = result]
  /\ catalog' = NoCatalog /\ steady' = TRUE

------------------------------------------------------------------------------
(* getAndValidatePlanID *)

\* The plan the names and the id determine, or none.
Validated_anyPlan(plans, planID) ==
  IF plans # {} /\ planID = NoPlan THEN CHOOSE p \in plans : TRUE
  ELSE IF planID \in plans THEN planID ELSE NoPlan
Validated(plans, planID) ==
  IF Cardinality(plans) = 1 /\ planID = NoPlan THEN CHOOSE p \in plans : TRUE
  ELSE IF planID \in plans THEN planID ELSE NoPlan

\* An error of a listing is never a ServiceManagerError, whatever its code.
ListOfferings ==
  /\ call.pc = "offerings"
  /\ \/ ("list" \in SMFaults \/ catalog.offerings = {}) /\ Answer("failed")
     \/ /\ catalog.offerings # {}
        /\ call' = [call EXCEPT !.pc = "plans", !.offerings = catalog.offerings]
        /\ UNCHANGED <<catalog, steady>>
  /\ UNCHANGED sm

ListPlans ==
  /\ call.pc = "plans"
  /\ LET plans == {p \in catalog.plans : OfferingOf[p] \in call.offerings}
         plan == Validated(plans, call.planID)
     IN \/ ("list" \in SMFaults \/ plan = NoPlan) /\ Answer("failed")
        \/ /\ plan # NoPlan
           /\ call' = [call EXCEPT !.pc = "send", !.plan = plan]
           /\ UNCHANGED <<catalog, steady>>
  /\ UNCHANGED sm

------------------------------------------------------------------------------
(* The request itself, as SM executes it *)

Replied(code, i, effect) ==
  call' = [call EXCEPT !.pc = "reply", !.reply = Reply(code, i), !.effect = effect]

\* The credentials reach the things of one tenant only.
Reaches(i) == i \in IDs /\ sm[i].alive /\ TenantOf[i] = call.tenant

Create ==
  \E i \in FreeIDs :
    /\ call.kind \in Creating /\ TenantOf[i] = call.tenant
    /\ \/ SMCreate(i, NoRequest, "SUCCEEDED") /\ Replied("201", i, "done")
       \/ SMCreate(i, NoRequest, "IN_PROGRESS") /\ Replied("202", i, "started")

Patch ==
  /\ call.kind = "update" /\ Reaches(call.id)
  /\ \/ SMPatch(call.id, NoRequest, "SUCCEEDED") /\ Replied("200", call.id, "done")
     \/ SMPatch(call.id, NoRequest, "IN_PROGRESS") /\ Replied("202", call.id, "started")

Remove ==
  /\ call.kind \in Deleting
  /\ \/ Reaches(call.id) /\ SMDeleteNow(call.id) /\ Replied("200", call.id, "done")
     \/ Reaches(call.id) /\ SMDeleteAsync(call.id) /\ Replied("202", call.id, "started")
     \/ ~Reaches(call.id) /\ Replied("404", NoId, "nothing") /\ UNCHANGED sm

Read ==
  /\ \/ call.kind = "get" /\ Reaches(call.id) /\ Replied("200", call.id, "read")
     \/ call.kind = "get" /\ ~Reaches(call.id) /\ Replied("404", NoId, "none")
     \/ /\ call.kind = "list"
        /\ \/ \E i \in IDs : Reaches(i) /\ Replied("200", i, "read")
           \/ (\A i \in IDs : ~Reaches(i)) /\ Replied("200", NoId, "read")
  /\ UNCHANGED sm

\* SM refuses, or has no room: nothing was done.
Decline ==
  /\ \/ Replied("500", NoId, "none")
     \/ "transient" \in SMFaults /\ Replied("429", NoId, "none")
  /\ UNCHANGED sm

Serve ==
  /\ call.pc = "send"
  /\ Create \/ Patch \/ Remove \/ Read \/ Decline
  /\ UNCHANGED <<catalog, steady>>

------------------------------------------------------------------------------
(* What the client makes of the reply *)

\* handleFailedResponse, and isTransientError of what it returns.
handleFailedResponse(code) == IF code = "429" THEN "transient" ELSE "failed"

register(code) ==
  CASE code = "201" -> "success"
    [] code = "202" -> "accepted"
    [] OTHER -> handleFailedResponse(code)

update_synchronous(code) ==
  IF code \in {"200", "202"} THEN "success" ELSE handleFailedResponse(code)
update(code) ==
  CASE code = "200" -> "success"
    [] code = "202" -> "accepted"
    [] OTHER -> handleFailedResponse(code)

delete_anyReply(code) == IF code = "202" THEN "accepted" ELSE "success"
delete(code) ==
  CASE code \in {"200", "404"} -> "success"
    [] code = "202" -> "accepted"
    [] OTHER -> handleFailedResponse(code)

get(code) == IF code = "200" THEN "success" ELSE handleFailedResponse(code)

\* Provision and Bind, UpdateInstance, Deprovision and Unbind, Status and
\* GetBindingByID; a failed listing is never transient.
ResultOf(code) ==
  CASE call.kind \in Creating -> register(code)
    [] call.kind = "update" -> update(code)
    [] call.kind \in Deleting -> delete(code)
    [] call.kind = "get" -> get(code)
    [] call.kind = "list" -> IF code = "200" THEN "success" ELSE "failed"

Receive ==
  /\ call.pc = "reply"
  /\ Answer(ResultOf(call.reply.code))
  /\ UNCHANGED sm

\* The connection fails before or after SM acted, the 10 seconds of the HTTP client
\* are over, or a gateway answers 504 in SM's place.
NoAnswer ==
  /\ "lost" \in SMFaults
  /\ \/ call.pc \in {"send", "reply"} /\ Answer("failed")
     \/ call.pc = "reply" /\ Answer(ResultOf("429"))
  /\ UNCHANGED sm

------------------------------------------------------------------------------
(* Everybody else *)

\* Offerings and plans come, go and are renamed.
CatalogChanges ==
  /\ call.pc \in {"offerings", "plans"}
  /\ catalog' \in Catalogs \ {catalog}
  /\ steady' = FALSE
  /\ UNCHANGED <<sm, call>>

Finish(i) == SMFinish(i) /\ UNCHANGED <<catalog, steady, call>>

------------------------------------------------------------------------------
(* Properties *)

\* Every variable has the type its comment says.
ClientTypeOK ==
  /\ sm \in [IDs -> Things]
  /\ catalog \in Catalogs
  /\ steady \in BOOLEAN
  /\ call \in Calls

\* What the two listings may find together in the catalog as it is.
Candidates == {p \in catalog.plans : OfferingOf[p] \in catalog.offerings}

\* A plan id the user gave is never replaced, and without one no plan is chosen
\* between several: when the catalog did not change under the two listings, the
\* plan sent has both names, and is the only one unless it was given.
PlanIsDetermined ==
  call.plan # NoPlan =>
    /\ call.planID \in {NoPlan, call.plan}
    /\ OfferingOf[call.plan] \in call.offerings
    /\ steady => call.plan \in Candidates
    /\ steady /\ call.planID = NoPlan => Candidates = {call.plan}

------------------------------------------------------------------------------
(* The inductive invariant *)

\* A request is being made, or was answered, or nothing was asked.
Progress ==
  /\ call.pc = "idle" =>
       \/ call.kind = "none" /\ call.effect = "none" /\ call.result = "none"
       \/ call.kind \in Kinds /\ call.result \in Results
  /\ call.pc # "idle" => call.kind \in Kinds /\ call.result = "none"
  /\ call.pc \in {"offerings", "plans", "send"} => call.effect = "none"

\* What SM did when it replies with a code.
Meaning(kind, code) ==
  CASE code \in {"200", "201"} -> IF kind \in Reading THEN "read" ELSE "done"
    [] code = "202" -> "started"
    [] code = "404" -> IF kind \in Deleting THEN "nothing" ELSE "none"
    [] OTHER -> "none"

\* A reply is true.
RepliesAreTrue ==
  call.pc = "reply" =>
    call.reply.code \in Codes /\ call.effect = Meaning(call.kind, call.reply.code)

\* Between the two listings the client knows the offerings of the catalog as it was
\* then, and only a search that succeeded gives a plan.
Searching ==
  /\ call.pc \in {"idle", "offerings", "plans"} => call.plan = NoPlan
  /\ call.pc = "plans" /\ steady => call.offerings = catalog.offerings

ClientInv == /\ call \in Calls /\ catalog \in Catalogs
             /\ Progress /\ RepliesAreTrue /\ Searching /\ PlanIsDetermined

------------------------------------------------------------------------------
(* Refinement *)

Promised == INSTANCE SMRequest WITH
  kind <- call.kind, effect <- call.effect, answer <- call.result
=============================================================================
