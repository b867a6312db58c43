--------------------------- MODULE SMAccess_proofs ---------------------------
(* Proofs about SMAccess: about one request of its client, about the resolver, and
   about what becomes of the two together. *)
EXTENDS SMAccess, ServiceManager_proofs, FiniteSetTheorems, TLAPS

\* SecretResolver as its proofs know it.
Resolved == INSTANCE SecretResolver_proofs

------------------------------------------------------------------------------
(* One request *)

\* A step the controllers may take for granted.
PromisedStep == Promised!Next \/ UNCHANGED Promised!requestVars

\* The state between two calls is one a call can be in.
LEMMA NoCallType == NoCall \in Calls /\ NoCatalog \in Catalogs
BY DEF NoCall, Calls, NoCatalog, Catalogs, NoReply, Reply

\* Without a plan there is nothing to determine.
LEMMA NoPlanIsDetermined == call.plan = NoPlan => PlanIsDetermined
BY DEF PlanIsDetermined

------------------------------------------------------------------------------
(* The beginning and the end of a call *)

\* getSMClient drops the last call, of which nothing is pending.
LEMMA NewClientKeeps == ClientInv /\ NewClient => ClientInv' /\ PromisedStep
<1> SUFFICES ASSUME ClientInv, NewClient PROVE ClientInv' /\ PromisedStep
  OBVIOUS
<1>1. call.pc = "idle" /\ call' = NoCall /\ UNCHANGED <<sm, catalog, steady>>
  BY DEF NewClient
<1>2. /\ call'.pc = "idle" /\ call'.kind = "none" /\ call'.effect = "none"
      /\ call'.result = "none" /\ call'.plan = NoPlan
  BY <1>1 DEF NoCall
<1>3. ClientInv'
  BY <1>1, <1>2, NoCallType
  DEF ClientInv, Progress, RepliesAreTrue, Searching, PlanIsDetermined
<1>4. Promised!Forget
  BY <1>1, <1>2 DEF ClientInv, Progress, Promised!Forget, Promised!Pending, Results
<1> QED
  BY <1>3, <1>4 DEF PromisedStep, Promised!Next

\* A method of the client is called: the request is made, nothing has happened yet.
LEMMA RequestKeeps ==
  ASSUME ClientInv, NEW kind \in Kinds, NEW tenant \in Tenants \cup {NoTenant},
         NEW id \in IDs \cup {NoId}, NEW planID \in Plans \cup {NoPlan},
         Request(kind, tenant, id, planID)
  PROVE  ClientInv' /\ PromisedStep
<1> DEFINE pc == IF kind \in Planned THEN "offerings" ELSE "send"
<1>1. /\ call.pc = "idle"
      /\ call' = [NoCall EXCEPT !.pc = pc, !.kind = kind, !.tenant = tenant, !.id = id,
                                !.planID = planID]
      /\ catalog' \in IF kind \in Planned THEN Catalogs ELSE {NoCatalog}
  BY DEF Request
<1>2. pc \in {"offerings", "send"}
  OBVIOUS
<1> HIDE DEF pc
<1>3. /\ call'.pc = pc /\ call'.kind = kind /\ call'.effect = "none"
      /\ call'.result = "none" /\ call'.plan = NoPlan
  BY <1>1 DEF NoCall
<1>4. call' \in Calls /\ catalog' \in Catalogs
  BY <1>1, <1>2, NoCallType DEF Calls
<1>5. ClientInv'
  BY <1>2, <1>3, <1>4
  DEF ClientInv, Progress, RepliesAreTrue, Searching, PlanIsDetermined
<1>6. Promised!Ask
  BY <1>1, <1>3 DEF ClientInv, Progress, Promised!Ask, Promised!Pending, Results
<1> QED
  BY <1>5, <1>6 DEF PromisedStep, Promised!Next

\* An answer is a failure, or says what was done.
LEMMA AnswerKeeps ==
  ASSUME ClientInv, call.pc # "idle", NEW result \in Results, Answer(result),
         result = "success" => call.effect \in {"done", "nothing", "read"},
         result = "accepted" => call.effect = "started"
  PROVE  ClientInv' /\ PromisedStep
<1>1. /\ call' = [NoCall EXCEPT !.kind = call.kind, !.effect = call.effect, !.result = result]
      /\ catalog' = NoCatalog
  BY DEF Answer
<1>2. /\ call'.pc = "idle" /\ call'.kind = call.kind /\ call'.effect = call.effect
      /\ call'.result = result /\ call'.plan = NoPlan
  BY <1>1 DEF NoCall
<1>3. /\ call.kind \in Kinds /\ call.result = "none" /\ call \in Calls
  BY DEF ClientInv, Progress
<1>4. call' \in Calls /\ catalog' \in Catalogs
  BY <1>1, <1>3, NoCallType DEF Calls
<1>5. ClientInv'
  BY <1>2, <1>3, <1>4
  DEF ClientInv, Progress, RepliesAreTrue, Searching, PlanIsDetermined
<1>6. Promised!Answer
  <2>1. call.kind # "none"
    BY <1>3 DEF Kinds, Planned, Creating, Deleting, Reading
  <2> QED
    BY <1>2, <1>3, <2>1 DEF Promised!Answer, Promised!Pending, Results
<1> QED
  BY <1>5, <1>6 DEF PromisedStep, Promised!Next

\* A call may fail at any point: a failure promises nothing.
LEMMA FailedKeeps ==
  ASSUME ClientInv, call.pc # "idle", NEW result \in {"failed", "transient"}, Answer(result)
  PROVE  ClientInv' /\ PromisedStep
BY AnswerKeeps DEF Results

------------------------------------------------------------------------------
(* The search for the plan *)

\* getAndValidatePlanID returns a plan of the listing: the one asked for, or without
\* one the only plan there is.
LEMMA ValidatedPlan ==
  ASSUME NEW plans \in SUBSET Plans, NEW planID \in Plans \cup {NoPlan},
         Validated(plans, planID) # NoPlan
  PROVE  /\ Validated(plans, planID) \in plans
         /\ planID \in {NoPlan, Validated(plans, planID)}
         /\ planID = NoPlan => plans = {Validated(plans, planID)}
<1>1. CASE Cardinality(plans) = 1 /\ planID = NoPlan
  <2>1. PICK p : plans = {p}
    <3>1. IsFiniteSet(plans)
      BY ClientAssumption, FS_Subset
    <3> QED
      BY <1>1, <3>1, FS_Singleton
  <2> QED
    BY <1>1, <2>1 DEF Validated
<1>2. CASE ~(Cardinality(plans) = 1 /\ planID = NoPlan)
  BY <1>2, ClientAssumption DEF Validated
<1> QED
  BY <1>1, <1>2

\* The first listing: the offerings are those of the catalog the search began with.
LEMMA ListOfferingsKeeps == ClientInv /\ ListOfferings => ClientInv' /\ PromisedStep
<1> SUFFICES ASSUME ClientInv, ListOfferings PROVE ClientInv' /\ PromisedStep
  OBVIOUS
<1>1. call.pc = "offerings" /\ call \in Calls /\ catalog \in Catalogs
  BY DEF ListOfferings, ClientInv
<1>2. CASE Answer("failed")
  BY <1>1, <1>2, FailedKeeps
<1>3. CASE /\ call' = [call EXCEPT !.pc = "plans", !.offerings = catalog.offerings]
           /\ UNCHANGED <<catalog, steady>>
  <2>1. /\ call'.pc = "plans" /\ call'.kind = call.kind /\ call'.effect = call.effect
        /\ call'.result = call.result /\ call'.plan = NoPlan
        /\ call'.offerings = catalog'.offerings /\ call' \in Calls
    BY <1>1, <1>3 DEF Calls, Catalogs, ClientInv, Searching
  <2>2. ClientInv'
    BY <1>1, <1>3, <2>1
    DEF ClientInv, Progress, RepliesAreTrue, Searching, PlanIsDetermined
  <2> QED
    BY <2>1, <2>2 DEF PromisedStep, Promised!requestVars
<1> QED
  BY <1>2, <1>3 DEF ListOfferings

\* The second listing: the plan chosen is the only one that was listed, or was asked for.
LEMMA ListPlansKeeps == ClientInv /\ ListPlans => ClientInv' /\ PromisedStep
<1> SUFFICES ASSUME ClientInv, ListPlans PROVE ClientInv' /\ PromisedStep
  OBVIOUS
<1> DEFINE plans == {p \in catalog.plans : OfferingOf[p] \in call.offerings}
           plan == Validated(plans, call.planID)
<1>1. call.pc = "plans" /\ call \in Calls /\ catalog \in Catalogs
  BY DEF ListPlans, ClientInv
<1>2. CASE Answer("failed")
  BY <1>1, <1>2, FailedKeeps
<1>3. CASE /\ plan # NoPlan
           /\ call' = [call EXCEPT !.pc = "send", !.plan = plan]
           /\ UNCHANGED <<catalog, steady>>
  <2>1. plans \in SUBSET Plans /\ call.planID \in Plans \cup {NoPlan}
    BY <1>1 DEF Catalogs, Calls
  <2>2. /\ plan \in plans /\ call.planID \in {NoPlan, plan}
        /\ call.planID = NoPlan => plans = {plan}
    BY <1>3, <2>1, ValidatedPlan
  <2>3. steady => plans = Candidates
    BY <1>1 DEF ClientInv, Searching, Candidates
  <2>4. /\ call'.pc = "send" /\ call'.kind = call.kind /\ call'.effect = call.effect
        /\ call'.result = call.result /\ call'.plan = plan /\ call'.planID = call.planID
        /\ call'.offerings = call.offerings /\ call' \in Calls
        /\ catalog' = catalog /\ steady' = steady
    BY <1>1, <1>3, <2>1, <2>2 DEF Calls
  <2>5. OfferingOf[plan] \in call.offerings
    BY <2>2
  <2>6. Candidates' = Candidates
    BY <2>4 DEF Candidates
  <2> HIDE DEF plans, plan
  <2>7. PlanIsDetermined'
    BY <2>2, <2>3, <2>4, <2>5, <2>6 DEF PlanIsDetermined
  <2>8. ClientInv'
    BY <1>1, <2>4, <2>7 DEF ClientInv, Progress, RepliesAreTrue, Searching
  <2> QED
    BY <2>4, <2>8 DEF PromisedStep, Promised!requestVars
<1> QED
  BY <1>2, <1>3 DEF ListPlans

\* Only while it is not looked at does the catalog change unnoticed.
LEMMA CatalogChangesKeeps == ClientInv /\ CatalogChanges => ClientInv' /\ PromisedStep
<1> SUFFICES ASSUME ClientInv, CatalogChanges PROVE ClientInv' /\ PromisedStep
  OBVIOUS
<1>1. /\ call.pc \in {"offerings", "plans"} /\ call' = call /\ ~steady'
      /\ catalog' \in Catalogs
  BY DEF CatalogChanges
<1>2. call.plan = NoPlan
  BY <1>1 DEF ClientInv, Searching
<1>3. ClientInv'
  BY <1>1, <1>2 DEF ClientInv, Progress, RepliesAreTrue, Searching, PlanIsDetermined
<1> QED
  BY <1>1, <1>3 DEF PromisedStep, Promised!requestVars

------------------------------------------------------------------------------
(* The request and its reply *)

\* A reply that says truly what SM did now.
LEMMA RepliedKeeps ==
  ASSUME ClientInv, call.pc = "send", UNCHANGED <<catalog, steady>>,
         NEW code \in Codes, NEW i \in IDs \cup {NoId}, NEW effect, Replied(code, i, effect),
         effect = Meaning(call.kind, code),
         effect \in Promised!Effects \cup {"none"}
  PROVE  ClientInv' /\ PromisedStep
<1>1. /\ call' = [call EXCEPT !.pc = "reply", !.reply = Reply(code, i), !.effect = effect]
      /\ call \in Calls /\ catalog \in Catalogs /\ catalog' = catalog /\ steady' = steady
      /\ call.effect = "none" /\ call.kind \in Kinds /\ call.result = "none"
  BY DEF Replied, ClientInv, Progress
<1>2. effect \in {"none", "done", "started", "nothing", "read"}
  BY DEF Promised!Effects
<1>3. /\ call'.pc = "reply" /\ call'.reply.code = code /\ call'.effect = effect
      /\ call'.kind = call.kind /\ call'.result = "none" /\ call'.plan = call.plan
      /\ call'.planID = call.planID /\ call'.offerings = call.offerings
      /\ call' \in Calls
  <2>1. Reply(code, i).code = code
    BY DEF Reply
  <2>2. Reply(code, i) \in [code: Codes \cup {"none"}, id: IDs \cup {NoId}]
    BY DEF Reply
  <2> DEFINE r == Reply(code, i)
  <2>3. call' = [call EXCEPT !.pc = "reply", !.reply = r, !.effect = effect]
    BY <1>1
  <2>4. r.code = code /\ r \in [code: Codes \cup {"none"}, id: IDs \cup {NoId}]
    BY <2>1, <2>2
  <2> HIDE DEF r
  <2>5. call' \in Calls
    BY <1>1, <1>2, <2>3, <2>4 DEF Calls
  <2>6. /\ call'.pc = "reply" /\ call'.reply = r /\ call'.effect = effect
        /\ call'.kind = call.kind /\ call'.result = call.result /\ call'.plan = call.plan
        /\ call'.planID = call.planID /\ call'.offerings = call.offerings
    BY <1>1, <2>3 DEF Calls
  <2> QED
    BY <1>1, <2>4, <2>5, <2>6
<1>4. PlanIsDetermined'
  BY <1>1, <1>3 DEF PlanIsDetermined, Candidates, ClientInv
<1>5. ClientInv'
  BY <1>1, <1>3, <1>4 DEF ClientInv, Progress, RepliesAreTrue, Searching
<1>6. call.kind # "none"
  BY <1>1 DEF Kinds, Planned, Creating, Deleting, Reading
<1>7. PromisedStep
  <2>1. CASE effect = "none"
    BY <1>1, <1>3, <2>1 DEF PromisedStep, Promised!requestVars
  <2>2. CASE effect \in Promised!Effects
    <3>1. Promised!Act
      BY <1>1, <1>3, <1>6, <2>2 DEF Promised!Act, Promised!Pending
    <3> QED
      BY <3>1 DEF PromisedStep, Promised!Next
  <2> QED
    BY <2>1, <2>2
<1> QED
  BY <1>5, <1>7

\* The kinds of requests exclude each other as far as SM is concerned.
LEMMA KindsDiffer ==
  /\ \A kind \in Creating \cup Deleting \cup {"update"} : kind \notin Reading
  /\ {"get", "list"} \cap Deleting = {}
BY DEF Creating, Deleting, Reading

\* SM executes or refuses the request, at most once, and replies what it did.
LEMMA ServeKeeps == ClientInv /\ Serve => ClientInv' /\ PromisedStep
<1> SUFFICES ASSUME ClientInv, Serve PROVE ClientInv' /\ PromisedStep
  OBVIOUS
<1>1. call.pc = "send" /\ UNCHANGED <<catalog, steady>> /\ call \in Calls
  BY DEF Serve, ClientInv
<1>2. CASE Create
  <2>1. PICK i \in IDs : Replied("201", i, "done") \/ Replied("202", i, "started")
    BY <1>2 DEF Create, FreeIDs
  <2>2. call.kind \in Creating
    BY <1>2 DEF Create
  <2> QED
    BY <1>1, <2>1, <2>2, KindsDiffer, RepliedKeeps DEF Codes, Meaning, Promised!Effects
<1>3. CASE Patch
  <2>1. call.id \in IDs /\ call.kind = "update"
    BY <1>3 DEF Patch, Reaches
  <2>2. Replied("200", call.id, "done") \/ Replied("202", call.id, "started")
    BY <1>3 DEF Patch
  <2> QED
    BY <1>1, <2>1, <2>2, KindsDiffer, RepliedKeeps DEF Codes, Meaning, Promised!Effects
<1>4. CASE Remove
  <2>1. call.kind \in Deleting
    BY <1>4 DEF Remove
  <2>2. \/ call.id \in IDs /\ Replied("200", call.id, "done")
        \/ call.id \in IDs /\ Replied("202", call.id, "started")
        \/ Replied("404", NoId, "nothing")
    BY <1>4 DEF Remove, Reaches
  <2> QED
    BY <1>1, <2>1, <2>2, KindsDiffer, RepliedKeeps DEF Codes, Meaning, Promised!Effects
<1>5. CASE Read
  <2>1. call.kind \in Reading /\ call.kind \notin Deleting
    BY <1>5, KindsDiffer DEF Read, Reading
  <2>2. \/ \E i \in IDs \cup {NoId} : Replied("200", i, "read")
        \/ Replied("404", NoId, "none")
    BY <1>5 DEF Read, Reaches
  <2>3. PICK i \in IDs \cup {NoId} :
          Replied("200", i, "read") \/ Replied("404", i, "none")
    BY <2>2
  <2> QED
    BY <1>1, <2>1, <2>3, RepliedKeeps DEF Codes, Meaning, Promised!Effects
<1>6. CASE Decline
  <2>1. Replied("500", NoId, "none") \/ Replied("429", NoId, "none")
    BY <1>6 DEF Decline
  <2> QED
    BY <1>1, <2>1, RepliedKeeps DEF Codes, Meaning
<1> QED
  BY <1>2, <1>3, <1>4, <1>5, <1>6 DEF Serve

\* The client takes a reply for a success only if SM did what was asked, and for an
\* acceptance only if SM started it.
LEMMA ResultIsTrue ==
  ASSUME call.kind \in Kinds, NEW code \in Codes
  PROVE  /\ ResultOf(code) \in Results
         /\ ResultOf(code) = "success"
              => Meaning(call.kind, code) \in {"done", "nothing", "read"}
         /\ ResultOf(code) = "accepted" => Meaning(call.kind, code) = "started"
<1>1. CASE call.kind \in Creating
  BY <1>1 DEF Codes, Results, ResultOf, Meaning, register, handleFailedResponse,
              Creating, Reading, Deleting
<1>2. CASE call.kind = "update"
  BY <1>2 DEF Codes, Results, ResultOf, Meaning, update, handleFailedResponse,
              Creating, Reading, Deleting
<1>3. CASE call.kind \in Deleting
  BY <1>3 DEF Codes, Results, ResultOf, Meaning, delete, handleFailedResponse,
              Creating, Reading, Deleting
<1>4. CASE call.kind = "get"
  BY <1>4 DEF Codes, Results, ResultOf, Meaning, get, handleFailedResponse,
              Creating, Reading, Deleting
<1>5. CASE call.kind = "list"
  BY <1>5 DEF Codes, Results, ResultOf, Meaning, Creating, Reading, Deleting
<1> QED
  BY <1>1, <1>2, <1>3, <1>4, <1>5 DEF Kinds, Planned, Creating, Deleting, Reading

\* The client judges the status code and reports what it means.
LEMMA ReceiveKeeps == ClientInv /\ Receive => ClientInv' /\ PromisedStep
<1> SUFFICES ASSUME ClientInv, Receive PROVE ClientInv' /\ PromisedStep
  OBVIOUS
<1> DEFINE code == call.reply.code
<1>1. /\ call.pc = "reply" /\ Answer(ResultOf(code)) /\ call.kind \in Kinds
      /\ call.effect = Meaning(call.kind, code) /\ code \in Codes
  BY DEF Receive, ClientInv, Progress, RepliesAreTrue
<1> HIDE DEF code
<1> QED
  BY <1>1, ResultIsTrue, AnswerKeeps

\* No reply, or that of a gateway: reported as a failure, whatever SM did.
LEMMA NoAnswerKeeps == ClientInv /\ NoAnswer => ClientInv' /\ PromisedStep
<1> SUFFICES ASSUME ClientInv, NoAnswer PROVE ClientInv' /\ PromisedStep
  OBVIOUS
<1>1. CASE call.pc \in {"send", "reply"} /\ Answer("failed")
  BY <1>1, FailedKeeps
<1>2. CASE call.pc = "reply" /\ Answer(ResultOf("429"))
  <2>1. ResultOf("429") \in {"failed", "transient"}
    <3>1. call.kind \in Kinds
      BY <1>2 DEF ClientInv, Progress
    <3> QED
      BY <3>1 DEF ResultOf, register, update, delete, get, handleFailedResponse,
                  Kinds, Planned, Creating, Deleting, Reading
  <2> QED
    BY <1>2, <2>1, FailedKeeps
<1> QED
  BY <1>1, <1>2 DEF NoAnswer

\* What does not concern the call keeps everything said of it.
LEMMA OthersKeep ==
  ASSUME ClientInv, UNCHANGED <<catalog, steady, call>>
  PROVE  ClientInv' /\ PromisedStep
BY DEF ClientInv, Progress, RepliesAreTrue, Searching, PlanIsDetermined, Candidates,
       PromisedStep, Promised!requestVars

------------------------------------------------------------------------------
(* The resolver *)

\* The instance of the resolver and that of its proofs are the same: the levels,
LEMMA SameLevels == Resolver!Levels = Resolved!Levels
BY DEF Resolver!Levels, Resolved!Levels

\* the order of the search,
LEMMA SameSearched == Resolver!Searched = Resolved!Searched
BY DEF Resolver!Searched, Resolved!Searched

\* the secrets,
LEMMA SameSecretTypes == Resolver!SecretTypes = Resolved!SecretTypes
BY DEF Resolver!SecretTypes, Resolved!SecretTypes, Resolver!NoSecret,
      Resolved!NoSecret

\* the initial states,
LEMMA SameInit == Resolver!Init <=> Resolved!Init
BY SameLevels, SameSecretTypes
  DEF Resolver!Init, Resolved!Init, Resolver!NoLookup, Resolved!NoLookup

\* the property,
LEMMA SameWins == Resolver!MostSpecificWins <=> Resolved!MostSpecificWins
BY SameLevels, SameSearched
  DEF Resolver!MostSpecificWins, Resolved!MostSpecificWins,
      Resolver!PassedOver, Resolved!PassedOver, Resolver!MoreSpecific,
      Resolved!MoreSpecific, Resolver!Levels, Resolved!Levels,
      Resolver!Searched, Resolved!Searched

\* the types,
LEMMA SameTypeOK == Resolver!TypeOK <=> Resolved!TypeOK
BY SameLevels, SameSearched, SameSecretTypes
  DEF Resolver!TypeOK, Resolved!TypeOK, Resolver!Lookups, Resolved!Lookups,
      Resolver!Outcomes, Resolved!Outcomes

\* the steps of a lookup,
LEMMA SameGet == Resolver!GetSecretForResource <=> Resolved!GetSecretForResource
BY SameLevels, SameSearched
  DEF Resolver!GetSecretForResource, Resolved!GetSecretForResource,
      Resolver!Begin, Resolved!Begin, Resolver!Get, Resolved!Get,
      Resolver!Return, Resolved!Return, Resolver!SearchOn, Resolved!SearchOn,
      Resolver!ReadFailed, Resolved!ReadFailed, Resolver!NoSecret,
      Resolved!NoSecret, Resolver!Present, Resolved!Present, Resolver!Levels,
      Resolved!Levels, Resolver!validateSAPCPOperatorSecret,
      Resolved!validateSAPCPOperatorSecret

\* and the changes of the secrets.
LEMMA SameChanges ==
  ASSUME NEW l, NEW secret
  PROVE  Resolver!SecretChanges(l, secret) <=> Resolved!SecretChanges(l, secret)
BY DEF Resolver!SecretChanges, Resolved!SecretChanges

\* Every step of SMAccess is one of the resolver, or none for it.
LEMMA ResolverStep == [Next]_vars => [Resolved!Next]_resolverVars
<1> SUFFICES ASSUME [Next]_vars PROVE [Resolved!Next]_resolverVars
  OBVIOUS
<1>1. CASE getSMClient
  BY <1>1, SameGet DEF getSMClient, Resolved!Next
<1>2. CASE SecretChanges
  <2>1. PICK l \in Resolved!Levels, secret \in Resolved!SecretTypes :
          Resolver!SecretChanges(l, secret)
    BY <1>2, SameLevels, SameSecretTypes DEF SecretChanges
  <2>2. Resolved!SecretChanges(l, secret)
    BY <2>1, SameChanges
  <2> QED
    BY <2>1, <2>2 DEF Resolved!Next
<1>3. CASE CallSM
  BY <1>3 DEF CallSM
<1>4. CASE Learn
  BY <1>4 DEF Learn
<1>5. CASE SMStep \/ LookupPlan \/ Lose \/ Market
  BY <1>5 DEF SMStep, LookupPlan, Lose, Market, Step
<1>6. CASE UNCHANGED vars
  BY <1>6 DEF vars
<1> QED
  BY <1>1, <1>2, <1>3, <1>4, <1>5, <1>6 DEF Next

\* SMAccess does with the resolver only what SecretResolver allows.
LEMMA KeepsResolver == Spec => Resolved!Spec
<1>1. Init => Resolved!Init
  BY SameInit DEF Init
<1>2. [Next]_vars => [Resolved!Next]_Resolved!resolverVars
  BY ResolverStep DEF resolverVars, Resolved!resolverVars
<1> QED
  BY <1>1, <1>2, PTL DEF Spec, Resolved!Spec

\* Whatever secrets change while resources are reconciled, the secret of a level is
\* passed over for a less specific one only if it was not there all the time.
THEOREM MostSpecificUsed == Spec => []MostSpecificWins
<1>1. Resolved!Spec => []Resolved!MostSpecificWins
  BY Resolved!MostSpecific
<1>2. Resolved!MostSpecificWins => MostSpecificWins
  BY SameWins DEF MostSpecificWins
<1> QED
  BY <1>1, <1>2, KeepsResolver, PTL

\* In the composition the resolver keeps its types.
LEMMA ResolverTypes == Spec => []Resolver!TypeOK
<1>1. Resolved!Spec => []Resolved!ResolverInv
  BY Resolved!ResolverInvariant
<1>2. Resolved!ResolverInv => Resolver!TypeOK
  BY SameTypeOK DEF Resolved!ResolverInv
<1> QED
  BY <1>1, <1>2, KeepsResolver, PTL

------------------------------------------------------------------------------
(* The client *)

\* Before the first call nothing has been promised.
LEMMA InitAccess == Init => AccessInv /\ Promised!Init
<1> SUFFICES ASSUME Init PROVE AccessInv /\ Promised!Init
  OBVIOUS
<1>1. call = NoCall /\ catalog = NoCatalog /\ known = NoId
  BY DEF Init
<1>2. /\ call.pc = "idle" /\ call.kind = "none" /\ call.effect = "none"
      /\ call.result = "none" /\ call.plan = NoPlan
  BY <1>1 DEF NoCall
<1>3. ClientInv
  BY <1>1, <1>2, NoCallType
  DEF ClientInv, Progress, RepliesAreTrue, Searching, PlanIsDetermined
<1> QED
  BY <1>1, <1>2, <1>3 DEF AccessInv, Promised!Init

\* The resource makes a call with the client it has, for what its status names.
LEMMA CallSMKeeps ==
  ASSUME AccessInv, Resolver!TypeOK, CallSM
  PROVE  AccessInv' /\ PromisedStep
<1>1. PICK kind \in Permitted, planID \in Plans \cup {NoPlan} :
        Request(kind, lookup.tenant, known, planID)
  BY DEF CallSM
<1>2. kind \in Kinds
  BY DEF Permitted, Kinds, Planned, Creating, Deleting, Reading
<1>3. lookup.tenant \in Tenants \cup {NoTenant}
  BY DEF Resolver!TypeOK, Resolver!Lookups
<1>4. known' = known /\ known \in IDs \cup {NoId} /\ ClientInv
  BY DEF CallSM, Elsewhere, AccessInv
<1> QED
  BY <1>1, <1>2, <1>3, <1>4, RequestKeeps DEF AccessInv

\* The controller learns the result of a call.
LEMMA LearnKeeps == AccessInv /\ Learn => AccessInv' /\ PromisedStep
<1> SUFFICES ASSUME AccessInv, Learn PROVE AccessInv' /\ PromisedStep
  OBVIOUS
<1>1. ClientInv' /\ PromisedStep
  BY ReceiveKeeps DEF AccessInv, Learn
<1>2. call.reply.id \in IDs \cup {NoId}
  BY DEF AccessInv, ClientInv, Calls
<1>3. known' \in {call.reply.id, NoId, known}
  BY DEF Learn
<1> QED
  BY <1>1, <1>2, <1>3 DEF AccessInv

\* Every step keeps the invariant and is one of SMRequest, or none for it.
LEMMA NextAccess ==
  AccessInv /\ Resolver!TypeOK /\ [Next]_vars => AccessInv' /\ [Promised!Next]_Promised!requestVars
<1> SUFFICES ASSUME AccessInv, Resolver!TypeOK, [Next]_vars PROVE AccessInv' /\ PromisedStep
  BY DEF PromisedStep
<1>1. CASE getSMClient
  BY <1>1, NewClientKeeps DEF getSMClient, Elsewhere, AccessInv
<1>2. CASE SecretChanges
  BY <1>2, OthersKeep DEF SecretChanges, Elsewhere, AccessInv, clientVars
<1>3. CASE CallSM
  BY <1>3, CallSMKeeps
<1>4. CASE Learn
  BY <1>4, LearnKeeps
<1>5. CASE SMStep
  <2>1. Serve \/ UNCHANGED <<catalog, steady, call>>
    BY <1>5 DEF SMStep, Step, Finish
  <2>2. known' = known
    BY <1>5 DEF SMStep, Step, Elsewhere
  <2> QED
    BY <2>1, <2>2, ServeKeeps, OthersKeep DEF AccessInv
<1>6. CASE LookupPlan
  BY <1>6, ListOfferingsKeeps, ListPlansKeeps DEF LookupPlan, Step, Elsewhere, AccessInv
<1>7. CASE Lose
  BY <1>7, NoAnswerKeeps DEF Lose, Step, Elsewhere, AccessInv
<1>8. CASE Market
  BY <1>8, CatalogChangesKeeps DEF Market, Step, Elsewhere, AccessInv
<1>9. CASE UNCHANGED vars
  BY <1>9, OthersKeep DEF vars, clientVars, ownVars, AccessInv
<1> QED
  BY <1>1, <1>2, <1>3, <1>4, <1>5, <1>6, <1>7, <1>8, <1>9 DEF Next

\* The client's part of the invariant.
LEMMA AccessInvariant == Spec => []AccessInv
  BY InitAccess, NextAccess, ResolverTypes, PTL DEF Spec

\* A plan id the user gave is never replaced and no plan is chosen between several,
\* as long as the catalog stays the same under the two listings.
THEOREM PlansDetermined == Spec => []PlanIsDetermined
<1>1. AccessInv => PlanIsDetermined
  BY DEF AccessInv, ClientInv
<1> QED
  BY <1>1, AccessInvariant, PTL

\* Whatever SM, the connection and the catalog do, SM acts at most once for a call
\* of the client, and a success or an acceptance is reported only of what SM did.
THEOREM KeepsPromise == Spec => ImplementsSMRequest
<1>1. Spec => Promised!Init /\ [][Promised!Next]_Promised!requestVars
  BY InitAccess, NextAccess, AccessInvariant, ResolverTypes, PTL DEF Spec
<1> QED
  BY <1>1 DEF ImplementsSMRequest, Promised!Spec

------------------------------------------------------------------------------
(* What SM does under a request: nothing that is gone comes back *)

SMMoves == /\ sm' \in [IDs -> Things] /\ LiveIsRecorded' /\ Used \subseteq Used'
           /\ \A i \in Used : sm'[i].alive => sm[i].alive

\* What a reply to the request says, of SM as it is then.
ReplyIsTrue ==
  /\ call'.reply.id # NoId => call'.reply.id \in Used' /\ TenantOf[call'.reply.id] = call.tenant
  /\ /\ call.kind \in Deleting /\ call'.reply.code \in {"200", "404"}
     /\ TenantOf[call.id] = call.tenant
     => ~sm'[call.id].alive

\* What SM has it has recorded.
LEMMA LiveIsUsed ==
  ASSUME LiveIsRecorded, NEW i \in IDs, sm[i].alive
  PROVE  i \in Used
BY DEF LiveIsRecorded, Used, FreeIDs

\* A step that changes one thing in use, or a free one, moves SM on.
LEMMA AdvancedMoves ==
  ASSUME sm \in [IDs -> Things], NEW i \in IDs, Advanced(i),
         i \in FreeIDs \/ (sm'[i].alive => sm[i].alive)
  PROVE  SMMoves
<1>1. sm' \in [IDs -> Things] /\ LiveIsRecorded' /\ \A j \in IDs \ {i} : sm'[j] = sm[j]
  BY DEF Advanced
<1>2. Used \subseteq Used'
  BY RecordsStay
<1>3. i \in Used => (sm'[i].alive => sm[i].alive)
  BY DEF Used
<1>4. Used \subseteq IDs
  BY DEF Used
<1> QED
  BY <1>1, <1>2, <1>3, <1>4 DEF SMMoves

\* A step that leaves SM alone does too.
LEMMA StillMoves ==
  ASSUME sm \in [IDs -> Things], LiveIsRecorded, UNCHANGED sm
  PROVE  SMMoves /\ Used' = Used
BY DEF SMMoves, LiveIsRecorded, Used, FreeIDs

\* The reply to a request, field by field.
LEMMA RepliedFields ==
  ASSUME call \in Calls, NEW code, NEW i, NEW effect, Replied(code, i, effect)
  PROVE  /\ call'.pc = "reply" /\ call'.reply.code = code /\ call'.reply.id = i
         /\ call'.kind = call.kind /\ call'.tenant = call.tenant /\ call'.id = call.id
BY DEF Replied, Reply, Calls

\* A creation is answered with the id of what was created.
LEMMA CreateMoves ==
  ASSUME sm \in [IDs -> Things], LiveIsRecorded, call \in Calls, Create
  PROVE  SMMoves /\ ReplyIsTrue
<1>1. PICK i \in FreeIDs :
        /\ call.kind \in Creating /\ TenantOf[i] = call.tenant
        /\ \/ SMCreate(i, NoRequest, "SUCCEEDED") /\ Replied("201", i, "done")
           \/ SMCreate(i, NoRequest, "IN_PROGRESS") /\ Replied("202", i, "started")
  BY DEF Create
<1>2. i \in IDs /\ NoRequest \in Requests /\ call.kind \notin Deleting
  BY <1>1 DEF FreeIDs, NoRequest, Requests, Creating, Deleting
<1>3. Advanced(i) /\ sm'[i].alive
  <2>1. CASE SMCreate(i, NoRequest, "SUCCEEDED")
    BY <2>1, <1>2, CreateFacts
  <2>2. CASE SMCreate(i, NoRequest, "IN_PROGRESS")
    BY <2>2, <1>2, CreateFacts
  <2> QED
    BY <1>1, <2>1, <2>2
<1>4. SMMoves
  BY <1>1, <1>2, <1>3, AdvancedMoves
<1>5. call'.reply.id = i
  BY <1>1, RepliedFields
<1>6. i \in Used'
  BY <1>2, <1>3 DEF Advanced, LiveIsRecorded, Used, FreeIDs
<1> QED
  BY <1>1, <1>2, <1>4, <1>5, <1>6 DEF ReplyIsTrue

\* An update is answered with the id it is about.
LEMMA PatchMoves ==
  ASSUME sm \in [IDs -> Things], LiveIsRecorded, call \in Calls, Patch
  PROVE  SMMoves /\ ReplyIsTrue
<1>1. /\ call.kind = "update" /\ Reaches(call.id)
      /\ \/ SMPatch(call.id, NoRequest, "SUCCEEDED") /\ Replied("200", call.id, "done")
         \/ SMPatch(call.id, NoRequest, "IN_PROGRESS") /\ Replied("202", call.id, "started")
  BY DEF Patch
<1>2. /\ call.id \in IDs /\ NoRequest \in Requests /\ call.kind \notin Deleting
      /\ sm[call.id].alive /\ TenantOf[call.id] = call.tenant
  BY <1>1 DEF Reaches, NoRequest, Requests, Deleting
<1>3. Advanced(call.id) /\ sm[call.id].alive
  <2>1. CASE SMPatch(call.id, NoRequest, "SUCCEEDED")
    BY <2>1, <1>2, PatchFacts
  <2>2. CASE SMPatch(call.id, NoRequest, "IN_PROGRESS")
    BY <2>2, <1>2, PatchFacts
  <2> QED
    BY <1>1, <2>1, <2>2
<1>4. SMMoves
  BY <1>2, <1>3, AdvancedMoves
<1>5. call'.reply.id = call.id
  BY <1>1, RepliedFields
<1>6. call.id \in Used'
  BY <1>2, <1>4, LiveIsUsed DEF SMMoves
<1> QED
  BY <1>2, <1>4, <1>5, <1>6 DEF ReplyIsTrue

\* A deletion is answered 200 or 404 only if the thing is gone, or another tenant's.
LEMMA RemoveMoves ==
  ASSUME sm \in [IDs -> Things], LiveIsRecorded, call \in Calls, Remove,
         call.kind \in Deleting => call.id \in IDs
  PROVE  SMMoves /\ ReplyIsTrue
<1>0. call.id \in IDs
  BY DEF Remove
<1>1. CASE Reaches(call.id) /\ SMDeleteNow(call.id) /\ Replied("200", call.id, "done")
  <2> DEFINE i == call.id
  <2>1. Advanced(i) /\ ~sm'[i].alive
    BY <1>0, <1>1, DeleteNowFacts
  <2>2. SMMoves
    BY <1>0, <2>1, AdvancedMoves
  <2>3. call'.reply.id = i /\ i \in Used /\ TenantOf[i] = call.tenant
    BY <1>0, <1>1, RepliedFields, LiveIsUsed DEF Reaches
  <2> QED
    BY <2>1, <2>2, <2>3 DEF ReplyIsTrue, SMMoves
<1>2. CASE Reaches(call.id) /\ SMDeleteAsync(call.id) /\ Replied("202", call.id, "started")
  <2> DEFINE i == call.id
  <2>1. Advanced(i) /\ sm[i].alive
    BY <1>0, <1>2, DeleteAsyncFacts
  <2>2. SMMoves
    BY <1>0, <2>1, AdvancedMoves
  <2>3. /\ call'.reply.id = i /\ call'.reply.code = "202"
        /\ i \in Used /\ TenantOf[i] = call.tenant
    BY <1>0, <1>2, RepliedFields, LiveIsUsed DEF Reaches
  <2> QED
    BY <2>1, <2>2, <2>3 DEF ReplyIsTrue, SMMoves
<1>3. CASE ~Reaches(call.id) /\ Replied("404", NoId, "nothing") /\ UNCHANGED sm
  <2>1. SMMoves
    BY <1>3, StillMoves
  <2>2. call'.reply.id = NoId
    BY <1>3, RepliedFields
  <2>3. TenantOf[call.id] = call.tenant => ~sm'[call.id].alive
    BY <1>0, <1>3 DEF Reaches
  <2> QED
    BY <2>1, <2>2, <2>3 DEF ReplyIsTrue
<1> QED
  BY <1>1, <1>2, <1>3 DEF Remove

\* A read is answered with the id of something SM has there.
LEMMA ReadMoves ==
  ASSUME sm \in [IDs -> Things], LiveIsRecorded, call \in Calls, Read
  PROVE  SMMoves /\ ReplyIsTrue
<1>1. SMMoves /\ Used' = Used /\ call.kind \notin Deleting
  BY StillMoves DEF Read, Deleting
<1>2. \/ \E i \in IDs : Reaches(i) /\ Replied("200", i, "read")
      \/ Replied("404", NoId, "none")
      \/ Replied("200", NoId, "read")
  BY DEF Read, Reaches
<1>3. CASE \E i \in IDs : Reaches(i) /\ Replied("200", i, "read")
  <2>1. PICK i \in IDs : Reaches(i) /\ Replied("200", i, "read")
    BY <1>3
  <2>2. call'.reply.id = i /\ i \in Used /\ TenantOf[i] = call.tenant
    BY <2>1, RepliedFields, LiveIsUsed DEF Reaches
  <2> QED
    BY <1>1, <2>2 DEF ReplyIsTrue
<1>4. CASE Replied("404", NoId, "none") \/ Replied("200", NoId, "read")
  <2>1. call'.reply.id = NoId
    BY <1>4, RepliedFields
  <2> QED
    BY <1>1, <2>1 DEF ReplyIsTrue
<1> QED
  BY <1>2, <1>3, <1>4

\* Every request moves SM on, and the reply to it is true.
LEMMA ServeMoves ==
  ASSUME sm \in [IDs -> Things], LiveIsRecorded, call \in Calls, Serve,
         call.kind \in Deleting => call.id \in IDs
  PROVE  /\ SMMoves /\ ReplyIsTrue
         /\ call'.kind = call.kind /\ call'.tenant = call.tenant /\ call'.id = call.id
<1>1. Create \/ Patch \/ Remove \/ Read \/ Decline
  BY DEF Serve
<1>2. CASE Decline
  <2>1. SMMoves
    BY <1>2, StillMoves DEF Decline
  <2>2. call'.reply.id = NoId /\ call'.reply.code \in {"500", "429"}
    BY <1>2, RepliedFields DEF Decline
  <2> QED
    BY <1>2, <2>1, <2>2, RepliedFields DEF ReplyIsTrue, Decline
<1>3. \E code, i, effect : Replied(code, i, effect)
  <2>1. CASE Create
    BY <2>1 DEF Create
  <2>2. CASE Patch
    BY <2>2 DEF Patch
  <2>3. CASE Remove
    BY <2>3 DEF Remove
  <2>4. CASE Read
    BY <2>4 DEF Read
  <2>5. CASE Decline
    BY <2>5 DEF Decline
  <2> QED
    BY <1>1, <2>1, <2>2, <2>3, <2>4, <2>5
<1>4. SMMoves /\ ReplyIsTrue
  BY <1>1, <1>2, CreateMoves, PatchMoves, RemoveMoves, ReadMoves
<1> QED
  BY <1>3, <1>4, RepliedFields

\* What SM ends, it ends for good.
LEMMA FinishMoves ==
  ASSUME sm \in [IDs -> Things], LiveIsRecorded, NEW i \in IDs, SMFinish(i)
  PROVE  SMMoves
<1>1. Advanced(i) /\ sm[i].alive
  BY FinishFacts
<1> QED
  BY <1>1, AdvancedMoves

------------------------------------------------------------------------------
(* What the resolver decides *)

\* The order of the levels, as the resolver of SMAccess has it.
LEMMA Order ==
  /\ Len(Resolver!Searched) \in Nat /\ Len(Resolver!Searched) > 1
  /\ \A k \in 1..Len(Resolver!Searched) : Resolver!Searched[k] \in Resolver!Levels
BY SameSearched, SameLevels, Resolved!SearchOrder

\* The secrets decide for one level only.
LEMMA OneDecides ==
  ASSUME NEW k, NEW j, Decides(k), Decides(j)
  PROVE  k = j
<1> DEFINE n == Len(Resolver!Searched)
           Empty(p) == secrets[Resolver!Searched[p]] = Resolver!NoSecret
<1>1. n \in Nat /\ k \in 1..n /\ j \in 1..n
  BY Order DEF Decides
<1>2. ~Empty(k) /\ ~Empty(j)
  BY DEF Decides
<1>3. (\A p \in 1..(k - 1) : Empty(p)) /\ (\A p \in 1..(j - 1) : Empty(p))
  BY DEF Decides
<1> HIDE DEF n, Empty
<1>4. ~(j < k) /\ ~(k < j)
  BY <1>1, <1>2, <1>3
<1> QED
  BY <1>1, <1>4

\* What a lookup has found by now is still true after its next step.
LEMMA GetSecretKeeps ==
  ASSUME Resolver!TypeOK, Resolved!ResolverInv, LookupIsTrue, changes' = changes,
         Resolver!GetSecretForResource
  PROVE  LookupIsTrue' /\ secrets' = secrets
<1> DEFINE n == Len(Resolver!Searched)
           level == Resolver!Searched[lookup.at]
           Empty(p) == secrets[Resolver!Searched[p]] = Resolver!NoSecret
<1>1. n \in Nat /\ n > 1 /\ lookup \in Resolver!Lookups /\ secrets \in [Resolver!Levels -> Resolver!SecretTypes]
  BY Order DEF Resolver!TypeOK
<1>2. CASE Resolver!Begin
  <2>1. /\ lookup'.at = 1 /\ lookup'.outcome = "searching" /\ secrets' = secrets
    BY <1>2 DEF Resolver!Begin
  <2>2. 1..(lookup'.at - 1) = {}
    BY <2>1
  <2> QED
    BY <2>1, <2>2 DEF LookupIsTrue
<1>3. CASE Resolver!Get
  <2>0. secrets' = secrets
    BY <1>3 DEF Resolver!Get
  <2>1. /\ lookup.outcome = "searching" /\ secrets' = secrets
        /\ \/ secrets[level] = Resolver!NoSecret /\ Resolver!SearchOn
           \/ /\ secrets[level] # Resolver!NoSecret /\ secrets[level] # Incomplete
              /\ Resolver!Return("found", secrets[level])
           \/ Resolver!Return("invalid", NoTenant)
           \/ Resolver!Return("error", NoTenant)
    BY <1>3 DEF Resolver!Get, Resolver!validateSAPCPOperatorSecret, Resolver!ReadFailed
  <2>2. lookup.at \in 1..n
    <3>1. lookup.at > 0
      BY <2>1, SameTypeOK DEF Resolved!ResolverInv, Resolved!ReadsAreTrue
    <3>2. lookup.at \in 0..n
      BY <1>1 DEF Resolver!Lookups
    <3> QED
      BY <1>1, <3>1, <3>2
  <2>3. changes = 0 => \A j \in 1..(lookup.at - 1) : Empty(j)
    BY <2>1 DEF LookupIsTrue
  <2>4. level \in Resolver!Levels
    BY <2>2, Order
  <2>5. CASE secrets[level] = Resolver!NoSecret /\ Resolver!SearchOn
    <3>1. CASE lookup.at < n
      <4>1. lookup'.at = lookup.at + 1 /\ lookup'.outcome = "searching"
        BY <1>1, <2>1, <2>5, <3>1 DEF Resolver!SearchOn, Resolver!Lookups
      <4>2. ASSUME changes = 0, NEW j \in 1..lookup.at PROVE Empty(j)
        BY <2>2, <2>3, <2>5, <4>2
      <4>3. lookup'.at - 1 = lookup.at
        BY <2>2, <4>1
      <4>4. changes' = 0 => \A j \in 1..(lookup'.at - 1) : secrets'[Resolver!Searched[j]] = Resolver!NoSecret
        BY <2>1, <4>2, <4>3
      <4> QED
        BY <2>0, <4>1, <4>4 DEF LookupIsTrue
    <3>2. CASE ~(lookup.at < n)
      <4>1. lookup'.outcome = "missing"
        BY <1>1, <2>5, <3>2 DEF Resolver!SearchOn, Resolver!Return, Resolver!Lookups
      <4> QED
        BY <2>0, <4>1 DEF LookupIsTrue
    <3> QED
      BY <3>1, <3>2
  <2>6. CASE /\ secrets[level] # Resolver!NoSecret /\ secrets[level] # Incomplete
             /\ Resolver!Return("found", secrets[level])
    <3>1. lookup'.at = lookup.at /\ lookup'.outcome = "found" /\ lookup'.tenant = secrets[level]
      BY <1>1, <2>6 DEF Resolver!Return, Resolver!Lookups
    <3>2. secrets[level] \in Tenants
      BY <1>1, <2>4, <2>6 DEF Resolver!SecretTypes
    <3>3. changes' = 0 => \A j \in 1..(lookup'.at - 1) : secrets'[Resolver!Searched[j]] = Resolver!NoSecret
      BY <2>1, <2>3, <3>1
    <3>4. secrets'[Resolver!Searched[lookup'.at]] = lookup'.tenant
      BY <2>1, <3>1
    <3> QED
      BY <2>0, <3>1, <3>2, <3>3, <3>4 DEF LookupIsTrue
  <2>7. CASE Resolver!Return("invalid", NoTenant) \/ Resolver!Return("error", NoTenant)
    <3>1. lookup'.outcome \in {"invalid", "error"}
      BY <1>1, <2>7 DEF Resolver!Return, Resolver!Lookups
    <3> QED
      BY <2>0, <3>1 DEF LookupIsTrue
  <2> QED
    BY <2>1, <2>5, <2>6, <2>7
<1> QED
  BY <1>2, <1>3 DEF Resolver!GetSecretForResource

\* Whatever leaves the resolver alone leaves what it decided.
LEMMA DecisionStays ==
  ASSUME UNCHANGED resolverVars, changes' = changes
  PROVE  /\ LookupIsTrue' = LookupIsTrue /\ lookup' = lookup
         /\ \A k : Decides(k)' = Decides(k)
BY DEF resolverVars, LookupIsTrue, Decides

------------------------------------------------------------------------------
(* The invariant of an access *)

\* What the other invariants give to a step of this one.
Given == /\ AccessInv /\ AccessInv' /\ Resolver!TypeOK /\ Resolver!TypeOK'
         /\ Resolved!ResolverInv

\* A step other than of the request, or one in its course.
GoesOn ==
  \/ call'.pc = "idle"
  \/ /\ call.pc # "idle"
     /\ call'.kind = call.kind /\ call'.tenant = call.tenant /\ call'.id = call.id
     /\ call'.pc = "reply" => ReplyIsTrue

\* What has no type yet by the other invariants.
OtherTypes ==
  /\ steady' \in BOOLEAN /\ told' \subseteq [id: IDs, tenant: Tenants]
  /\ changes' \in 0..MaxChanges
  /\ DOMAIN delivered'.given \subseteq UNION {DOMAIN c : c \in CredentialSets}

\* With those the types are complete.
LEMMA TypesKept == Given /\ SMMoves /\ OtherTypes => TypeOK' /\ LiveIsRecorded'
BY DEF Given, AccessInv, ClientInv, SMMoves, OtherTypes, TypeOK, ClientTypeOK

\* No credentials are delivered elsewhere than after a read or a creation.
LEMMA NothingGiven == Elsewhere => /\ known' = known /\ told' = told
                                   /\ DOMAIN delivered'.given \subseteq {}
<1>1. DOMAIN <<>> = {}
  OBVIOUS
<1> QED
  BY <1>1 DEF Elsewhere, NothingDelivered

\* The history of deletions stays true as SM moves on.
LEMMA HistoryKept ==
  ASSUME WayInv, SMMoves
  PROVE  /\ \A deletion \in told : deletion.id \in Used'
         /\ \A deletion \in told :
              TenantOf[deletion.id] = deletion.tenant => ~sm'[deletion.id].alive
BY DEF WayInv, IdsAreAssigned, DeletedIsGone, SMMoves

\* A call in a state other than idle asks a tenant about what the status names.
LEMMA Directed ==
  ASSUME WayInv, call.pc # "idle"
  PROVE  /\ lookup.outcome = "found" /\ call.tenant = lookup.tenant /\ call.tenant \in Tenants
         /\ call.id = known /\ (call.kind \in Deleting => call.id \in IDs /\ call.id \in Used)
<1>1. /\ lookup.outcome = "found" /\ call.tenant = lookup.tenant /\ call.tenant \in Tenants
      /\ call.id = known /\ call.kind \in Permitted
  BY DEF WayInv, CallIsDirected, LookupIsTrue
<1>2. call.kind \in Deleting => known # NoId
  BY <1>1 DEF Permitted, Creating, Deleting
<1>3. known \in IDs \cup {NoId} /\ (known # NoId => known \in Used)
  BY DEF WayInv, TypeOK, IdsAreAssigned
<1> QED
  BY <1>1, <1>2, <1>3

\* A reply stays true while SM moves on.
LEMMA ReplyStays ==
  ASSUME WayInv, call.pc = "reply", SMMoves, UNCHANGED call
  PROVE  ReplyIsTrue
<1>1. call.reply.id # NoId => call.reply.id \in Used' /\ TenantOf[call.reply.id] = call.tenant
  BY DEF WayInv, IdsAreAssigned, SMMoves
<1>2. call.kind \in Deleting => call.id \in Used
  BY Directed
<1>3. /\ call.kind \in Deleting /\ call.reply.code \in {"200", "404"}
      /\ TenantOf[call.id] = call.tenant
      => ~sm'[call.id].alive
  BY <1>2 DEF WayInv, DeletionIsTrue, SMMoves
<1> QED
  BY <1>1, <1>3 DEF ReplyIsTrue

\* Whatever the request does, the secrets and the status staying as they are.
LEMMA GoesOnKeeps ==
  ASSUME WayInv, Given, SMMoves, GoesOn, Elsewhere, UNCHANGED <<resolverVars, changes>>,
         steady' \in BOOLEAN
  PROVE  WayInv'
<1>1. /\ known' = known /\ told' = told /\ DOMAIN delivered'.given \subseteq {}
      /\ changes' = changes
  BY NothingGiven
<1>2. TypeOK' /\ LiveIsRecorded'
  <2>1. OtherTypes
    BY <1>1 DEF WayInv, TypeOK, OtherTypes
  <2> QED
    BY <2>1, TypesKept
<1>3. LookupIsTrue' /\ lookup' = lookup /\ \A k : Decides(k)' = Decides(k)
  BY DecisionStays DEF WayInv
<1>4. CallIsDirected'
  <2>1. Permitted' = Permitted
    BY <1>1 DEF Permitted
  <2> QED
    BY <1>1, <1>3, <2>1 DEF GoesOn, WayInv, CallIsDirected
<1>5. IdsAreAssigned'
  <2>1. known # NoId => known \in Used'
    BY DEF WayInv, IdsAreAssigned, SMMoves
  <2>2. call'.pc = "reply" /\ call'.reply.id # NoId =>
          call'.reply.id \in Used' /\ TenantOf[call'.reply.id] = call'.tenant
    BY DEF GoesOn, ReplyIsTrue
  <2>3. changes' = 0 /\ known' # NoId =>
          \E k \in 1..Len(Resolver!Searched) :
            Decides(k)' /\ secrets'[Resolver!Searched[k]] = TenantOf[known']
    BY <1>1, <1>3 DEF WayInv, IdsAreAssigned, resolverVars
  <2>4. \A deletion \in told' : deletion.id \in Used'
    BY <1>1, HistoryKept
  <2> QED
    BY <1>1, <2>1, <2>2, <2>3, <2>4 DEF IdsAreAssigned
<1>6. DeletionIsTrue'
  BY DEF GoesOn, ReplyIsTrue, DeletionIsTrue
<1>7. DeletedIsGone'
  BY <1>1, HistoryKept DEF DeletedIsGone
<1> QED
  BY <1>2, <1>3, <1>4, <1>5, <1>6, <1>7 DEF WayInv

\* A Reconcile that resolves the secret.
LEMMA getSMClientKeeps ==
  ASSUME WayInv, Given, getSMClient
  PROVE  WayInv'
<1>1. /\ call' = NoCall /\ UNCHANGED <<sm, steady>> /\ changes' = changes
      /\ known' = known /\ told' = told /\ DOMAIN delivered'.given \subseteq {}
  BY NothingGiven DEF getSMClient, NewClient
<1>2. SMMoves /\ Used' = Used
  BY <1>1, StillMoves DEF WayInv, TypeOK, ClientTypeOK
<1>3. TypeOK' /\ LiveIsRecorded'
  <2>1. OtherTypes
    BY <1>1 DEF WayInv, TypeOK, ClientTypeOK, OtherTypes
  <2> QED
    BY <1>2, <2>1, TypesKept
<1>4. LookupIsTrue' /\ secrets' = secrets
  BY <1>1, GetSecretKeeps DEF Given, WayInv, getSMClient
<1>5. call'.pc = "idle"
  BY <1>1 DEF NoCall
<1>6. IdsAreAssigned'
  <2>1. \A k : Decides(k)' = Decides(k)
    BY <1>4 DEF Decides
  <2>2. changes' = 0 /\ known' # NoId =>
          \E k \in 1..Len(Resolver!Searched) :
            Decides(k)' /\ secrets'[Resolver!Searched[k]] = TenantOf[known']
    BY <1>1, <1>4, <2>1 DEF WayInv, IdsAreAssigned
  <2>3. (known' # NoId => known' \in Used') /\ \A deletion \in told' : deletion.id \in Used'
    BY <1>1, <1>2 DEF WayInv, IdsAreAssigned
  <2> QED
    BY <1>5, <2>2, <2>3 DEF IdsAreAssigned
<1>7. DeletedIsGone'
  BY <1>1, <1>2, HistoryKept DEF DeletedIsGone
<1> QED
  BY <1>3, <1>4, <1>5, <1>6, <1>7 DEF WayInv, CallIsDirected, DeletionIsTrue

\* After the first change of a secret nothing is claimed of where a thing is.
LEMMA SecretChangesKeeps ==
  ASSUME WayInv, Given, SecretChanges
  PROVE  WayInv'
<1>1. /\ UNCHANGED <<sm, catalog, steady, call>> /\ call.pc = "idle"
      /\ changes < MaxChanges /\ changes' = changes + 1
      /\ known' = known /\ told' = told /\ DOMAIN delivered'.given \subseteq {}
  BY NothingGiven DEF SecretChanges, clientVars
<1>2. SMMoves /\ Used' = Used
  BY <1>1, StillMoves DEF WayInv, TypeOK, ClientTypeOK
<1>3. changes' \in 0..MaxChanges /\ changes' # 0
  BY <1>1, AccessAssumption DEF WayInv, TypeOK
<1>4. TypeOK' /\ LiveIsRecorded'
  <2>1. OtherTypes
    BY <1>1, <1>3 DEF WayInv, TypeOK, ClientTypeOK, OtherTypes
  <2> QED
    BY <1>2, <2>1, TypesKept
<1>5. lookup' = lookup
  BY DEF SecretChanges, Resolver!SecretChanges
<1>6. LookupIsTrue'
  BY <1>3, <1>5 DEF WayInv, LookupIsTrue
<1>7. IdsAreAssigned'
  BY <1>1, <1>2, <1>3 DEF WayInv, IdsAreAssigned
<1>8. DeletedIsGone'
  BY <1>1, <1>2, HistoryKept DEF DeletedIsGone
<1> QED
  BY <1>1, <1>4, <1>6, <1>7, <1>8 DEF WayInv, CallIsDirected, DeletionIsTrue

\* A call begins for what the status names, at the tenant that was found.
LEMMA CallBegins ==
  ASSUME WayInv, Given, CallSM
  PROVE  WayInv'
<1>1. PICK kind \in Permitted, planID \in Plans \cup {NoPlan} :
        Request(kind, lookup.tenant, known, planID)
  BY DEF CallSM
<1>2. /\ lookup.outcome = "found" /\ UNCHANGED <<secrets, lookup, kept, changes>>
      /\ known' = known /\ told' = told /\ DOMAIN delivered'.given \subseteq {}
  BY NothingGiven DEF CallSM, resolverVars
<1>3. /\ call'.pc \in {"offerings", "send"} /\ call'.kind = kind
      /\ call'.tenant = lookup.tenant /\ call'.id = known
      /\ steady' = TRUE /\ sm' = sm
  BY <1>1 DEF Request, NoCall
<1>4. SMMoves /\ Used' = Used
  BY <1>3, StillMoves DEF WayInv, TypeOK, ClientTypeOK
<1>5. TypeOK' /\ LiveIsRecorded'
  <2>1. OtherTypes
    BY <1>2, <1>3 DEF WayInv, TypeOK, OtherTypes
  <2> QED
    BY <1>4, <2>1, TypesKept
<1>6. LookupIsTrue' /\ \A k : Decides(k)' = Decides(k)
  BY <1>2, DecisionStays DEF resolverVars, WayInv
<1>7. CallIsDirected'
  BY <1>2, <1>3 DEF CallIsDirected, Permitted
<1>8. IdsAreAssigned'
  <2>1. changes' = 0 /\ known' # NoId =>
          \E k \in 1..Len(Resolver!Searched) :
            Decides(k)' /\ secrets'[Resolver!Searched[k]] = TenantOf[known']
    BY <1>2, <1>6 DEF WayInv, IdsAreAssigned
  <2>2. (known' # NoId => known' \in Used') /\ \A deletion \in told' : deletion.id \in Used'
    BY <1>2, <1>4 DEF WayInv, IdsAreAssigned
  <2> QED
    BY <1>3, <2>1, <2>2 DEF IdsAreAssigned
<1>9. DeletedIsGone'
  BY <1>2, <1>4, HistoryKept DEF DeletedIsGone
<1> QED
  BY <1>3, <1>5, <1>6, <1>7, <1>8, <1>9 DEF WayInv, DeletionIsTrue

\* An id a reply names is kept in the tenant the secrets decide for; a deletion that
\* succeeded is put down when the thing is gone from the tenant that was asked.
LEMMA LearnsTruth ==
  ASSUME WayInv, Given, Learn
  PROVE  WayInv'
<1>1. /\ call.pc = "reply" /\ UNCHANGED sm /\ call'.pc = "idle"
      /\ call'.result = ResultOf(call.reply.code) /\ steady' = TRUE
      /\ UNCHANGED <<secrets, lookup, kept, changes>>
      /\ known' \in {call.reply.id, NoId, known}
  BY DEF Learn, Receive, Answer, NoCall, resolverVars
<1>2. SMMoves /\ Used' = Used
  BY <1>1, StillMoves DEF WayInv, TypeOK, ClientTypeOK
<1>3. /\ lookup.outcome = "found" /\ call.tenant = lookup.tenant /\ call.tenant \in Tenants
      /\ call.kind \in Deleting => call.id \in IDs /\ call.id \in Used
  BY <1>1, Directed
<1>4. told' # told => /\ call.kind \in Deleting /\ call.reply.code \in {"200", "404"}
                      /\ told' = told \cup {[id |-> call.id, tenant |-> call.tenant]}
  <2>1. /\ call.kind \in Deleting => ResultOf(call.reply.code) = delete(call.reply.code)
        /\ delete(call.reply.code) = "success" => call.reply.code \in {"200", "404"}
    BY DEF ResultOf, delete, handleFailedResponse, Creating, Deleting
  <2> QED
    BY <1>1, <2>1 DEF Learn
<1>5. TypeOK' /\ LiveIsRecorded'
  <2>1. told' \subseteq [id: IDs, tenant: Tenants]
    BY <1>3, <1>4 DEF WayInv, TypeOK
  <2>2. DOMAIN delivered'.given \subseteq UNION {DOMAIN c : c \in CredentialSets}
    <3>1. CASE delivered' = delivered
      BY <3>1 DEF WayInv, TypeOK
    <3>2. CASE \E given \in CredentialSets : \E stored : delivered' = [given |-> given, stored |-> stored]
      BY <3>2
    <3> QED
      BY <3>1, <3>2 DEF Learn, Deliver
  <2>3. OtherTypes
    BY <1>1, <2>1, <2>2 DEF WayInv, TypeOK, OtherTypes
  <2> QED
    BY <1>2, <2>3, TypesKept
<1>6. LookupIsTrue' /\ \A k : Decides(k)' = Decides(k)
  BY <1>1, DecisionStays DEF resolverVars, WayInv
<1>7. IdsAreAssigned'
  <2>1. known' # NoId => known' \in Used'
    BY <1>1, <1>2 DEF WayInv, IdsAreAssigned
  <2>2. changes = 0 /\ call.reply.id # NoId =>
          \E k \in 1..Len(Resolver!Searched) :
            Decides(k) /\ secrets[Resolver!Searched[k]] = TenantOf[call.reply.id]
    <3>1. lookup.at \in 1..Len(Resolver!Searched)
      <4>1. lookup.at > 0
        BY <1>3 DEF Given, Resolved!ResolverInv, Resolved!ReadsAreTrue
      <4>2. lookup.at \in 0..Len(Resolver!Searched)
        BY DEF Given, Resolver!TypeOK, Resolver!Lookups
      <4> QED
        BY <4>1, <4>2, Order
    <3>2. call.reply.id # NoId => TenantOf[call.reply.id] = lookup.tenant
      BY <1>1, <1>3 DEF WayInv, IdsAreAssigned
    <3>3. changes = 0 =>
            Decides(lookup.at) /\ secrets[Resolver!Searched[lookup.at]] = lookup.tenant
      BY <1>3, <3>1, ClientAssumption DEF WayInv, LookupIsTrue, Decides, Resolver!NoSecret
    <3> QED
      BY <3>1, <3>2, <3>3
  <2>3. changes' = 0 /\ known' # NoId =>
          \E k \in 1..Len(Resolver!Searched) :
            Decides(k)' /\ secrets'[Resolver!Searched[k]] = TenantOf[known']
    BY <1>1, <1>6, <2>2 DEF WayInv, IdsAreAssigned
  <2>4. \A deletion \in told' : deletion.id \in Used'
    BY <1>2, <1>3, <1>4 DEF WayInv, IdsAreAssigned
  <2> QED
    BY <1>1, <2>1, <2>3, <2>4 DEF IdsAreAssigned
<1>8. DeletedIsGone'
  <2>1. call.kind \in Deleting /\ call.reply.code \in {"200", "404"}
        /\ TenantOf[call.id] = call.tenant => ~sm'[call.id].alive
    BY <1>1 DEF WayInv, DeletionIsTrue
  <2> QED
    BY <1>1, <1>4, <2>1 DEF WayInv, DeletedIsGone
<1> QED
  BY <1>1, <1>5, <1>6, <1>7, <1>8 DEF WayInv, CallIsDirected, DeletionIsTrue

\* Every step keeps the invariant of the way to SM.
LEMMA NextWay == WayInv /\ Given /\ [Next]_vars => WayInv'
<1> SUFFICES ASSUME WayInv, Given, [Next]_vars PROVE WayInv'
  OBVIOUS
<1>1. CASE getSMClient
  BY <1>1, getSMClientKeeps
<1>2. CASE SecretChanges
  BY <1>2, SecretChangesKeeps
<1>3. CASE CallSM
  BY <1>3, CallBegins
<1>4. CASE Learn
  BY <1>4, LearnsTruth
<1>5. sm \in [IDs -> Things] /\ LiveIsRecorded /\ call \in Calls /\ steady \in BOOLEAN
  BY DEF WayInv, TypeOK, ClientTypeOK
<1>6. CASE SMStep
  <2>1. Elsewhere /\ UNCHANGED <<resolverVars, changes>>
    BY <1>6 DEF SMStep, Step
  <2>2. CASE Serve
    <3>1. call.pc = "send" /\ steady' = steady
      BY <2>2 DEF Serve
    <3>2. SMMoves /\ GoesOn
      BY <1>5, <2>2, <3>1, ServeMoves, Directed DEF GoesOn
    <3> QED
      BY <1>5, <2>1, <3>1, <3>2, GoesOnKeeps
  <2>3. CASE \E i \in IDs : Finish(i)
    <3>1. SMMoves /\ UNCHANGED <<steady, call>>
      BY <1>5, <2>3, FinishMoves DEF Finish
    <3>2. GoesOn
      BY <3>1, ReplyStays DEF GoesOn
    <3> QED
      BY <1>5, <2>1, <3>1, <3>2, GoesOnKeeps
  <2> QED
    BY <1>6, <2>2, <2>3 DEF SMStep, Step
<1>7. CASE LookupPlan
  <2>1. Elsewhere /\ UNCHANGED <<resolverVars, changes, sm>> /\ (ListOfferings \/ ListPlans)
    BY <1>7 DEF LookupPlan, Step, ListOfferings, ListPlans
  <2>2. GoesOn
    BY <1>5, <2>1 DEF ListOfferings, ListPlans, Answer, NoCall, GoesOn, Calls
  <2>3. steady' \in BOOLEAN
    BY <1>5, <2>1 DEF ListOfferings, ListPlans, Answer
  <2> QED
    BY <1>5, <2>1, <2>2, <2>3, StillMoves, GoesOnKeeps
<1>8. CASE Lose
  <2>1. Elsewhere /\ UNCHANGED <<resolverVars, changes, sm>> /\ call'.pc = "idle" /\ steady' = TRUE
    BY <1>8 DEF Lose, Step, NoAnswer, Answer, NoCall
  <2> QED
    BY <1>5, <2>1, StillMoves, GoesOnKeeps DEF GoesOn
<1>9. CASE Market
  <2>1. /\ Elsewhere /\ UNCHANGED <<resolverVars, changes, sm, call>>
        /\ call.pc \in {"offerings", "plans"} /\ steady' = FALSE
    BY <1>9 DEF Market, Step, CatalogChanges
  <2> QED
    BY <1>5, <2>1, StillMoves, GoesOnKeeps DEF GoesOn
<1>10. CASE UNCHANGED vars
  BY <1>10
  DEF vars, clientVars, resolverVars, ownVars, WayInv, TypeOK, ClientTypeOK, Resolver!TypeOK,
      LiveIsRecorded, LookupIsTrue, Decides, CallIsDirected, Permitted, IdsAreAssigned,
      Used, FreeIDs, DeletionIsTrue, DeletedIsGone
<1> QED
  BY <1>1, <1>2, <1>3, <1>4, <1>6, <1>7, <1>8, <1>9, <1>10 DEF Next

\* It holds before the first call.
LEMMA InitWay == Init /\ AccessInv /\ Resolver!TypeOK => WayInv
<1> SUFFICES ASSUME Init, AccessInv, Resolver!TypeOK PROVE WayInv
  OBVIOUS
<1>1. /\ sm = [i \in IDs |-> Unused] /\ steady = TRUE /\ call = NoCall /\ known = NoId
      /\ told = {} /\ changes = 0 /\ delivered = NothingDelivered
      /\ lookup = Resolver!NoLookup
  BY DEF Init, Resolver!Init
<1>2. TypeOK
  <2>1. Unused \in Things /\ DOMAIN <<>> = {}
    BY DEF Unused, Things, NoRequest, Requests
  <2> QED
    BY <1>1, <2>1, AccessAssumption
    DEF TypeOK, ClientTypeOK, AccessInv, ClientInv, NothingDelivered
<1>3. LiveIsRecorded
  BY <1>1 DEF LiveIsRecorded, Unused
<1>4. LookupIsTrue
  BY <1>1 DEF LookupIsTrue, Resolver!NoLookup
<1> QED
  BY <1>1, <1>2, <1>3, <1>4
  DEF WayInv, CallIsDirected, IdsAreAssigned, DeletionIsTrue, DeletedIsGone, NoCall

\* The invariant of the whole way: from a Reconcile to SM and back.
LEMMA WayInvariant == Spec => []WayInv
<1>1. Spec => []Resolved!ResolverInv
  BY KeepsResolver, Resolved!ResolverInvariant, PTL
<1>2. AccessInv /\ AccessInv' /\ Resolver!TypeOK /\ Resolver!TypeOK' /\ Resolved!ResolverInv => Given
  BY DEF Given
<1> QED
  BY <1>1, <1>2, AccessInvariant, ResolverTypes, InitWay, NextWay, PTL DEF Spec

\* Whatever the secrets, SM, the connection and the catalog do, every variable keeps
\* its type: a request names the thing it is about, and a tenant.
THEOREM WayTyped == Spec => []TypeOK
<1>1. WayInv => TypeOK
  BY DEF WayInv
<1> QED
  BY <1>1, WayInvariant, PTL

\* For any tenants and any changes of the secrets: what the controller was told is
\* deleted is gone for good, unless another tenant than its own was asked.
THEOREM DeletedForGood == Spec => []DeletedIsGone
<1>1. WayInv => DeletedIsGone
  BY DEF WayInv
<1> QED
  BY <1>1, WayInvariant, PTL

\* For any tenants, and any faults of the reads and of SM: as long as no secret
\* changes, every Reconcile asks the tenant that has the thing the status names.
THEOREM SameTenantAsked == Spec => []KnownIsReachable
<1>1. WayInv /\ Resolved!ResolverInv => KnownIsReachable
  <2> SUFFICES ASSUME WayInv, Resolved!ResolverInv, changes = 0, known # NoId,
                      lookup.outcome = "found"
               PROVE  TenantOf[known] = lookup.tenant
    BY DEF KnownIsReachable
  <2>1. PICK k \in 1..Len(Resolver!Searched) :
          Decides(k) /\ secrets[Resolver!Searched[k]] = TenantOf[known]
    BY DEF WayInv, IdsAreAssigned
  <2>2. lookup.at \in 1..Len(Resolver!Searched)
    <3>1. lookup.at > 0
      BY DEF Resolved!ResolverInv, Resolved!ReadsAreTrue
    <3>2. lookup.at \in 0..Len(Resolver!Searched)
      BY DEF WayInv, TypeOK, Resolver!TypeOK, Resolver!Lookups
    <3> QED
      BY <3>1, <3>2, Order
  <2>3. Decides(lookup.at) /\ secrets[Resolver!Searched[lookup.at]] = lookup.tenant
    BY <2>2, ClientAssumption DEF WayInv, LookupIsTrue, Decides, Resolver!NoSecret
  <2>4. k = lookup.at
    BY <2>1, <2>3, OneDecides
  <2> QED
    BY <2>1, <2>3, <2>4
<1>2. Spec => []Resolved!ResolverInv
  BY KeepsResolver, Resolved!ResolverInvariant, PTL
<1> QED
  BY <1>1, <1>2, WayInvariant, PTL
=============================================================================
