------------------------------- MODULE SMAccess -------------------------------
(***************************************************************************)
(* The way from a Reconcile to the Service Manager (SM) and back.  Each    *)
(* Reconcile resolves the secret of its resource anew (SecretResolver),    *)
(* makes a client of it and calls SM through it any number of times        *)
(* (SMClient); what it learns goes to the status of the resource, which    *)
(* outlives the client, and the credentials of a binding go to a secret    *)
(* (Credentials).                                                          *)
(*                                                                         *)
(* The resource makes any call its status permits: the two controllers,    *)
(* each modelled on its own, make fewer.                                   *)
(***************************************************************************)
EXTENDS SMClient

CONSTANTS
  Incomplete, EnableNamespaceSecrets, ReadFaults,  \* of SecretResolver
  CredentialSets,  \* credentials SM may give a binding
  MaxChanges,      \* bound: changes of the operator's secrets
  MaxPlanned       \* bound: changes of them after which plans are looked up

ASSUME AccessAssumption ==
  /\ Incomplete \notin Tenants \cup {NoTenant}
  /\ {EnableNamespaceSecrets, ReadFaults} \subseteq BOOLEAN
  /\ MaxChanges \in Nat /\ MaxPlanned \in Nat

VARIABLES
  secrets, lookup, kept,  \* of SecretResolver
  known,      \* the id in the status of the resource
  told,       \* history: what the controller was told is deleted, by which tenant
  changes,    \* changes of the secrets so far
  delivered   \* the credentials SM gave, and the data of the secret stored

Resolver == INSTANCE SecretResolver
Conversion == INSTANCE Credentials

resolverVars == <<secrets, lookup, kept>>
ownVars == <<known, told, changes, delivered>>
vars == <<clientVars, resolverVars, ownVars>>

------------------------------------------------------------------------------

NothingDelivered == [given |-> <<>>, stored |-> <<>>]

\* What was delivered is looked at right after it was.
Elsewhere == UNCHANGED <<known, told>> /\ delivered' = NothingDelivered

\* A Reconcile resolves the secret; whatever client there was is forgotten.
getSMClient ==
  /\ NewClient
  /\ Resolver!GetSecretForResource
  /\ Elsewhere /\ UNCHANGED changes

\* A change in the course of a call of SM concerns only the Reconciles after it.
SecretChanges ==
  /\ call.pc = "idle"
  /\ changes < MaxChanges /\ changes' = changes + 1
  /\ \E l \in Resolver!Levels, secret \in Resolver!SecretTypes : Resolver!SecretChanges(l, secret)
  /\ Elsewhere /\ UNCHANGED clientVars

\* A thing is created, or looked for, while the status names none.
Permitted == IF known = NoId THEN Creating \cup {"list"} ELSE {"update", "get"} \cup Deleting

CallSM ==
  /\ lookup.outcome = "found"
  /\ \E kind \in Permitted, planID \in Plans \cup {NoPlan} :
       /\ planID # NoPlan => kind \in Planned
       /\ kind \in Planned => changes <= MaxPlanned
       /\ Request(kind, lookup.tenant, known, planID)
  /\ Elsewhere /\ UNCHANGED <<resolverVars, changes>>

\* storeBindingSecret, after Bind and GetBindingByID.
Deliver ==
  IF call.kind \in {"bind", "get"} /\ call'.result = "success"
  THEN \E given \in CredentialSets :
         \E stored \in Conversion!normalizeCredentials(given) :
           delivered' = [given |-> given, stored |-> stored]
  ELSE UNCHANGED delivered

\* What the controllers write to the status after a call.
Learn ==
  /\ Receive
  /\ known' = CASE call.kind \in Creating \cup {"list"} /\ call'.result \in {"success", "accepted"}
                     -> call.reply.id
                [] call.kind \in Deleting /\ call'.result = "success" -> NoId
                [] OTHER -> known
  /\ told' = IF call.kind \in Deleting /\ call'.result = "success"
             THEN told \cup {[id |-> call.id, tenant |-> call.tenant]}
             ELSE told
  /\ Deliver
  /\ UNCHANGED <<resolverVars, changes>>

Step(A) == A /\ Elsewhere /\ UNCHANGED <<resolverVars, changes>>

SMStep == Step(Serve \/ \E i \in IDs : Finish(i))
LookupPlan == Step(ListOfferings \/ ListPlans)
Lose == Step(NoAnswer)
Market == Step(CatalogChanges)

Next == \/ getSMClient \/ SecretChanges
        \/ CallSM \/ LookupPlan \/ SMStep \/ Learn \/ Lose \/ Market

Init ==
  /\ Resolver!Init
  /\ sm = [i \in IDs |-> Unused]
  /\ catalog = NoCatalog
  /\ steady = TRUE
  /\ call = NoCall
  /\ known = NoId /\ told = {} /\ changes = 0
  /\ delivered = NothingDelivered

Spec == Init /\ [][Next]_vars

------------------------------------------------------------------------------
(* Properties *)

\* Every variable has the type its comment says.
TypeOK ==
  /\ ClientTypeOK
  /\ Resolver!TypeOK
  /\ known \in IDs \cup {NoId}
  /\ told \subseteq [id: IDs, tenant: Tenants]
  /\ changes \in 0..MaxChanges
  /\ DOMAIN delivered.given \subseteq UNION {DOMAIN c : c \in CredentialSets}

\* What the secret resolver promises, while the rest goes on.
MostSpecificWins == Resolver!MostSpecificWins

\* What the controller was told is deleted is gone, unless it was another tenant
\* that was asked, where it never was.
DeletedIsGone == \A deletion \in told : TenantOf[deletion.id] = deletion.tenant => ~sm[deletion.id].alive

\* Until somebody changes the secrets every Reconcile asks the same tenant, the one
\* that has what the status names; a read that fails does not lead to another one.
KnownIsReachable ==
  changes = 0 /\ known # NoId /\ lookup.outcome = "found" => TenantOf[known] = lookup.tenant

\* A credential arrives as SM gave it, unless its text is a string JSON has to
\* escape or a number with digits a float64 loses, or another credential gets the
\* same key; and no other key arrives.
Plain(v) == \A k \in DOMAIN v.text : v.text[k] = "c"
Rivals(name) ==
  {other \in DOMAIN delivered.given : Conversion!KeyOf(other) = Conversion!KeyOf(name)}
CredentialsArrive ==
  /\ \A name \in DOMAIN delivered.given :
       LET v == delivered.given[name]
       IN Plain(v) /\ Rivals(name) = {name} => delivered.stored[Conversion!KeyOf(name)] = v.text
  /\ DOMAIN delivered.stored = {Conversion!KeyOf(name) : name \in DOMAIN delivered.given}

------------------------------------------------------------------------------
(* The inductive invariants *)

\* That of a request: that of the client, and an id in the status.
AccessInv == ClientInv /\ known \in IDs \cup {NoId}

\* What a lookup found is a tenant, and if no secret ever changed it is the one whose
\* secret is the most specific.
Decides(k) ==
  /\ k \in 1..Len(Resolver!Searched)
  /\ secrets[Resolver!Searched[k]] # Resolver!NoSecret
  /\ \A j \in 1..(k - 1) : secrets[Resolver!Searched[j]] = Resolver!NoSecret
LookupIsTrue ==
  /\ lookup.outcome = "found" => lookup.tenant \in Tenants
  /\ changes = 0 /\ lookup.outcome \in {"searching", "found"} =>
       \A j \in 1..(lookup.at - 1) : secrets[Resolver!Searched[j]] = Resolver!NoSecret
  /\ changes = 0 /\ lookup.outcome = "found" =>
       secrets[Resolver!Searched[lookup.at]] = lookup.tenant

\* A call goes to the tenant that was found, about what the status names.
CallIsDirected ==
  call.pc # "idle" => /\ lookup.outcome = "found" /\ call.tenant = lookup.tenant
                      /\ call.id = known /\ call.kind \in Permitted

\* An id in a reply, in the status or in the history is one that SM assigned: the
\* id in a reply in the tenant that was asked, the one in the status in the tenant
\* the secrets decide for.
IdsAreAssigned ==
  /\ call.pc = "reply" /\ call.reply.id # NoId =>
       call.reply.id \in Used /\ TenantOf[call.reply.id] = call.tenant
  /\ known # NoId => known \in Used
  /\ changes = 0 /\ known # NoId =>
       \E k \in 1..Len(Resolver!Searched) :
         Decides(k) /\ secrets[Resolver!Searched[k]] = TenantOf[known]
  /\ \A deletion \in told : deletion.id \in Used

\* What a reply of SM says is deleted is gone from the tenant that was asked.
DeletionIsTrue ==
  /\ call.pc = "reply" /\ call.kind \in Deleting /\ call.reply.code \in {"200", "404"}
  /\ TenantOf[call.id] = call.tenant
  => ~sm[call.id].alive

\* That of an access.
WayInv == /\ TypeOK /\ LiveIsRecorded
          /\ LookupIsTrue /\ CallIsDirected /\ IdsAreAssigned /\ DeletionIsTrue
          /\ DeletedIsGone

\* A call of the client keeps what SMRequest promises the controllers.
ImplementsSMRequest == Promised!Spec
=============================================================================
