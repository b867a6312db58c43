# Verification of sapcp-operator

TLA+ models of the SAP CP operator, checked with TLC and, where marked, proved
with TLAPS. Everything is translated from the Go code of this repository; line
numbers refer to it, and `PROJECT.json` maps every definition to its lines.

## The system

The operator is a Kubernetes controller manager. Users describe service
instances and service bindings as custom resources; two controllers bring the
Service Manager (SM), a remote service, in line with them.

| part | state it keeps | operations | interacts with |
|---|---|---|---|
| ServiceInstance controller (`controllers/serviceinstance_controller.go`) | none of its own: the status, the conditions and the finalizer of each `ServiceInstance` | `Reconcile`, `poll`, `createInstance`, `updateInstance`, `deleteInstance`, `getInstanceForRecovery`, `resyncInstanceStatus` | API server and informer cache, SM |
| ServiceBinding controller (`controllers/servicebinding_controller.go`) | the same of each `ServiceBinding`; the secret with the credentials; the owner reference to the instance | `Reconcile`, `createBinding`, `delete`, `poll`, `SetOwner`, secret handling, recovery | API server, SM, reads `ServiceInstance`s |
| base reconciler (`controllers/base_controller.go`) | none | condition setters, `updateStatusWithRetries`, `addFinalizer`, `removeFinalizer`, `init`, `markAsTransientError`, `markAsNonTransientError`, `getSMClient` | called by both controllers |
| webhooks (`api/v1alpha1/*_webhook.go`) | none | defaults for names, refusal of some binding edits | API server calls them on a write |
| SM client (`internal/smclient`) | none | one HTTP request per method, plan selection, URLs | SM |
| secret resolver (`internal/secrets`) | none | finds the secret with the SM credentials: namespace, management namespace, cluster | API server |
| manager (`main.go`, `internal/config`) | informer caches, workqueues | starts everything, resyncs | |

What is hard here:

* **Reads are stale.** `Reconcile` works on a copy from the informer cache. The
  copy may predate a write of the controller itself, a write of the user, or
  the deletion and re-creation of the whole resource.
* **Nothing is atomic.** A request to SM and the status write that records it
  are separate; the process may stop between them, and each may fail alone.
* **The status is the only memory.** The instance id, the operation being
  polled and whether anything is left to do are read back from it. A status
  write that fails is retried by `updateStatusWithRetries` with a *re-read*
  object.
* **Recovery by search.** When the status names no instance, SM is searched by
  external name, cluster, namespace and resource name.
* **SM answers when it likes.** It may act and the reply be lost, answer 202 for
  something it has only begun, or answer for another tenant when the secret with
  the credentials has changed.
* **Wake-ups.** Whether `Reconcile` runs again depends on the error or the
  `Requeue` it returns, and on whether its writes change anything.

What makes each part correct:

* instance controller: never two instances for one resource, no instance left
  behind, no deletion nobody asked for, a truthful status, nothing forgotten,
  deletion terminates;
* binding controller: the same for bindings, and the secret exists exactly as
  long as the binding and holds its credentials, never somebody else's;
* base reconciler: a status write is either effective or reported as failed;
* both controllers together: an instance is deleted only after its bindings;
* SM client: the plan chosen is the one the names and the id determine; SM acts
  at most once for a call, and no success is reported of what SM did not do;
* secret resolver: the most specific secret wins, and errors are not taken for
  absence;
* credentials: what SM gives arrives in the secret.

## Modules

| module | what it is |
|---|---|
| `ServiceManager` | SM, external: the things it keeps for one resource, their operations, searches by name |
| `BaseReconciler` | EXTENDS it: the resource, the API server, the informer, the workqueue, the worker's shared calls, restarts |
| `ServiceInstanceController` | EXTENDS that: state machine of the first controller, its properties |
| `ServiceBindingController` | EXTENDS `BaseReconciler`: state machine of the second, with the instance it reads, the secrets, the garbage collector |
| `ManagedResource` | abstract specification: the promise of the finalizer protocol, kept by both |
| `InstanceLife` | abstract specification: what a binding may expect of its instance, assumed by the second controller, kept by the first |
| `SecretResolver` | the lookup of the operator's secret, read by read |
| `SMClient` | EXTENDS `ServiceManager`: one request through the client, with the search for the plan |
| `SMRequest` | abstract specification: what a controller may rely on when it makes a request |
| `Credentials` | `normalizeCredentials` as an operator |
| `SMAccess` | EXTENDS `SMClient`, composes it with `SecretResolver` and `Credentials`: the way from a `Reconcile` to SM and back |
| `MCServiceInstanceController`, `MCServiceBindingController`, `MCSMAccess` | symmetry and values of the runs |
| `ServiceManager_proofs`, `BaseReconciler_proofs`, `ManagedResource_proofs` | what the proofs about the two controllers share |
| `ServiceInstanceController_proofs`, `ManagedInstance_proofs`, `ServiceBindingController_proofs`, `SecretResolver_proofs`, `SMAccess_proofs` | theorems and their proofs |

### BaseReconciler and ServiceManager

State: `apiObj` (the resource at the API server), `cache` and `watch` (the
informer's copy and the versions on their way to it), `queued` (the key is in
the workqueue or a timer will put it there), `w` (the worker: which call it is
about to make, with which copy), `sm` (per id: alive, the spec it has, and its
operations), `lives` (how often the resource was created).

One action of the worker is one call that leaves the process; the computation
after it, up to the next call, belongs to the action. What a controller does
after a call both make is a parameter of the action (`ReconcileWith(Dispatch)`,
`StatusUpdateThen(Continue)`), so each controller's module gives the shared
steps its own continuation.

| action | code |
|---|---|
| `ReconcileWith` | `Reconcile` up to its first call, with `getSMClient` |
| `StatusUpdateThen`, `StatusRetryThen` | the first, and the later, attempts of `updateStatusWithRetries`; `next` says where in the code it was called |
| `AddFinalizer`, `RemoveFinalizer` | the helpers of that name, with the retry on the re-read object |
| `SMComplete` | SM finishes an asynchronous operation |
| `UserCreate`, `UserEdit`, `UserDelete`, `Default` | writes of the user, with the names the webhooks fill in |
| `Unanswered`, `UnansweredDelete` | what a controller makes of a request that SM executed and whose reply is lost or replaced by a gateway's 504 |
| `Deliver`, `Resync`, `Restart` | informer, periodic resync, the process stops and starts |

Optimistic concurrency: `w.fresh` says that the worker's copy carries the
current resource version. Every write of somebody else clears it, and a write
with a stale copy is a conflict. `queued` and `w` are separate, so the key may be
queued again while it is being worked on, as the workqueue allows; the worker
takes it up only when idle, as the workqueue guarantees.

Abstractions. The content of a spec is its generation and the names the
controllers read. Conditions are a record (see `BaseReconciler`). Labels are
left out: they are equal for all incarnations of one resource. Time is left out:
a timer is `queued`. SM is external and modelled from what the client expects:
it refuses a change while an operation is in progress, a delete supersedes one.
A request takes effect when it is made or never. `getParameters` cannot fail on
what the API server has decoded and is left out.

`DropsFailed` (SM removes a thing whose creation failed) is FALSE in every
run: with TRUE a stale cache lets the controller create a second instance while
the status goes on naming the first. The documentation of SM that would decide
it is not in the repository.

### ServiceInstanceController

| action | code |
|---|---|
| `Poll` | `poll` |
| `Recover`, `createInstance`, `updateInstance` | the second half of `Reconcile` and the functions of that name |
| `RecoverForDelete`, `Deprovision` | the two halves of `deleteInstance` |

### ServiceBindingController

Further state: `inst` (the instance the binding names: its uid and how far its
own controller has come with it), `secrets` and `secretCache` (the namespace's
secrets and the informer's copy: whose label, whose credentials, whose owner),
`found` (what the worker read of the instance and of SM and will use later in
the same `Reconcile`).

| action | code |
|---|---|
| `ReadInstance` | `Reconcile` from line 99: the instance, `serviceNotUsable`, its progress, `validateSecretNameIsAvailable` |
| `Recover`, `SetOwner` | `getBindingForRecovery` before a creation, `SetOwner` with what the update brings back |
| `Bind` | `createBinding` |
| `storeBindingSecret` | the function, and what its three callers do after it |
| `Poll`, `GetBindingByID` | `poll`, in two calls |
| `RecoverForDelete`, `Unbind`, `deleteBindingSecret` | `delete`, `removeBindingFromKubernetes` |
| `User` | edits pass `ValidateUpdate` of the webhook |
| `CollectBinding`, `CollectSecret`, `Intrude`, `SyncSecrets` | garbage collector, somebody else's secret, the cache of secrets |
| `Instance` | the instance, by the actions of `InstanceLife` |

The instance is an environment here, `InstanceLife`: it comes and goes under one
name and takes on any state in any order (without conditions, in progress, ready,
failed), with or without the id in its status; only, when it is being deleted, it
stays so until it is gone. `ServiceInstanceController` implements `InstanceLife`
(`ImplementsInstanceLife`, of what its cache shows, which is the cache that the
binding controller reads; checked in `recreation` and proved), so that what is shown of a binding holds however its
instance's controller, user and SM go on. Anything stricter would be wrong: a retried
status write may even put an empty status back. An instance without conditions
makes `serviceNotUsable` panic on `Conditions[0]`; the model restarts the process.

### SMAccess and its parts

The controllers' modules choose the outcome of a request to SM; these modules
show where the outcomes come from. State of `SecretResolver`: `secrets` (per level:
whose credentials it holds, or that it is incomplete), `lookup` (where the call of
`GetSecretForResource` is and what it returned), `kept` (history: the levels whose
secret has been the same since the call began). State of `SMClient`: `call` (the
request under way: kind, tenant, plan id, what has been listed, the reply, the
result), `catalog` (the offerings and plans with the names of the request),
`steady` (history: the catalog has not changed since), `sm`. State of `SMAccess`:
`known` (the id in the status of the resource), `told` (what was reported deleted, by
which tenant), `delivered` (the credentials given and stored last).

| action | code |
|---|---|
| `getSMClient` with `Begin`, `Get` | `getSMClient`; each of the three reads of `GetSecretForResource` is a step, `validateSAPCPOperatorSecret` belongs to the last |
| `CallSM` | the controllers call a method of the client: one that the status permits |
| `ListOfferings`, `ListPlans` | the two listings of `getAndValidatePlanID`, which `Provision` and `UpdateInstance` begin with |
| `Serve` | SM executes the request, or refuses; external |
| `Learn` with `Receive` | `register`, `update`, `delete`, `get` judge the status code; the controller writes the id, or its absence, to the status; `storeBindingSecret` stores the credentials |
| `Lose` | the connection fails, 10 seconds are over (`BuildHTTPClient`), or a gateway answers 504, before or after SM acted |
| `SecretChanges`, `Market` | somebody changes the operator's secrets, or the catalog |

A status code stands for its class (see `SMClient`), a tenant for the URL and the
credentials of a secret, a catalog for the parts of it that the two queries select.
The resource is not in the management namespace. The catalog may be any when a
search begins and change between the listings; outside of one it is not looked at.
Secrets do not change while a call of SM is under way: the client has its own copy
of the credentials, so the change would concern later calls only.

`SMRequest` is what the actions of the two controllers are written from: a request
has at most one effect, a success or an acceptance says truly which, a failure says
nothing. `SMAccess` implements it, with `call` as the mapping. What the controllers
do after each answer is theirs; `SMAccess` lets the resource make any call that its
status permits, in any order.

`Credentials`: a text is a sequence of classes of characters. The module says what
becomes of quotes, escaped characters, numbers too long for a float64, and names
that get the same key.

## Runs

All runs use one resource. `MaxGen` bounds generations, `MaxLives`
incarnations, `MaxLag` the versions the cache may be behind, `MaxOps` the
operations SM records per thing. The bounds are guards of the user's and
SM's actions; a write that would exceed `MaxLag` waits for the informer.
`MaxInstances` bounds the incarnations of a binding's instance.

| run | ids; gen, lives, lag, ops | faults | shows |
|---|---|---|---|
| `lifecycle` | 2; 2, 1, 3, 3; `PromptSpec` | all of SM's | `TypeOK`, `ReadyMeansSynced`, `NoLostWakeup` |
| `recreation` | 2; 1, 2, 2, 2 | all of SM's | `TInv`, `AtMostOneInstance`, `DeleteOnlyWhenAsked`, refinement of `InstanceLife` |
| `faults` | 2; 1, 1, 3, 2 | all of SM's, API writes, secret | `GInv`, `FinalizerGuardsInstance`, `FinalizerBeforeProvision`, refinement of `ManagedResource` |
| `temporary` | 2; 1, 1, 3, 2; `PromptSpec` | polling, 429/503/504 | `FailedIsFinal`, `InstanceIDFilled` |
| `progress` | 2; 2, 1, 3, 3 | none | `DeletionCompletes`, `EventuallySettled` |
| `renamed` | 2; 2, 1, 1, 2, two names | all of SM's | violated: `FinalizerGuardsInstance` |
| `binding_lifecycle` | 2; 1, 1, 2, 2 | all of SM's but listing | `FinalizerGuardsBinding`, `AtMostOneBinding`, `OwnedBeforeBound`, `UpdateLineUnreached`, `NoLostWakeup`, `SecretDelivered`, `UnbindOnlyWhenAsked`, refinement of `ManagedResource` |
| `binding_progress` | 1; 2, 1, 2, 2, two instances | secrets of others | `TypeOK`, `DeletionCompletes`, `ReadyInstanceIsBound` |
| `binding_stuck` | 1; 1, 1, 1, 2 | none | violated: `DeletionCompletes` |
| `binding_listing` | 2; 1, 1, 2, 2 | listing, operations | violated: `FinalizerGuardsBinding` |
| `binding_line` | 2; 1, 1, 4, 2 | none | violated: `UpdateLineUnreached` |
| `sm_access` | 2 ids, one in each of 2 tenants; 2 operations; 1 change of the secrets | listing, 429, lost replies, failing reads of secrets | `TypeOK`, `MostSpecificWins`, `PlanIsDetermined`, `DeletedIsGone`, `KnownIsReachable`, `CredentialsArrive`, refinement of `SMRequest` |

Why the bounds are enough: two generations distinguish "the current spec" from
"an older one", two incarnations "this resource" from "an older one", a lag of
two lets the cache miss a deletion with the re-creation, or two writes of a `Reconcile`, one of
three lets it miss everything that a `Reconcile` writes for an instance, from the finalizer to the
status of the finished creation. For a binding, which gets an owner too, that takes four:
`binding_line` has them, `binding_lifecycle` with all its failures would be too large. Two ids let a second thing come to be, and three operations
are a create, an update and a delete of one instance; a binding is never
updated. Restarts and resyncs are not bounded. `binding_progress` has one id: by
`AtMostOneBinding` no second one is used in one incarnation. `binding_progress`
does not check for deadlock, because without a restart the system does stop once
resource and instance are gone and the bounds are used up.

`sm_access` starts from every state of the three levels of secrets, so that one
change (`MaxChanges`) leads from each to each neighbour; two tenants tell "the right
credentials" from others, and two plans in two offerings make a search ambiguous,
give a plan with the right name in the wrong offering, and let the catalog change
into either. Plans are looked up only as long as no secret has changed
(`MaxPlanned` is 0), because the lookup does not read them. The credentials are
three kinds of values under names with a blank, and two names with one key.

### Limits of the properties, found while checking

* `ReadyMeansSynced` and `FailedIsFinal` of an instance are checked and proved, and
  `UpdateLineUnreached` and `NoLostWakeup` of a binding proved, for `PromptSpec`: a `Reconcile` that begins with a copy without finalizer begins before
  anybody has added one. Nothing in the code guarantees it, the informer usually does.
  Without it, `addFinalizer` conflicts, re-reads the resource, which may have been created by
  now, and `init` marks it as being created (`base_controller.go`, lines 123 and 181). That takes
  a lag of three versions for an instance and of four for a binding (`binding_line`), more than
  `UpdateLineUnreached` and `NoLostWakeup` of a binding are checked with.
  Of what is proved below only `ReadyIsSynced`, `FailuresAreFinal`,
  `LastLineIsUnreached` and `NoBindingForgotten` need it; `NoLostWakeup` and `InstanceIDFilled` of an instance are
  proved without it.

* `FinalizerGuardsInstance` needs one external name and one incarnation: see
  `renamed`, and the hazards about re-creation during `init`.
* `NoLostWakeup`, `InstanceIDFilled` need API writes to fail by conflict only.
  When two writes of a status fail in a row, the third attempt writes the status
  read by the second and reports success: the id of an instance just created is
  lost and nothing is requeued. For a binding `NoLostWakeup` needs the SM secret
  too.
* `FailedIsFinal` fails after a failed listing (the requeued `Reconcile` returns
  early, at line 87), after a missing secret (same early return), and when the process stops between an
  asynchronous update and the write of its URL.
* `StatusNamesOwnInstance` holds for one incarnation; a re-created resource may
  get the old status from a retried write.
* For a binding, `AtMostOneBinding` and `FinalizerGuardsBinding` fail after one
  failed listing (`binding_listing`); `SecretDelivered` fails with secrets of
  others (with `Intruders`: a secret that is taken for the binding's own, by its name), with an edit of `secretName`, which the webhook
  allows, and with a second incarnation; `UpdateLineUnreached` fails also when the SM
  secret is missing and the process stops between two status writes; a conflict
  in `SetOwner` is recorded as `CreateFailed` and is final, although nothing
  was refused; so is a binding requested while the instance's status has no id.
* `DeletedIsGone` needs the tenant that was asked to be the one that has the
  thing: after a change of the secret a deletion is answered 404, which counts as
  done. `KnownIsReachable` holds only until the secrets change, for the same reason.
* `MostSpecificWins` says nothing of a secret that is moved between two levels
  during the reads: it may be missed at both.
* `CredentialsArrive` excepts strings that JSON escapes, numbers with more digits
  than a float64 has, and names that differ only in a blank and an underscore:
  `normalizeCredentials` changes or drops them.

### Findings

`PROJECT.json` has four, each with a run whose trace shows it: an instance
orphaned by a renaming (`renamed`), a binding that is never deleted because the
retry of a status write has put an old status back (`binding_stuck`), two bindings
left behind after a failed listing (`binding_listing`), a created binding whose status
says for good that it is being created (`binding_line`).

### Fairness

`progress` assumes weak fairness of the worker (the workqueue hands out its
keys), of the informer and of SM's completion of each operation. It also
assumes `Steady` from some point on: no restarts and no resyncs, so that what
progress there is is the controller's own, and a `Reconcile` that starts with an
up-to-date cache, which the growing back-off of the workqueue brings about.
Without the last, the third attempt of a status write may put an old status
back again and again. Nothing is assumed of the user. Liveness under SM's
failures would need strong fairness of its successes and is left to the plan.

For a binding the same (`FairSpec`, with the garbage collector and the cache of
secrets added) is not enough: `binding_stuck` shows a state no later
`Reconcile` leaves. `binding_progress` therefore assumes `Steady` from the start
(`SteadySpec`): each `Reconcile` starts with up-to-date caches and the process
is stopped only by its own panic. Within a `Reconcile` everything still
interleaves. What it shows is that nothing else than staleness stands in
the way of a deletion.

## Proofs

Everything below is proved for every value of the constants that the named
assumptions (`ServiceManagerAssumption`, `ConstantsAssumption`,
`BindingAssumption`, `ClientAssumption`) allow, and, where a theorem says so,
under a restriction that is part of its statement.

`ServiceManager_proofs` and `BaseReconciler_proofs` hold what the controllers
share: what a request does to SM's records (an id once used stays used, a record
of operations only grows, one spec has one name), what the shared calls write, and
that copies which were true of the resource and of SM stay so.

### What both controllers keep

`ManagedResource_proofs` holds the argument about a managed resource once. It has
three parts, each of which a controller enters with facts about its own steps:

* What the informer shows (`Backlog`). A controller shows that each step is one of
  `Kinds`: nothing happens to the resource, its incarnation is written or goes,
  the next one begins, a version is delivered, the process restarts.
  `BacklogKept` does the rest.
* One incarnation (`OneLife`). A controller shows for each step what SM is asked
  for and on whose behalf (`RequestedBy`), why the worker is where it goes
  (`Reasoned`: it creates for a copy that is to stay, it removes the finalizer after
  having found nothing at SM), and how the resource is changed (`Touched`). These
  make it `OneStep`; `OneLifeKept` proves the parts of the invariant from that,
  not action by action.
* The promise. `PromiseKept`: `OneStep` is a step of `ManagedResource` or none.

Which calls these are is a parameter (`Calls` of each controller, `WellFormed`):
`create`, `changes` and `remove` are the calls that make requests, `creates` and
`removes` the calls on the way to the first and after the last one. So neither
`BacklogKept`, `OneLifeKept` nor `PromiseKept` speaks of an instance or of a binding.

### The instance controller: what was asked for

`ServiceInstanceController_proofs`:

* `Invariant == Spec => []IInv`
* `TypeCorrect == Spec => []TypeOK`
* `DeletionAsked == Spec => DeleteOnlyWhenAsked`: any number of incarnations,
  any lag, any failures.

`DeleteOnlyWhenAsked` is not inductive: that the worker asks for a deletion on
behalf of a copy marked for deletion says nothing about the resource, unless no
copy of the current incarnation is ahead of it. `IInv` therefore speaks of all
`Copies`, those on their way to the informer included (`DeletionIsFinal`), ties
the backlog to the API server (`CacheFollows`), says what the worker's position
implies about its copy (`CallsAreMeant`) and keeps SM's records usable
(`LiveIsRecorded`, so that recovery reads an operation that exists).

The argument: what the worker computes between two calls is a function of one
copy. `Continues(x, o)` is all the invariant needs to know of that function;
lemmas establish it for every place `Reconcile` can come to, then `LocalStep`,
`WriteStep` and `RequestStep` turn it into the invariant for steps that write
nothing, write to the API server, or call SM. The proof of each action is a
choice between these.

### The instance controller: what a binding sees

`ServiceInstanceController_proofs`, second part:

* `BacklogInvariant == Spec => [](IInv /\ Backlog)`
* `SeenAsAssumed == Spec => ImplementsInstanceLife`: the two controllers fit
  together, for any number of incarnations and any lag.

What the cache shows next is decided by the versions on their way to the informer,
so the refinement needs an invariant about all of them, `Backlog`: the versions
(`Version`, the cache first) are in the order of their incarnations, one that was
marked for deletion stays so, an incarnation that is gone does not come back
(`InOrder`); and no incarnation is missing between the one shown last and the next
one (`LastShown`, `Coming`). The last also shows that the `CHOOSE` in `SeenUid` has
one candidate (`SeenUidIs`). `KindsOfSteps` shows that every step is one of the
five `Kinds`; that a retried write, made from the cache, is one of them rests on
`CacheFollows`. Each kind keeps `Backlog` and goes `Onward`, and a step onward is one
of `InstanceLife` (`OnwardIsLife`).

### The instance controller: one instance, guarded by the finalizer

`ManagedInstance_proofs`:

* `Truth == Spec => []TInv`, without restrictions: every id and operation that a copy
  of the resource names is one SM knows (`Truthful`), and a copy that carries the
  current version is the API server's but for its status (`Held`).
* `NeverTwoInstances == Spec => []AtMostOneInstance`, for one external name, over any
  number of incarnations and whatever is lost. The strengthening is `Single`: when the
  worker is about to create, SM has nothing. With one name the search finds exactly
  what SM has (`OneNameFindsAll`, which needs `Truthful`); `ProvisionSteps` shows
  that `createInstance` is reached from `Recover` only.
* `OneLifeInvariant == Spec => []GInv` and from it `FinalizerGuards`,
  `FinalizerComesFirst`, and `PromiseImplemented == Spec => ImplementsManagedResource`,
  for one incarnation, one name and an SM that keeps what it failed to create.

The restrictions are not technical. With two names `FinalizerGuardsInstance` is false
(run `renamed`). With two incarnations both finalizer properties are false when writes
fail: the resource may be created again while `init` works on the first one. With
`DropsFailed` a second instance is created while the status goes on naming the first,
whose deletion then releases the finalizer. TLC finds a counterexample for each.

`FinalizerGuardsInstance` speaks of SM and the API server, and what makes it true is
spread over the versions on their way. `OneLife` says it in order: once SM is rid of the
instance, or about to be (`Dismantled`), every version to come is marked for
deletion (`Doomed`) and nothing is created any more (`Creating`); a worker whose resource
has gone from the cache will not see it again (`Vanished`); the finalizer is being
removed only when SM has nothing (`Removing`); a finalizer seen on a resource that is to
stay is still there (`Guarded`). For each step `AlwaysReasoned` says why the worker is
where it goes (`Reasoned`), and `StepIsAsked` what SM does and on whose behalf; with
`KindsOfSteps` that is what `ManagedResource_proofs` needs.

### The instance controller: what is left to do, and what the status says

`ManagedInstance_proofs`, the last four parts:

* `NothingIsForgotten == Spec => []NoLostWakeup`, for API writes that fail by conflict
  only. Names, incarnations, generations, the lag and the failures of SM are not limited.
* `ReadyIsSynced == PromptSpec => []ReadyMeansSynced`, for one incarnation with any number of
  generations, one name and an SM that keeps what it failed to create.
* `IdIsFound == Spec => []InstanceIDFilled`, for one incarnation, one name, API writes that
  fail by conflict only, and an SM that may answer late or with a temporary
  error, and fail what it accepted, but refuses nothing and whose replies and listings
  arrive (`Answering`).
* `FailuresAreFinal == PromptSpec => []FailedIsFinal`, under the hypotheses of `IdIsFound`
  (`FailedIsFinal` itself speaks of an SM that refuses, loses and fails nothing) and when there is one
  generation and the SM client can always be had. These are the limits of the run
  `temporary`, except for the lag and the number of ids and operations, which are not limited.

`NoLostWakeup` speaks of the moment when nothing is going to run. To get there: work is
`Owed` as long as a key is queued or an event is on its way; when it is not owed, the resource is
`Settled`, or the worker is at it (`Heeded`). The worker is at it (`OnItsWay`) when its copy is
fresh and what it does next settles the resource, writes it, which brings an event, or
requeues. This is where "conflict only" comes in: a conflict means that somebody else wrote, so
that an event is due; after any other failure nothing is due and the third attempt
writes an old status. `Marked` says that an event brings a key with it.

`ReadyMeansSynced` compares a status with SM's record of the generation. A status that
says "created" may have been computed many versions ago, so `Synced` speaks of all versions
and of the worker's copy: a status that tells of a success names an instance whose spec is of
no older generation than the one observed (`Done`), one that tells of an operation names
one asked for with no older one (`Doing`). For that a worker that creates or changes must have
observed what it sends, and must not have an operation to poll (`Calm`), the
generation at SM must never be ahead of the resource (`Aged`), nor a copy ahead of
what it is going to overwrite (`Latest`); and nothing may have been asked for while a resource
has not been through `init` (`Infant`), which is the one part that needs
`PromptSpec`. `PInv` is all of these.

`InstanceIDFilled` says that a resource with nothing left to do has the id of the
instance SM has for it. Its status alone cannot show that: `Identified` says that a status
without an id is either unobserved or in progress, in all versions, so that
`Settled` is false of it; with `Heeded` that is enough (`FInv`).

`FailedIsFinal` is not proved by looking at failures: a status does say "failed" after a
poll that failed (it forgets what it observed, and so is not settled), and
whether that is the end depends on each early return of the next `Reconcile`. `Untroubled` says
that until the resource is deleted there is nothing to fail. Every version of it and the worker's copy is
`Healthy`: it has an id, or an operation to poll, only with the generation observed; with an id and
nothing to poll it is not in progress; and it says "failed" only when it has not observed the generation. So
nothing is updated, no poll finds a failed operation (`Unspoilt`, `FinishGoesWell`), and
the one copy that has observed the generation without an id is the worker's on
its way to `createInstance` (`HealthyBy`). That needs one generation: after an edit
the id is there before the generation is observed. That recovery finds nothing before `init` needs
`Infant`, and with it `PromptSpec`. `UInv` is `FInv`, `Infant` and `Untroubled`; TLC
found no state of `temporary` outside `Untroubled`; the run does not repeat it.

### The binding controller

`ServiceBindingController_proofs`:

* `BindingInvariant == Spec => []IInv`, and from it `BindingTyped == Spec => []TypeOK`
* `UnbindingAsked == Spec => UnbindOnlyWhenAsked`: any number of incarnations of the
  binding and of its instance, any secrets, any lag, any failures.
* `NeverTwoBindings == Spec => []AtMostOneBinding`, for one external name and an SM that
  answers every listing. `binding_listing` shows that the second is needed: the error
  of a listing is logged and ignored, and the worker creates what it should have found.

`IInv` has to say more than for an instance, because the worker carries something else
between two calls than a copy: what it found at SM and of the instance (`found`).
`FoundIsTrue` says that it is one of SM's bindings and one of its
operations, `CallsAreMeant` that a binding is asked for only if recovery found none,
and that what recovery found has an operation: without it `resyncBindingStatus` would
write an operation that SM does not know, and `Truthful` is not inductive. `Goes(x, o, f)`
is what the invariant needs to know of a worker that goes on with the copy `o`, having
found `f`; `LocalStep`, `MoveStep`, `WriteStep` and `OtherStep` divide the steps by
what they write. `Single` adds that while the worker sets the owner, or creates, after
having found nothing, SM has nothing. `ComesFrom` names the few steps that lead to a
call from which a binding can come.

* `OneBindingInvariant == Spec => []GInv` and from it `FinalizerGuards`,
  `OwnerComesFirst`, and `PromiseImplemented == Spec => ImplementsManagedResource`, for
  one incarnation, one name, an SM that keeps what it failed to create, and one that
  answers every listing. Nothing is assumed of the instance, of the secrets, of the
  garbage collector, or of how far the copies are behind. TLC found no state of
  `binding_lifecycle` outside `GInv`; the run does not repeat it, because it would take
  half as long again.

The first three restrictions are those of the instance, for the same reasons; without
the fourth `FinalizerGuardsBinding` is false (`binding_listing`). The finalizer is kept by the argument
of `ManagedResource_proofs`. What a binding has besides is the owner. It is written by `SetOwner` alone
(`OwnerWritten`), through a copy, and from the instance read two calls earlier;
`createBinding` then goes by what the worker remembers to have written or read.
`Owning` therefore speaks of all copies: if any of them has an owner, the resource has
one, or is gone (`OwnedCopies`, from `CopyInherits`: what the worker goes on with has its
owner from a copy there was); the instance is known when the owner is set (`OwnerKnown`: `ReadInstance` goes on
only with an instance that exists). `OwnedFirst` and `OwnedLast` conclude that the resource is owned
when the request is made, and stays so until the binding is gone: the resource itself cannot go
before, by `OneLife`.

* `LastLineIsUnreached == PromptSpec => []UpdateLineUnreached`, under the same hypotheses
  and when the SM client can always be had.

`UpdateLineUnreached` is a comment in the code ("this line should not be reached") and depends on what
each early return before it excludes: a binding with an id comes to the end of `Reconcile` only if
it has no operation to poll, and is in progress or was never observed. `Tidy` says that there
is no such binding, of each version that is not marked for deletion (`Tidied`). The worker writes
its own copy, so its copy is `Tidy` when it is about to write or to poll, and
becomes so when the secret is stored (`Trim`), unless every version to come is
marked for deletion (`Doomed`); and it creates only for a copy SM was not asked for (`Bare`). What this
rests on is the beginning: `init` marks a resource as in progress, which is tidy only if it has no
id, and so SM must not have been asked for anything as long as `init` is to come
(`Infant`). `binding_line` shows that this is false without `PromptSpec`. `Born` (a copy of
a resource has a generation) makes sure that what is observed is not 0. `UInv` is all of these.

* `NoBindingForgotten == PromptSpec => []NoLostWakeup`, under the hypotheses of
  `LastLineIsUnreached` and for API writes that fail by conflict only.

The invariant beside `UInv` is `Heeded`, of the same form as for an instance: work is `Owed`
(a key in the queue, a copy still to be delivered or used), or the worker is `OnItsWay`, or the
resource is settled. Every step that goes on with a copy behind the resource leaves something
owed, because its write conflicts; so each lemma needs to look only at a worker whose copy is
fresh. Three things a binding does are different. A `Reconcile` that ends without a requeue on an
observed binding that is not in progress rests on `Orderly`: what it leaves is settled. The
worker that stores a secret writes a status afterwards (`AfterStore`) that is not the one
the resource has: it clears the operation, or names the binding for the first time, and a change
of the resource comes back through the informer. And when the finalizer is dropped by a copy that is not fresh the write conflicts
and is requeued, by a fresh one the resource is gone.

* `BindingDelivered == Spec => []SecretDelivered`, for one incarnation, one name, an SM that
  keeps what it failed to create and answers every listing, no secrets of others, and either one
  generation or one name a secret can have. Not only when nothing is going to run: a binding whose
  status says that it was created always has its credentials.

Between the secret and the status that speaks of it lie a write, two calls (`own`, `store`), a
polled operation and as many retries as there are conflicts, and a retry writes a status
on a copy that was read later. `Delivery` therefore speaks of all versions and of the worker: one that says "created" has an id
and there is a secret under its name (`Shown`); the worker says so only after it stored one
(`Straight`), and has an id to store credentials of, which recovery, the reply of SM or the
polled status gave it. What is stored are
credentials of something SM was asked for (`SecretsOwn`), and by `OneLife` that is the binding the status names. A binding is not in this order
any more when it is deleted (the secret goes first), and a copy may not know yet that it is;
so all this holds as long as the resource `Stays`, which then nobody removes anything of
(`StaysMeans`). `SameSecret`, that everybody has the same name for the secret, is what the
webhook does not ensure. `EInv` is all of these; it needs neither `PromptSpec` nor an SM client.

### The client, the secrets, the way to SM

`SecretResolver_proofs`: `MostSpecific == Spec => []MostSpecificWins`, from the
invariant `ResolverInv`. `MostSpecificWins` is inductive once it is known that a
kept level has a secret (`ReadsAreTrue`): a read that finds none has found a level
that is not kept. `SearchOrder`, `NextLevel` and `FirstAndLast` are all that
is used of the order of the levels. No assumption is needed.

`SMAccess_proofs`, from `ClientAssumption`:

* `KeepsPromise == Spec => ImplementsSMRequest`: the refinement, for any number of
  ids, tenants and plans and any failures;
* `PlansDetermined == Spec => []PlanIsDetermined`;
* `MostSpecificUsed == Spec => []MostSpecificWins`, by `KeepsResolver`: each step
  of the composition is one of the resolver or none for it;
* `WayTyped == Spec => []TypeOK`;
* `DeletedForGood == Spec => []DeletedIsGone` and `SameTenantAsked ==
  Spec => []KnownIsReachable`, both from the invariant `WayInv`.

`ClientInv` adds to the types where a request stands (`Progress`), that a reply
says what SM did (`RepliesAreTrue`, by the table `Meaning`), and that the offerings
listed are still the catalog's while it is steady (`Searching`, without which
`PlanIsDetermined` is not inductive). One lemma per action shows that it keeps
`ClientInv` and is a step of `SMRequest` or none; `ResultIsTrue` compares what
`register`, `update`, `delete` and `get` make of a code with its meaning, and
`SMAccess_proofs` puts the actions together.

`WayInv` follows a tenant from the secret to the thing. As long as no secret has
changed, a lookup returns what every lookup returns (`LookupIsTrue`, from
`ResolverInv`); a call under way goes to that tenant (`CallIsDirected`); an id in the
status or in a reply is one that SM assigned, and its tenant is the one that a lookup
comes to (`IdsAreAssigned`); and when the reply to a deletion says that the thing is
gone, it is, if its own tenant was asked (`DeletionIsTrue`). None of the four is inductive alone: an id is written from a
reply, a call is directed by a lookup.

### Only model-checked

Liveness and fairness (`DeletionCompletes`, `EventuallySettled`, `ReadyInstanceIsBound`),
which are out of the prover's reach; `CredentialsArrive`, because `normalizeCredentials`
is defined by recursion over a text and needs induction over data.

## Plan

1. Liveness of both controllers together: `InstanceLife` promises no progress, so
   the end of a binding's deletion after that of its instance is shown only under
   the fairness of the binding's own module.
2. Liveness with failures of SM.

## Not modelled

Authentication (`internal/auth`: an OAuth2 HTTP client; its failures are lost
replies), generated code and fakes, URLs and query strings (`parameters.go`,
`BuildURL`, the regular expressions of `ExtractInstanceID`), flags and intervals,
deployment files, the kubectl plugin. The API server also increments the generation of a
resource when it is marked for deletion; that is left out, because a deletion does not use it
(see `UserDelete`). One manager runs at a time: the chart starts
it with `--enable-leader-election`.
