---------------------------- MODULE SecretResolver ----------------------------
(***************************************************************************)
(* internal/secrets/resolver.go: which secret, and so which tenant of the  *)
(* Service Manager, a resource is reconciled with.  A secret may be in the *)
(* namespace of the resource, or in the management namespace under the     *)
(* name of that namespace, or there for the whole cluster; the first of    *)
(* these levels that has one decides.  The levels are read one after the   *)
(* other while secrets come, go and change.                                *)
(*                                                                         *)
(* The resource is not in the management namespace itself, where the first *)
(* and the last level would be one secret.                                 *)
(***************************************************************************)
EXTENDS Naturals, Sequences

CONSTANTS
  Tenants,                 \* whose credentials a secret may hold
  NoTenant,                \* absence of a tenant: no secret, or none returned
  Incomplete,              \* a secret that lacks one of the required fields
  EnableNamespaceSecrets,  \* configuration: is the first level searched
  ReadFaults               \* may a Get fail other than by NotFound

VARIABLES
  secrets,   \* the secret of each level, as the informer shows it
  lookup,    \* a call of GetSecretForResource: where it is, what it returned
  kept       \* history: the levels whose secret is the same since the call began

resolverVars == <<secrets, lookup, kept>>

------------------------------------------------------------------------------
(* Secrets and lookups *)

Levels == {"namespace", "management", "cluster"}

Searched_clusterFirst ==
  IF EnableNamespaceSecrets THEN <<"namespace", "cluster", "management">>
                            ELSE <<"cluster", "management">>
Searched ==
  IF EnableNamespaceSecrets THEN <<"namespace", "management", "cluster">>
                            ELSE <<"management", "cluster">>

\* Of a complete secret it matters to which tenant its credentials belong.
NoSecret == NoTenant
SecretTypes == Tenants \cup {Incomplete, NoSecret}

Outcomes == {"found", "missing", "invalid", "error"}

\* at: the position in Searched that is read next, or that decided.
Lookups == [at: 0..Len(Searched), outcome: Outcomes \cup {"none", "searching"},
            tenant: Tenants \cup {NoTenant}]
NoLookup == [at |-> 0, outcome |-> "none", tenant |-> NoTenant]

Present == {l \in Levels : secrets[l] # NoSecret}

validateSAPCPOperatorSecret(secret) == secret # Incomplete

------------------------------------------------------------------------------

Begin ==
  /\ lookup.outcome # "searching"
  /\ lookup' = [at |-> 1, outcome |-> "searching", tenant |-> NoTenant]
  /\ kept' = Present
  /\ UNCHANGED secrets

Return(outcome, tenant) ==
  lookup' = [lookup EXCEPT !.outcome = outcome, !.tenant = tenant]

\* The next level is asked only when this one has no secret.
SearchOn_offByOne ==
  IF lookup.at <= Len(Searched) THEN lookup' = [lookup EXCEPT !.at = @ + 1]
                                ELSE Return("missing", NoTenant)
SearchOn ==
  IF lookup.at < Len(Searched) THEN lookup' = [lookup EXCEPT !.at = @ + 1]
                               ELSE Return("missing", NoTenant)

\* What a Get that fails other than by NotFound leads to.
ReadFailed_absent == SearchOn
ReadFailed == Return("error", NoTenant)

\* One of the three Gets, and what GetSecretForResource makes of its result.
Get ==
  /\ lookup.outcome = "searching"
  /\ LET secret == secrets[Searched[lookup.at]]
     IN \/ secret = NoSecret /\ SearchOn
        \/ /\ secret # NoSecret
           /\ IF validateSAPCPOperatorSecret(secret) THEN Return("found", secret)
                                                     ELSE Return("invalid", NoTenant)
        \/ ReadFaults /\ ReadFailed
  /\ UNCHANGED <<secrets, kept>>

\* Somebody creates, changes or deletes a secret.
SecretChanges(l, secret) ==
  /\ secret # secrets[l]
  /\ secrets' = [secrets EXCEPT ![l] = secret]
  /\ kept' = kept \ {l}
  /\ UNCHANGED lookup

GetSecretForResource == Begin \/ Get

Next == GetSecretForResource \/ \E l \in Levels, secret \in SecretTypes : SecretChanges(l, secret)

Init ==
  /\ secrets \in [Levels -> SecretTypes]
  /\ lookup = NoLookup
  /\ kept = {}

Spec == Init /\ [][Next]_resolverVars

------------------------------------------------------------------------------
(* Properties *)

\* Every variable has the type its comment says.
TypeOK ==
  /\ secrets \in [Levels -> SecretTypes]
  /\ lookup \in Lookups
  /\ kept \subseteq Levels

\* The most specific secret wins, whatever changes under the three reads: a level
\* is passed over for a less specific one only if it was without a secret, or its
\* secret changed, in the course of the call; nor is "cannot find sapcp operator
\* secret" said while a secret that is searched for stays where it is.
MoreSpecific(l) ==
  [namespace |-> {}, management |-> {"namespace"}, cluster |-> {"namespace", "management"}][l]
PassedOver ==
  {l \in Levels : /\ l = "namespace" => EnableNamespaceSecrets
                  /\ \/ lookup.outcome = "missing"
                     \/ lookup.at > 0 /\ l \in MoreSpecific(Searched[lookup.at])}
MostSpecificWins == PassedOver \cap kept = {}

------------------------------------------------------------------------------
(* The inductive invariant *)

\* What the reads have found, and what the history says of it.
ReadsAreTrue ==
  /\ lookup.at = 0 => lookup.outcome = "none"
  /\ lookup.outcome \in {"none", "missing"} \/ lookup.at > 0
  /\ \A l \in kept : secrets[l] # NoSecret

ResolverInv == TypeOK /\ ReadsAreTrue /\ MostSpecificWins
=============================================================================
