------------------------ MODULE SecretResolver_proofs ------------------------
(* Proofs about SecretResolver: its invariant is inductive. *)
EXTENDS SecretResolver, TLAPS

\* The order in which GetSecretForResource reads the levels: there are at least two,
\* and the first one is the most specific of those that are read.
LEMMA SearchOrder ==
  /\ Len(Searched) \in Nat /\ Len(Searched) > 1
  /\ \A k \in 1..Len(Searched) : Searched[k] \in Levels
<1>1. CASE EnableNamespaceSecrets
  <2>1. Searched = <<"namespace", "management", "cluster">>
    BY <1>1 DEF Searched
  <2>2. Len(Searched) = 3
    BY <2>1
  <2> QED
    BY <2>1, <2>2 DEF Levels
<1>2. CASE ~EnableNamespaceSecrets
  <2>1. Searched = <<"management", "cluster">>
    BY <1>2 DEF Searched
  <2>2. Len(Searched) = 2
    BY <2>1
  <2> QED
    BY <2>1, <2>2 DEF Levels
<1> QED
  BY <1>1, <1>2

\* Going on to the next position passes over exactly the level at this one.
LEMMA NextLevel ==
  ASSUME NEW k \in 1..Len(Searched), k < Len(Searched), NEW l \in Levels,
         l = "namespace" => EnableNamespaceSecrets
  PROVE  l \in MoreSpecific(Searched[k + 1])
           <=> l = Searched[k] \/ l \in MoreSpecific(Searched[k])
<1>1. CASE EnableNamespaceSecrets
  <2>1. Searched = <<"namespace", "management", "cluster">>
    BY <1>1 DEF Searched
  <2>2. Len(Searched) = 3
    BY <2>1
  <2>3. k = 1 \/ k = 2
    BY <2>2
  <2> QED
    BY <2>1, <2>3 DEF Levels, MoreSpecific
<1>2. CASE ~EnableNamespaceSecrets
  <2>1. Searched = <<"management", "cluster">>
    BY <1>2 DEF Searched
  <2>2. Len(Searched) = 2
    BY <2>1
  <2>3. k = 1
    BY <2>2
  <2> QED
    BY <1>2, <2>1, <2>3 DEF Levels, MoreSpecific
<1> QED
  BY <1>1, <1>2

\* At the first position nothing has been passed over, at the last only its level
\* is not yet.
LEMMA FirstAndLast ==
  ASSUME NEW l \in Levels, l = "namespace" => EnableNamespaceSecrets
  PROVE  /\ l \notin MoreSpecific(Searched[1])
         /\ l = Searched[Len(Searched)] \/ l \in MoreSpecific(Searched[Len(Searched)])
<1>1. CASE EnableNamespaceSecrets
  <2>1. Searched = <<"namespace", "management", "cluster">>
    BY <1>1 DEF Searched
  <2>2. Len(Searched) = 3
    BY <2>1
  <2> QED
    BY <2>1, <2>2 DEF Levels, MoreSpecific
<1>2. CASE ~EnableNamespaceSecrets
  <2>1. Searched = <<"management", "cluster">>
    BY <1>2 DEF Searched
  <2>2. Len(Searched) = 2
    BY <2>1
  <2> QED
    BY <1>2, <2>1, <2>2 DEF Levels, MoreSpecific
<1> QED
  BY <1>1, <1>2

\* Whether a level is passed over, said of one level.
LEMMA PassedOverLevel ==
  ASSUME NEW l \in Levels
  PROVE  l \in PassedOver
           <=> /\ l = "namespace" => EnableNamespaceSecrets
               /\ \/ lookup.outcome = "missing"
                  \/ lookup.at > 0 /\ l \in MoreSpecific(Searched[lookup.at])
BY DEF PassedOver

\* Before the first lookup no level is kept.
LEMMA InitResolverInv == Init => ResolverInv
<1> SUFFICES ASSUME Init PROVE ResolverInv
  OBVIOUS
<1>1. lookup = [at |-> 0, outcome |-> "none", tenant |-> NoTenant] /\ kept = {}
  BY DEF Init, NoLookup
<1>2. 0 \in 0..Len(Searched)
  BY SearchOrder
<1>3. TypeOK
  BY <1>1, <1>2 DEF Init, TypeOK, Lookups
<1>4. ReadsAreTrue
  BY <1>1 DEF ReadsAreTrue
<1>5. MostSpecificWins
  BY <1>1 DEF MostSpecificWins
<1> QED
  BY <1>3, <1>4, <1>5 DEF ResolverInv

\* A call begins: nothing is passed over yet.
LEMMA BeginKeeps == ResolverInv /\ Begin => ResolverInv'
<1> SUFFICES ASSUME ResolverInv, Begin PROVE ResolverInv'
  OBVIOUS
<1>1. /\ lookup' = [at |-> 1, outcome |-> "searching", tenant |-> NoTenant]
      /\ kept' = Present /\ secrets' = secrets /\ secrets \in [Levels -> SecretTypes]
  BY DEF Begin, ResolverInv, TypeOK
<1>2. 1 \in 0..Len(Searched)
  BY SearchOrder
<1>3. TypeOK'
  BY <1>1, <1>2 DEF TypeOK, Lookups, Present
<1>4. ReadsAreTrue'
  BY <1>1 DEF ReadsAreTrue, Present
<1>5. MostSpecificWins'
  <2>1. ASSUME NEW l \in Levels, l \in PassedOver' PROVE FALSE
    BY <1>1, <2>1, FirstAndLast DEF PassedOver
  <2> QED
    BY <2>1 DEF MostSpecificWins, PassedOver
<1> QED
  BY <1>3, <1>4, <1>5 DEF ResolverInv

\* The level just read has no secret, so nothing that is kept is passed over.
LEMMA SearchOnKeeps ==
  ASSUME ResolverInv, lookup.outcome = "searching", UNCHANGED <<secrets, kept>>,
         secrets[Searched[lookup.at]] = NoSecret, SearchOn
  PROVE  ResolverInv'
<1>1. /\ lookup \in Lookups /\ kept \subseteq Levels /\ secrets \in [Levels -> SecretTypes]
      /\ lookup.at > 0 /\ lookup.at \in 1..Len(Searched)
  BY DEF ResolverInv, TypeOK, ReadsAreTrue, Lookups
<1>2. Searched[lookup.at] \notin kept
  BY DEF ResolverInv, ReadsAreTrue
<1>3. ASSUME NEW l \in Levels, l = "namespace" => EnableNamespaceSecrets,
             l = Searched[lookup.at] \/ l \in MoreSpecific(Searched[lookup.at])
      PROVE  l \notin kept
  <2>1. CASE l = Searched[lookup.at]
    BY <1>2, <2>1
  <2>2. CASE l \in MoreSpecific(Searched[lookup.at])
    <3>1. l \in PassedOver
      BY <1>1, <1>3, <2>2, PassedOverLevel
    <3> QED
      BY <3>1 DEF ResolverInv, MostSpecificWins
  <2> QED
    BY <1>3, <2>1, <2>2
<1>4. CASE lookup.at < Len(Searched)
  <2>1. /\ lookup' = [lookup EXCEPT !.at = @ + 1]
        /\ secrets' = secrets /\ kept' = kept
    BY <1>4 DEF SearchOn
  <2>2. lookup.at + 1 \in 0..Len(Searched)
    BY <1>1, <1>4, SearchOrder
  <2>3. lookup' \in Lookups
    BY <1>1, <2>1, <2>2 DEF Lookups
  <2>4. /\ lookup'.at = lookup.at + 1 /\ lookup'.outcome = "searching"
        /\ lookup'.at > 0
    BY <1>1, <2>1 DEF Lookups
  <2>5. TypeOK'
    BY <1>1, <2>1, <2>3 DEF TypeOK
  <2>6. ReadsAreTrue'
    BY <2>1, <2>4 DEF ReadsAreTrue, ResolverInv
  <2>7. MostSpecificWins'
    <3>1. ASSUME NEW l \in Levels, l \in PassedOver' PROVE l \notin kept'
      <4>1. /\ l = "namespace" => EnableNamespaceSecrets
            /\ l \in MoreSpecific(Searched[lookup.at + 1])
        BY <2>4, <3>1 DEF PassedOver
      <4>2. l = Searched[lookup.at] \/ l \in MoreSpecific(Searched[lookup.at])
        BY <1>1, <1>4, <4>1, NextLevel
      <4> QED
        BY <1>3, <2>1, <4>1, <4>2
    <3> QED
      BY <3>1 DEF MostSpecificWins, PassedOver
  <2> QED
    BY <2>5, <2>6, <2>7 DEF ResolverInv
<1>5. CASE ~(lookup.at < Len(Searched))
  <2>1. /\ lookup' = [lookup EXCEPT !.outcome = "missing", !.tenant = NoTenant]
        /\ secrets' = secrets /\ kept' = kept
    BY <1>5 DEF SearchOn, Return
  <2>2. lookup.at = Len(Searched)
    BY <1>1, <1>5, SearchOrder
  <2>3. /\ lookup' \in Lookups /\ lookup'.at = lookup.at /\ lookup'.outcome = "missing"
    BY <1>1, <2>1 DEF Lookups, Outcomes
  <2>4. TypeOK'
    BY <1>1, <2>1, <2>3 DEF TypeOK
  <2>5. ReadsAreTrue'
    BY <1>1, <2>1, <2>3 DEF ReadsAreTrue, ResolverInv
  <2>6. MostSpecificWins'
    <3>1. ASSUME NEW l \in Levels, l \in PassedOver' PROVE l \notin kept'
      <4>1. l = "namespace" => EnableNamespaceSecrets
        BY <3>1 DEF PassedOver
      <4>2. l = Searched[lookup.at] \/ l \in MoreSpecific(Searched[lookup.at])
        BY <2>2, <4>1, FirstAndLast
      <4> QED
        BY <1>3, <2>1, <4>1, <4>2
    <3> QED
      BY <3>1 DEF MostSpecificWins, PassedOver
  <2> QED
    BY <2>4, <2>5, <2>6 DEF ResolverInv
<1> QED
  BY <1>4, <1>5

\* A call that ends with something else than "missing" passes over nothing new.
LEMMA ReturnKeeps ==
  ASSUME ResolverInv, lookup.outcome = "searching", UNCHANGED <<secrets, kept>>,
         NEW outcome \in Outcomes \ {"missing"}, NEW tenant \in Tenants \cup {NoTenant},
         Return(outcome, tenant)
  PROVE  ResolverInv'
<1>1. /\ lookup \in Lookups /\ kept \subseteq Levels /\ secrets \in [Levels -> SecretTypes]
      /\ lookup.at > 0
  BY DEF ResolverInv, TypeOK, ReadsAreTrue, Lookups
<1>2. /\ lookup' = [lookup EXCEPT !.outcome = outcome, !.tenant = tenant]
      /\ secrets' = secrets /\ kept' = kept
  BY DEF Return
<1>3. lookup' \in Lookups /\ lookup'.at = lookup.at /\ lookup'.outcome = outcome
  BY <1>1, <1>2 DEF Lookups
<1>4. TypeOK'
  BY <1>1, <1>2, <1>3 DEF TypeOK
<1>5. ReadsAreTrue'
  BY <1>1, <1>2, <1>3 DEF ReadsAreTrue, ResolverInv
<1>6. PassedOver' = PassedOver
  BY <1>2, <1>3 DEF PassedOver
<1>7. MostSpecificWins'
  BY <1>2, <1>6 DEF MostSpecificWins, ResolverInv
<1> QED
  BY <1>4, <1>5, <1>7 DEF ResolverInv

\* A read finds a secret, finds none, or fails.
LEMMA GetKeeps == ResolverInv /\ Get => ResolverInv'
<1> SUFFICES ASSUME ResolverInv, Get PROVE ResolverInv'
  OBVIOUS
<1> DEFINE secret == secrets[Searched[lookup.at]]
<1>1. lookup.outcome = "searching" /\ UNCHANGED <<secrets, kept>>
  BY DEF Get
<1>2. lookup.at \in 1..Len(Searched)
  BY <1>1 DEF ResolverInv, TypeOK, ReadsAreTrue, Lookups
<1>3. secret \in SecretTypes
  BY <1>2, SearchOrder DEF ResolverInv, TypeOK
<1>4. CASE secret = NoSecret /\ SearchOn
  BY <1>1, <1>4, SearchOnKeeps
<1>5. CASE secret # NoSecret /\ validateSAPCPOperatorSecret(secret) /\ Return("found", secret)
  <2>1. secret \in Tenants
    BY <1>3, <1>5 DEF SecretTypes, validateSAPCPOperatorSecret
  <2> QED
    BY <1>1, <1>5, <2>1, ReturnKeeps DEF Outcomes
<1>6. CASE Return("invalid", NoTenant) \/ Return("error", NoTenant)
  BY <1>1, <1>6, ReturnKeeps DEF Outcomes
<1> QED
  BY <1>4, <1>5, <1>6 DEF Get, ReadFailed

\* What changes is no longer kept.
LEMMA SecretChangesKeeps ==
  ASSUME ResolverInv, NEW l \in Levels, NEW secret \in SecretTypes, SecretChanges(l, secret)
  PROVE  ResolverInv'
<1>1. /\ secrets' = [secrets EXCEPT ![l] = secret]
      /\ kept' = kept \ {l} /\ lookup' = lookup
  BY DEF SecretChanges
<1>2. secrets \in [Levels -> SecretTypes] /\ kept \subseteq Levels
  BY DEF ResolverInv, TypeOK
<1>3. TypeOK'
  BY <1>1, <1>2 DEF TypeOK, ResolverInv
<1>4. ReadsAreTrue'
  BY <1>1, <1>2 DEF ReadsAreTrue, ResolverInv
<1>5. MostSpecificWins'
  <2>1. PassedOver' = PassedOver
    BY <1>1 DEF PassedOver
  <2> QED
    BY <1>1, <2>1 DEF MostSpecificWins, ResolverInv
<1> QED
  BY <1>3, <1>4, <1>5 DEF ResolverInv

\* Every step keeps the invariant.
LEMMA NextResolverInv == ResolverInv /\ [Next]_resolverVars => ResolverInv'
<1> SUFFICES ASSUME ResolverInv, [Next]_resolverVars PROVE ResolverInv'
  OBVIOUS
<1>1. CASE GetSecretForResource
  BY <1>1, BeginKeeps, GetKeeps DEF GetSecretForResource
<1>2. CASE \E l \in Levels, secret \in SecretTypes : SecretChanges(l, secret)
  BY <1>2, SecretChangesKeeps
<1>3. CASE UNCHANGED resolverVars
  BY <1>3 DEF resolverVars, ResolverInv, TypeOK, ReadsAreTrue, MostSpecificWins, PassedOver
<1> QED
  BY <1>1, <1>2, <1>3 DEF Next

\* What has been read is true of the levels that are kept, at any time.
THEOREM ResolverInvariant == Spec => []ResolverInv
  BY InitResolverInv, NextResolverInv, PTL DEF Spec

\* Whatever secrets come, go and change under the three reads of a call of
\* GetSecretForResource, no level whose secret stays where it is loses to a less
\* specific one, or to "cannot find sapcp operator secret".
THEOREM MostSpecific == Spec => []MostSpecificWins
<1>1. ResolverInv => MostSpecificWins
  BY DEF ResolverInv
<1> QED
  BY <1>1, ResolverInvariant, PTL
=============================================================================
