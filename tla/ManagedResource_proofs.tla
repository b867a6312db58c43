------------------------ MODULE ManagedResource_proofs ------------------------
(***************************************************************************)
(* What both controllers keep of a managed resource: the order in which    *)
(* the informer shows the incarnations of the resource (Backlog), that one *)
(* incarnation has one thing in SM and keeps it under the finalizer        *)
(* (OneLife), and the promise of ManagedResource.                          *)
(*                                                                         *)
(* A controller has to show only what its own calls do: which requests to  *)
(* SM they make (RequestedBy), for what reason they come to delete the     *)
(* finalizer (Reasoned), and how they change the resource (Touches).       *)
(***************************************************************************)
EXTENDS BaseReconciler_proofs

(* What the informer shows *)

Undisturbed == UNCHANGED <<apiObj, cache, watch, lives>>

\* Somebody writes a version of the same incarnation, or the last one goes.
Rewritten ==
  /\ UNCHANGED <<cache, lives>>
  /\ \E p \in Objects :
       /\ Write(p)
       /\ Exists(p) => p.uid = apiObj.uid /\ (apiObj.deleting => p.deleting)

Begun ==
  /\ ~Exists(apiObj) /\ lives < MaxLives
  /\ UNCHANGED cache /\ lives' = lives + 1
  /\ \E p \in Objects : Write(p) /\ p.uid = lives + 1

Kinds == Undisturbed \/ Rewritten \/ Begun \/ Deliver \/ Restart

\* A write to the same incarnation, or of its end.
LEMMA RewritesSame ==
  ASSUME BaseInv, NEW p \in Objects, Write(p), UNCHANGED <<cache, lives>>,
         p = NoObject \/ Same(p, apiObj)
  PROVE  Rewritten
  BY DEF Rewritten, Same, Exists, NoObject

\* The worker adds the finalizer ...
LEMMA AddFinalizerKind == BaseInv /\ AddFinalizer => Kinds
<1> SUFFICES ASSUME BaseInv, AddFinalizer PROVE Kinds
  OBVIOUS
<1>1. UNCHANGED <<cache, lives>> /\ apiObj \in Objects
  BY DEF AddFinalizer, BaseInv, BaseTypes
<1>2. /\ [apiObj EXCEPT !.finalizer = TRUE] \in Objects
      /\ Same([apiObj EXCEPT !.finalizer = TRUE], apiObj)
  BY <1>1 DEF Objects, Same
<1>3. CASE Write([apiObj EXCEPT !.finalizer = TRUE])
  BY <1>1, <1>2, <1>3, RewritesSame DEF Kinds
<1>4. CASE watch = <<>> /\ Write([cache EXCEPT !.finalizer = TRUE])
  BY <1>1, <1>2, <1>4, CacheIsCurrent, RewritesSame DEF Kinds, BaseInv
<1>5. CASE UNCHANGED <<apiObj, watch>>
  BY <1>1, <1>5 DEF Kinds, Undisturbed
<1> QED
  BY <1>3, <1>4, <1>5 DEF AddFinalizer

\* ... and takes it away, and a resource marked for deletion with it.
LEMMA RemoveFinalizerKind == BaseInv /\ RemoveFinalizer => Kinds
<1> SUFFICES ASSUME BaseInv, RemoveFinalizer PROVE Kinds
  OBVIOUS
<1>1. UNCHANGED <<cache, lives>> /\ apiObj \in Objects
  BY DEF RemoveFinalizer, BaseInv, BaseTypes
<1>2. /\ Released(apiObj) \in Objects
      /\ Released(apiObj) = NoObject \/ Same(Released(apiObj), apiObj)
  BY <1>1, NoObjectType DEF Released, Objects, Same
<1>3. CASE Write(Released(apiObj))
  BY <1>1, <1>2, <1>3, RewritesSame DEF Kinds
<1>4. CASE watch = <<>> /\ Write(Released(cache))
  BY <1>1, <1>2, <1>4, CacheIsCurrent, RewritesSame DEF Kinds, BaseInv
<1>5. CASE UNCHANGED <<apiObj, watch>>
  BY <1>1, <1>5 DEF Kinds, Undisturbed
<1> QED
  BY <1>3, <1>4, <1>5 DEF RemoveFinalizer

\* The user deletes what is there ...
LEMMA UserDeleteKind == BaseInv /\ UserDelete => Kinds
<1> SUFFICES ASSUME BaseInv, UserDelete PROVE Kinds
  OBVIOUS
<1> DEFINE p == IF apiObj.finalizer THEN [apiObj EXCEPT !.deleting = TRUE] ELSE NoObject
<1>1. /\ p \in Objects
      /\ Exists(p) => p.uid = apiObj.uid /\ (apiObj.deleting => p.deleting)
  BY NoObjectType DEF BaseInv, BaseTypes, Objects, Exists, NoObject
<1>2. Write(p) /\ UNCHANGED <<cache, lives>>
  BY DEF UserDelete
<1> QED
  BY <1>1, <1>2 DEF Kinds, Rewritten

\* ... creates what is not ...
LEMMA UserCreateKind ==
  ASSUME BaseInv, NEW name \in Names, NEW s \in SecretNames \cup {NoName}, UserCreate(name, s)
  PROVE  Kinds
<1> DEFINE p == [NoObject EXCEPT !.uid = lives + 1, !.gen = 1, !.name = name,
                                 !.secretName = s]
<1>1. p \in Objects /\ p.uid = lives + 1
  <2>1. lives + 1 \in Nat /\ 1 \in Nat /\ name \in Names \cup {NoName}
    BY DEF BaseInv, BaseTypes
  <2> QED
    BY <2>1, NoObjectType DEF Objects
<1>2. /\ Write(p) /\ UNCHANGED cache /\ lives' = lives + 1
      /\ ~Exists(apiObj) /\ lives < MaxLives
  BY DEF UserCreate
<1> QED
  BY <1>1, <1>2 DEF Kinds, Begun

\* ... and edits it.
LEMMA UserEditKind ==
  ASSUME BaseInv, NEW name \in Names, NEW s \in SecretNames \cup {NoName}, UserEdit(name, s)
  PROVE  Kinds
<1> DEFINE p == [apiObj EXCEPT !.gen = @ + 1, !.name = name, !.secretName = s]
<1>1. p \in Objects /\ Same(p, apiObj)
  <2>1. apiObj.gen + 1 \in Nat /\ name \in Names \cup {NoName}
    BY DEF BaseInv, BaseTypes, Objects
  <2> QED
    BY <2>1 DEF BaseInv, BaseTypes, Objects, Same
<1>2. Write(p) /\ UNCHANGED <<cache, lives>>
  BY DEF UserEdit
<1> QED
  BY <1>1, <1>2, RewritesSame DEF Kinds

\* An incarnation is always yet to come.
LEMMA ComingType == BaseTypes => Coming \subseteq Nat /\ lives + 1 \in Coming
<1> SUFFICES ASSUME BaseTypes PROVE Coming \subseteq Nat /\ lives + 1 \in Coming
  OBVIOUS
<1>1. watch \in Seq(Objects) /\ \A o \in Objects : o.uid \in Nat
  BY DEF BaseTypes, Objects
<1> QED
  BY <1>1 DEF BaseTypes, Coming

\* What a write adds to the versions.
LEMMA WriteAppends ==
  ASSUME BaseInv, NEW p \in Objects, Write(p), UNCHANGED cache,
         NEW n \in Nat, n = Len(watch)
  PROVE  /\ apiObj' = p /\ apiObj = Version(n)
         /\ \/ p = apiObj /\ watch' = watch
            \/ /\ Len(watch') = n + 1
               /\ Version(n + 1)' = p
               /\ \A k \in 0..n : Version(k)' = Version(k)
<1>1. apiObj' = p /\ watch \in Seq(Objects)
  BY DEF BaseInv, BaseTypes, Write
<1>2. apiObj = Version(n)
  BY <1>1 DEF BaseInv, CacheFollows, Version
<1>3. CASE p = apiObj
  BY <1>1, <1>2, <1>3 DEF Write
<1>4. CASE p # apiObj
  <2>1. watch' = Append(watch, p)
    BY <1>4 DEF Write
  <2>2. /\ Len(watch') = n + 1 /\ watch'[n + 1] = p
        /\ \A k \in 1..n : watch'[k] = watch[k]
    BY <1>1, <2>1
  <2>3. Version(n + 1)' = watch'[n + 1]
    BY DEF Version
  <2>4. \A k \in 0..n : Version(k)' = Version(k)
    BY <2>2 DEF Version
  <2> QED
    BY <1>1, <1>2, <2>2, <2>3, <2>4
<1> QED
  BY <1>3, <1>4

\* Every version is of the type of a resource, and of an incarnation so far.
LEMMA VersionType ==
  ASSUME BaseInv, NEW k \in 0..Len(watch)
  PROVE  Version(k) \in Objects /\ Version(k).uid \in Nat /\ Version(k).uid <= lives
<1>1. watch \in Seq(Objects) /\ cache \in Objects
  BY DEF BaseInv, BaseTypes
<1>2. Version(k) \in Objects /\ Version(k) \in Copies
  BY <1>1 DEF Version, Copies
<1> QED
  BY <1>2 DEF BaseInv, DeletionIsFinal, Objects

\* Coming in terms of versions.
LEMMA ComingIs ==
  ASSUME BaseTypes
  PROVE  \A u : u \in Coming <=> \/ u = lives + 1
                                \/ \E k \in 1..Len(watch) : Exists(Version(k)) /\ u = Version(k).uid
<1>1. DOMAIN watch = 1..Len(watch) /\ \A k \in 1..Len(watch) : Version(k) = watch[k]
  BY DEF BaseTypes, Version
<1> QED
  BY <1>1 DEF Coming

\* A version that may follow all the others keeps them in order.
LEMMA WriteKeepsOrder ==
  ASSUME BaseInv, Backlog, NEW p \in Objects, Write(p), UNCHANGED cache,
         Exists(p) => \/ p.uid > lives
                      \/ p.uid = apiObj.uid /\ (apiObj.deleting => p.deleting)
  PROVE  InOrder'
<1> SUFFICES ASSUME NEW n \in Nat, n = Len(watch) PROVE InOrder'
  BY DEF BaseInv, BaseTypes
<1>1. n \in Nat /\ lives \in Nat /\ p.uid \in Nat
  BY DEF BaseInv, BaseTypes, Objects
<1>2. /\ apiObj' = p /\ apiObj = Version(n)
      /\ \/ p = apiObj /\ watch' = watch
         \/ /\ Len(watch') = n + 1
            /\ Version(n + 1)' = p
            /\ \A k \in 0..n : Version(k)' = Version(k)
  BY <1>1, WriteAppends
<1>3. InOrder
  BY DEF Backlog
<1>4. CASE watch' = watch
  BY <1>3, <1>4 DEF InOrder, Version
<1>5. CASE /\ Len(watch') = n + 1
           /\ Version(n + 1)' = p
           /\ \A k \in 0..n : Version(k)' = Version(k)
  <2> SUFFICES ASSUME NEW j \in 0..n+1, NEW k \in 0..n+1, j < k,
                      Exists(Version(j)'), Exists(Version(k)')
               PROVE  /\ Version(j)'.uid <= Version(k)'.uid
                      /\ Version(j)'.uid = Version(k)'.uid =>
                           /\ Version(j)'.deleting => Version(k)'.deleting
                           /\ \A i \in j..k : Exists(Version(i)')
    BY <1>5 DEF InOrder, Exists
  <2>1. CASE k \in 0..n
    <3>1. j \in 0..n /\ \A i \in j..k : i \in 0..n
      BY <1>1, <2>1
    <3> QED
      BY <1>3, <1>5, <2>1, <3>1 DEF InOrder
  <2>2. CASE k = n + 1
    <3>1. j \in 0..n /\ Version(j)' = Version(j) /\ Version(k)' = p /\ Exists(Version(j))
      BY <1>1, <1>5, <2>2 DEF Version
    <3>2. Version(j).uid \in Nat /\ Version(j).uid <= lives
      BY <3>1, VersionType
    <3>3. CASE p.uid > lives
      BY <1>1, <3>1, <3>2, <3>3
    <3>4. CASE p.uid = apiObj.uid /\ (apiObj.deleting => p.deleting)
      <4>1. Exists(apiObj)
        BY <2>2, <3>1, <3>4 DEF Exists
      <4>2. /\ Version(j).uid <= apiObj.uid
            /\ Version(j).uid = apiObj.uid =>
                 /\ Version(j).deleting => apiObj.deleting
                 /\ \A i \in j..n : Exists(Version(i))
        <5>1. CASE j = n
          BY <1>1, <1>2, <3>1, <3>2, <5>1
        <5>2. CASE j < n
          BY <1>1, <1>2, <1>3, <3>1, <4>1, <5>2 DEF InOrder
        <5> QED
          BY <1>1, <3>1, <5>1, <5>2
      <4>3. ASSUME \A i \in j..n : Exists(Version(i)), NEW i \in j..k PROVE Exists(Version(i)')
        BY <1>1, <1>5, <2>2, <3>1, <4>3
      <4> QED
        BY <3>1, <3>4, <4>2, <4>3
    <3> QED
      BY <3>1, <3>3, <3>4
  <2> QED
    BY <1>1, <2>1, <2>2
<1> QED
  BY <1>2, <1>4, <1>5

\* The instance seen is the same one, alive as it was, or a later one.
Onward(uid, seen) ==
  \/ uid < seen
  \/ /\ uid = seen
     /\ Exists(cache') => Exists(cache) /\ (cache.deleting => cache'.deleting)

\* What a step is to be shown: Backlog still holds, and what is shown goes on.
GoesOn(uid) == Backlog' /\ \E v \in Nat : LastShown(v)' /\ Onward(uid, v)

\* A step of the worker that writes nothing, of SM, or a resync.
LEMMA UndisturbedGoes ==
  ASSUME BaseInv, Backlog, Undisturbed, NEW uid \in Nat, LastShown(uid) PROVE GoesOn(uid)
<1>1. LastShown(uid)' /\ Onward(uid, uid)
  BY DEF Undisturbed, LastShown, Coming, Onward
<1>2. Backlog'
  BY DEF Backlog, Undisturbed, LastShown, Coming, InOrder, Version
<1> QED
  BY <1>1, <1>2 DEF GoesOn

\* What is yet to be shown grows with a write, by the incarnation written.
LEMMA WriteComing ==
  ASSUME BaseInv, NEW p \in Objects, Write(p), UNCHANGED cache
  PROVE  /\ \A u \in Coming : u = lives + 1 \/ u \in Coming'
         /\ \A u \in Coming' : u = lives' + 1 \/ u \in Coming \/ (Exists(p) /\ u = p.uid)
         /\ Exists(p) => p.uid \in Coming' \/ p = cache
<1>1. /\ watch \in Seq(Objects) /\ watch' \in Seq(Objects) /\ apiObj' = p
      /\ (watch' = watch /\ p = apiObj) \/ watch' = Append(watch, p)
  BY WriteFollows DEF BaseInv, BaseTypes, Write
<1>2. CASE watch' = watch /\ p = apiObj
  <2>1. p = cache \/ (Len(watch) \in DOMAIN watch /\ p = watch[Len(watch)])
    BY <1>1, <1>2 DEF BaseInv, CacheFollows
  <2> QED
    BY <1>2, <2>1 DEF Coming
<1>3. CASE watch' = Append(watch, p)
  <2>1. /\ \A k \in DOMAIN watch : k \in DOMAIN watch' /\ watch'[k] = watch[k]
        /\ \A k \in DOMAIN watch' : k \in DOMAIN watch \/ watch'[k] = p
        /\ Len(watch) + 1 \in DOMAIN watch' /\ watch'[Len(watch) + 1] = p
    BY <1>1, <1>3
  <2> QED
    BY <2>1 DEF Coming
<1> QED
  BY <1>1, <1>2, <1>3

\* Another version of the incarnation, which is last among those yet to be shown.
LEMMA RewrittenGoes ==
  ASSUME BaseInv, Backlog, Rewritten, NEW uid \in Nat, LastShown(uid) PROVE GoesOn(uid)
<1>1. UNCHANGED <<cache, lives>> /\ lives \in Nat /\ apiObj.uid \in Nat
  BY DEF Rewritten, BaseInv, BaseTypes, Objects
<1>2. PICK p \in Objects :
        /\ Write(p)
        /\ Exists(p) => p.uid = apiObj.uid /\ (apiObj.deleting => p.deleting)
  BY DEF Rewritten
<1>3. InOrder' /\ apiObj' = p
  BY <1>1, <1>2, WriteKeepsOrder DEF Write
<1>4. LastShown(uid)'
  <2>1. /\ \A u \in Coming : u = lives + 1 \/ u \in Coming'
        /\ \A u \in Coming' : u = lives + 1 \/ u \in Coming \/ (Exists(apiObj) /\ u = apiObj.uid)
    BY <1>1, <1>2, WriteComing DEF Exists
  <2>2. Exists(apiObj) => apiObj.uid \in Coming \/ apiObj = cache
    BY DEF BaseInv, BaseTypes, CacheFollows, Coming
  <2>3. lives + 1 \in Coming /\ lives + 1 \in Coming'
    BY <1>1 DEF Coming
  <2>4. CASE Exists(cache)
    BY <1>1, <2>1, <2>3, <2>4 DEF LastShown
  <2>5. CASE ~Exists(cache)
    <3>1. \A u \in Coming' : u \in Coming
      BY <2>1, <2>2, <2>3, <2>5
    <3> QED
      BY <1>1, <2>1, <2>3, <2>5, <3>1 DEF LastShown
  <2> QED
    BY <2>4, <2>5
<1>5. Onward(uid, uid)
  BY <1>1 DEF Onward
<1>6. Backlog'
  BY <1>1, <1>2, <1>3, <1>4 DEF Backlog, Exists, LastShown
<1> QED
  BY <1>4, <1>5, <1>6 DEF GoesOn

\* Another incarnation, which comes after all of them.
LEMMA BegunGoes ==
  ASSUME BaseInv, Backlog, Begun, NEW uid \in Nat, LastShown(uid) PROVE GoesOn(uid)
<1>1. /\ ~Exists(apiObj) /\ lives < MaxLives /\ UNCHANGED cache /\ lives' = lives + 1
      /\ lives \in Nat /\ MaxLives \in Nat
  BY ConstantsAssumption DEF Begun, BaseInv, BaseTypes
<1>2. PICK p \in Objects : Write(p) /\ p.uid = lives + 1
  BY DEF Begun
<1>3. InOrder' /\ apiObj' = p /\ Exists(p)
  BY <1>1, <1>2, WriteKeepsOrder DEF Write, Exists
<1>4. LastShown(uid)'
  <2>1. /\ \A u \in Coming : u = lives + 1 \/ u \in Coming'
        /\ \A u \in Coming' : u = lives + 2 \/ u \in Coming \/ u = lives + 1
        /\ lives + 1 \in Coming' \/ p = cache
    BY <1>1, <1>2, <1>3, WriteComing
  <2>2. lives + 1 \in Coming /\ lives + 2 \in Coming'
    BY <1>1 DEF Coming
  <2>3. lives + 1 \in Coming'
    <3>1. cache.uid <= lives
      BY DEF BaseInv, DeletionIsFinal, Copies
    <3> QED
      BY <1>1, <1>2, <2>1, <3>1 DEF BaseInv, BaseTypes, Objects
  <2>4. uid \in 0..lives /\ uid + 1 .. lives + 1 \subseteq Coming
    BY DEF LastShown
  <2>5. uid + 1 .. lives + 2 \subseteq Coming'
    <3> SUFFICES ASSUME NEW u \in uid + 1 .. lives + 2 PROVE u \in Coming'
      OBVIOUS
    <3>1. u = lives + 2 \/ u \in uid + 1 .. lives + 1
      BY <1>1
    <3> QED
      BY <2>1, <2>2, <2>3, <2>4, <3>1
  <2>6. ~Exists(cache) => \A u \in Coming' : uid < u
    BY <1>1, <2>1, <2>4 DEF LastShown
  <2>7. lives' + 1 = lives + 2 /\ uid \in 0..lives'
    BY <1>1, <2>4
  <2> QED
    BY <1>1, <2>5, <2>6, <2>7 DEF LastShown
<1>5. Onward(uid, uid)
  BY <1>1 DEF Onward
<1>6. Backlog'
  <2>1. lives' <= MaxLives /\ (Exists(apiObj') => apiObj'.uid = lives')
    BY <1>1, <1>2, <1>3
  <2>2. \E v \in 0..lives' : LastShown(v)'
    BY <1>4 DEF LastShown
  <2> QED
    BY <1>3, <2>1, <2>2 DEF Backlog, Exists
<1> QED
  BY <1>4, <1>5, <1>6 DEF GoesOn

\* The informer goes on by one version.
LEMMA DeliverShifts ==
  ASSUME BaseInv, Deliver, NEW n \in Nat, n = Len(watch)
  PROVE  /\ n > 0 /\ Len(watch') = n - 1
         /\ \A k \in 0..n-1 : Version(k)' = Version(k + 1)
<1>1. /\ watch \in Seq(Objects) /\ watch # <<>>
      /\ cache' = Head(watch) /\ watch' = Tail(watch)
  BY DEF BaseInv, BaseTypes, Deliver
<1>2. /\ n > 0 /\ cache' = watch[1] /\ Len(watch') = n - 1
      /\ \A k \in 1..n-1 : watch'[k] = watch[k + 1]
  BY <1>1
<1> QED
  BY <1>2 DEF Version

\* The informer shows the next version: of the same incarnation, of the next one or
\* of none.
LEMMA DeliverGoes ==
  ASSUME BaseInv, Backlog, Deliver, NEW uid \in Nat, LastShown(uid) PROVE GoesOn(uid)
<1> SUFFICES ASSUME NEW n \in Nat, n = Len(watch) PROVE GoesOn(uid)
  BY DEF BaseInv, BaseTypes
<1>1. /\ n > 0 /\ Len(watch') = n - 1
      /\ \A k \in 0..n-1 : Version(k)' = Version(k + 1)
  BY DeliverShifts
<1>2. /\ UNCHANGED <<apiObj, lives>> /\ lives \in Nat
      /\ cache = Version(0) /\ cache' = Version(1)
  BY <1>1 DEF Deliver, BaseInv, BaseTypes, Version
<1>3. \A k \in 0..n : Version(k).uid \in Nat /\ Version(k).uid <= lives
  BY VersionType
<1>4. InOrder /\ uid \in 0..lives /\ uid + 1 .. lives + 1 \subseteq Coming
  BY DEF Backlog, LastShown
<1>5. InOrder'
  <2> SUFFICES ASSUME NEW j \in 0..n-1, NEW k \in 0..n-1, j < k,
                      Exists(Version(j)'), Exists(Version(k)')
               PROVE  /\ Version(j)'.uid <= Version(k)'.uid
                      /\ Version(j)'.uid = Version(k)'.uid =>
                           /\ Version(j)'.deleting => Version(k)'.deleting
                           /\ \A i \in j..k : Exists(Version(i)')
    BY <1>1 DEF InOrder, Exists
  <2>1. j + 1 \in 0..n /\ k + 1 \in 0..n /\ j + 1 < k + 1
    BY <1>1
  <2>2. \A i \in j..k : i + 1 \in j + 1 .. k + 1
    OBVIOUS
  <2>3. Exists(Version(j + 1)) /\ Exists(Version(k + 1))
    BY <1>1
  <2>4. /\ Version(j + 1).uid <= Version(k + 1).uid
        /\ Version(j + 1).uid = Version(k + 1).uid =>
             /\ Version(j + 1).deleting => Version(k + 1).deleting
             /\ \A i \in j..k : Exists(Version(i + 1))
    BY <1>4, <2>1, <2>2, <2>3 DEF InOrder
  <2>5. \A i \in j..k : i \in 0..n-1
    OBVIOUS
  <2> QED
    BY <1>1, <2>4, <2>5
<1>6. /\ \A u \in Coming : u = lives + 1 \/ \E k \in 1..n : Exists(Version(k)) /\ u = Version(k).uid
      /\ lives + 1 \in Coming'
      /\ \A k \in 2..n : Exists(Version(k)) => Version(k).uid \in Coming'
      /\ \A u \in Coming' : u = lives + 1 \/ \E k \in 2..n : Exists(Version(k)) /\ u = Version(k).uid
  <2>1. BaseTypes /\ BaseTypes'
    BY DeliverKeeps DEF BaseInv
  <2>2. \A u : u \in Coming' <=> \/ u = lives + 1
                                 \/ \E k \in 1..n-1 : Exists(Version(k)') /\ u = Version(k)'.uid
    <3>1. DOMAIN watch' = 1..Len(watch') /\ \A k \in 1..Len(watch') : Version(k)' = watch'[k]
      BY <2>1 DEF BaseTypes, Version
    <3>2. \A u : u \in Coming' <=> \/ u = lives' + 1
                                   \/ \E k \in 1..Len(watch') :
                                        Exists(Version(k)') /\ u = Version(k)'.uid
      BY <3>1 DEF Coming, Exists
    <3> QED
      BY <1>1, <1>2, <3>2
  <2>3. \A k \in 1..n-1 : k + 1 \in 2..n /\ k \in 0..n-1
    BY <1>1
  <2>4. \A k \in 2..n : k - 1 \in 1..n-1 /\ k - 1 \in 0..n-1 /\ (k - 1) + 1 = k
    BY <1>1
  <2>5. \A u : u \in Coming' <=> \/ u = lives + 1
                                 \/ \E k \in 2..n : Exists(Version(k)) /\ u = Version(k).uid
    <3>1. \A k \in 1..n-1 : Version(k)' = Version(k + 1)
      BY <1>1, <2>3
    <3>2. ASSUME NEW k \in 2..n, Exists(Version(k))
          PROVE  Version(k).uid \in Coming'
      <4>1. PICK m \in 1..n-1 : m = k - 1 /\ m + 1 = k
        BY <2>4
      <4>2. Version(m)' = Version(k)
        BY <3>1, <4>1
      <4> QED
        BY <2>2, <3>2, <4>1, <4>2
    <3>3. ASSUME NEW u, u \in Coming'
          PROVE  u = lives + 1 \/ \E k \in 2..n : Exists(Version(k)) /\ u = Version(k).uid
      BY <2>2, <2>3, <3>1, <3>3
    <3>4. lives + 1 \in Coming'
      BY <2>2
    <3> QED
      BY <3>2, <3>3, <3>4
  <2>6. \A u : u \in Coming => \/ u = lives + 1
                               \/ \E k \in 1..n : Exists(Version(k)) /\ u = Version(k).uid
    BY <2>1, ComingIs
  <2> QED
    BY <2>5, <2>6
<1>7. Exists(cache) => uid = cache.uid
  BY DEF LastShown
<1>8. CASE Exists(Version(1))
  <2> SUFFICES ASSUME NEW v \in Nat, v = Version(1).uid PROVE GoesOn(uid)
    BY <1>1, <1>3
  <2>1. v \in Nat /\ v <= lives /\ v # 0
    BY <1>1, <1>3, <1>8 DEF Exists
  <2>2. uid < v \/ (uid = v /\ Exists(cache) /\ (cache.deleting => cache'.deleting))
    <3>1. CASE Exists(cache)
      <4>1. /\ Version(0).uid <= Version(1).uid
            /\ Version(0).uid = Version(1).uid => (Version(0).deleting => Version(1).deleting)
        BY <1>1, <1>2, <1>4, <1>8, <3>1 DEF InOrder
      <4> QED
        BY <1>2, <1>3, <1>7, <2>1, <3>1, <4>1
    <3>2. CASE ~Exists(cache)
      <4>1. v \in Coming
        BY <1>1, <1>8, ComingIs DEF BaseInv
      <4> QED
        BY <3>2, <4>1 DEF LastShown
    <3> QED
      BY <3>1, <3>2
  <2>3. v + 1 .. lives + 1 \subseteq Coming'
    <3> SUFFICES ASSUME NEW u \in v + 1 .. lives + 1 PROVE u \in Coming'
      OBVIOUS
    <3>1. u \in uid + 1 .. lives + 1 /\ u # v
      BY <1>2, <1>4, <2>1, <2>2
    <3>2. CASE u = lives + 1
      BY <1>6, <3>2
    <3>3. ASSUME NEW k \in 1..n, Exists(Version(k)), u = Version(k).uid PROVE u \in Coming'
      <4>1. k \in 2..n
        BY <1>1, <3>1, <3>3
      <4> QED
        BY <1>6, <3>3, <4>1
    <3> QED
      BY <1>4, <1>6, <3>1, <3>2, <3>3
  <2>4. LastShown(v)'
    BY <1>2, <1>8, <2>1, <2>3 DEF LastShown
  <2>5. Onward(uid, v)
    BY <2>2 DEF Onward
  <2>6. Backlog'
    BY <1>2, <1>5, <2>1, <2>4 DEF Backlog, Exists
  <2> QED
    BY <2>1, <2>4, <2>5, <2>6 DEF GoesOn
<1>9. CASE ~Exists(Version(1))
  <2>1. ASSUME NEW u \in Coming' PROVE uid < u
    <3>1. CASE u = lives + 1
      BY <1>2, <1>4, <3>1
    <3>2. ASSUME NEW k \in 2..n, Exists(Version(k)), u = Version(k).uid PROVE uid < u
      <4>1. CASE Exists(cache)
        <5>1. Version(0).uid <= Version(k).uid /\ Version(0).uid # Version(k).uid
          <6>1. k \in 0..n /\ 0 \in 0..n /\ 0 < k /\ 1 \in 0..k
            BY <1>1
          <6> QED
            BY <1>2, <1>4, <1>9, <3>2, <4>1, <6>1 DEF InOrder
        <5> QED
          BY <1>2, <1>3, <1>7, <3>2, <4>1, <5>1
      <4>2. CASE ~Exists(cache)
        <5>1. u \in Coming
          BY <1>1, <3>2, ComingIs DEF BaseInv
        <5> QED
          BY <4>2, <5>1 DEF LastShown
      <4> QED
        BY <4>1, <4>2
    <3> QED
      BY <1>6, <3>1, <3>2
  <2>2. uid + 1 .. lives + 1 \subseteq Coming'
    <3> SUFFICES ASSUME NEW u \in uid + 1 .. lives + 1 PROVE u \in Coming'
      OBVIOUS
    <3>1. ASSUME NEW k \in 1..n, Exists(Version(k)), u = Version(k).uid PROVE u \in Coming'
      <4>1. k \in 2..n
        BY <1>1, <1>9, <3>1
      <4> QED
        BY <1>6, <3>1, <4>1
    <3> QED
      BY <1>4, <1>6, <3>1
  <2>3. LastShown(uid)'
    BY <1>2, <1>4, <1>9, <2>1, <2>2 DEF LastShown
  <2>4. Onward(uid, uid)
    BY <1>2, <1>9 DEF Onward
  <2>5. Backlog'
    BY <1>2, <1>4, <1>5, <2>3 DEF Backlog, Exists
  <2> QED
    BY <2>3, <2>4, <2>5 DEF GoesOn
<1> QED
  BY <1>8, <1>9

\* The informer of a new process starts with the last version.
LEMMA RestartGoes ==
  ASSUME BaseInv, Backlog, Restart, NEW uid \in Nat, LastShown(uid) PROVE GoesOn(uid)
<1> SUFFICES ASSUME NEW n \in Nat, n = Len(watch), NEW l \in Nat, l = lives PROVE GoesOn(uid)
  BY DEF BaseInv, BaseTypes
<1>1. /\ cache' = apiObj /\ watch' = <<>> /\ UNCHANGED <<apiObj, lives>>
      /\ lives \in Nat /\ watch \in Seq(Objects)
  BY DEF Restart, BaseInv, BaseTypes
<1>2. Coming' = {lives + 1}
  BY <1>1 DEF Coming
<1>3. /\ Exists(apiObj) => apiObj.uid = lives
      /\ lives <= MaxLives /\ InOrder
  BY DEF Backlog
<1>4. LastShown(l)'
  BY <1>1, <1>2, <1>3 DEF LastShown, Exists
<1>5. InOrder'
  BY <1>1 DEF InOrder
<1>6. Onward(uid, l)
  <2>1. uid <= lives /\ (Exists(cache) => uid = cache.uid)
    BY DEF LastShown
  <2>2. ASSUME uid = lives, Exists(apiObj)
        PROVE  Exists(cache) /\ (cache.deleting => apiObj.deleting)
    <3>1. CASE n = 0
      <4>1. \A s \in Seq(Objects) : Len(s) = 0 => s = <<>>
        OBVIOUS
      <4>2. cache = apiObj
        BY <1>1, <3>1, <4>1, CacheIsCurrent DEF BaseInv
      <4> QED
        BY <2>2, <4>2
    <3>2. CASE n > 0
      <4>1. /\ apiObj = Version(n) /\ cache = Version(0) /\ n \in 0..n /\ 0 \in 0..n
            /\ n \in DOMAIN watch /\ apiObj = watch[n]
        BY <1>1, <3>2 DEF BaseInv, CacheFollows, Version
      <4>2. lives \in Coming
        BY <1>3, <2>2, <4>1 DEF Coming, Exists
      <4>3. Exists(cache)
        BY <1>1, <2>2, <4>2 DEF LastShown
      <4>4. cache.uid = apiObj.uid
        BY <1>3, <2>1, <2>2, <4>3
      <4> QED
        BY <1>3, <2>2, <3>2, <4>1, <4>3, <4>4 DEF InOrder
    <3> QED
      BY <3>1, <3>2
  <2> QED
    BY <1>1, <2>1, <2>2 DEF Onward
<1>7. Backlog'
  <2>1. l \in 0..lives' /\ LastShown(l)'
    BY <1>1, <1>4
  <2> QED
    BY <1>1, <1>3, <1>4, <1>5, <2>1 DEF Backlog, Exists
<1> QED
  BY <1>1, <1>4, <1>6, <1>7 DEF GoesOn

\* Whatever the step: Backlog holds, and what is shown goes on.
LEMMA StepGoesOn ==
  ASSUME BaseInv, Backlog, Kinds, NEW uid \in Nat, LastShown(uid) PROVE GoesOn(uid)
  BY UndisturbedGoes, RewrittenGoes, BegunGoes, DeliverGoes, RestartGoes DEF Kinds

\* The order of the versions is an invariant of all the kinds of steps.
LEMMA BacklogKept == BaseInv /\ Backlog /\ Kinds => Backlog'
<1> SUFFICES ASSUME BaseInv, Backlog, Kinds PROVE Backlog'
  OBVIOUS
<1>1. PICK uid \in Nat : LastShown(uid)
  BY DEF Backlog, BaseInv, BaseTypes
<1> QED
  BY <1>1, StepGoesOn DEF GoesOn

\* Nothing is there to begin with, and nothing is shown.
LEMMA BacklogToBegin ==
  apiObj = NoObject /\ cache = NoObject /\ watch = <<>> /\ lives = 0
  => Backlog /\ LastShown(0)
<1> SUFFICES ASSUME apiObj = NoObject, cache = NoObject, watch = <<>>, lives = 0
             PROVE  Backlog /\ LastShown(0)
  OBVIOUS
<1>1. ~Exists(NoObject)
  BY DEF Exists, NoObject
<1>2. Coming = {1}
  BY DEF Coming
<1>3. LastShown(0)
  BY <1>1, <1>2 DEF LastShown
<1> QED
  BY <1>1, <1>3, ConstantsAssumption DEF Backlog, InOrder

------------------------------------------------------------------------------
(* What a controller asks of SM *)

\* The calls of a controller: the request that creates a thing, those that change it,
\* the one that removes it, and the calls before and after, as OneLife takes them.
WellFormed(c) ==
  /\ c.create \in c.creates /\ c.changes \subseteq c.creates
  /\ {"idle", "status", "addFinalizer", "removeFinalizer", c.remove} \cap c.creates = {}
  /\ c.creates \cap c.removes = {} /\ "removeFinalizer" \in c.removes
  /\ {"idle", "status", "addFinalizer"} \cap c.removes = {}
  /\ c.remove \notin {"idle", "status", "addFinalizer"}

\* SM takes a step at its request, or by itself.
RequestedBy(c) ==
  \/ UNCHANGED sm
  \/ w.pc = c.create /\ \E i \in FreeIDs, state \in {"SUCCEEDED", "IN_PROGRESS"} :
                           SMCreate(i, RequestOf(w.obj), state)
  \/ w.pc \in c.changes /\ \E state \in {"SUCCEEDED", "IN_PROGRESS"} :
                              SMPatch(w.obj.status.id, RequestOf(w.obj), state)
  \/ w.pc = c.remove /\ (SMDeleteNow(w.obj.status.id) \/ SMDeleteAsync(w.obj.status.id))
  \/ \E i \in IDs : SMFinish(i)

\* The worker makes the calls only when its copy says so.
MeansIt(c) ==
  /\ w.pc = c.remove => w.obj.deleting
  /\ w.pc \in c.changes \cup {c.remove} => w.obj.status.id # NoId

\* All that is to be known of a request.
Asked(c) == BaseInv /\ Truthful /\ Held /\ WellFormed(c) /\ MeansIt(c) /\ RequestedBy(c)

\* What the operator asks SM for, it asks for by a name and an id that SM knows.
LEMMA AskedByName ==
  ASSUME BaseInv, Truthful, Held
  PROVE  /\ SMInv /\ RequestsNamed /\ sm \in [IDs -> Things]
         /\ w.obj \in Objects /\ w.obj.status \in Statuses /\ Recorded(sm, w.obj.status)
         /\ w.obj.status.id # NoId => w.obj.status.id \in Used
         /\ w.pc # "idle" => /\ Exists(w.obj) /\ w.obj.name \in Names
                             /\ RequestOf(w.obj) \in Requests
                             /\ RequestOf(w.obj).name \in Names
<1>1. SMInv /\ RequestsNamed /\ sm \in [IDs -> Things]
  BY DEF BaseInv, BaseTypes, SMInv, Truthful
<1>2. w.obj \in Objects /\ w.obj \in Copies
  BY DEF BaseInv, BaseTypes, Copies
<1>3. w.obj.status \in Statuses /\ Recorded(sm, w.obj.status)
  BY <1>2 DEF Truthful, Objects
<1>4. w.obj.status.id # NoId => w.obj.status.id \in Used
  BY <1>3 DEF Recorded, Statuses, Used, FreeIDs
<1>5. w.pc # "idle" => Exists(w.obj) /\ w.obj.name \in Names
  BY <1>2 DEF Held, Truthful
<1> QED
  BY <1>1, <1>2, <1>3, <1>4, <1>5, SpecType DEF RequestOf

\* The same by the kinds of requests: what each is made with.
LEMMA AskedWith ==
  ASSUME NEW c, Asked(c)
  PROVE  /\ SMInv /\ RequestsNamed /\ sm \in [IDs -> Things]
         /\ \/ UNCHANGED sm
            \/ /\ w.pc = c.create /\ w.pc # "idle"
               /\ \E i \in FreeIDs, spec \in Requests, state \in {"SUCCEEDED", "IN_PROGRESS"} :
                    spec.name \in Names /\ SMCreate(i, spec, state)
            \/ /\ w.pc \in c.changes
               /\ \E i \in Used, spec \in Requests, state \in {"SUCCEEDED", "IN_PROGRESS"} :
                    spec.name \in Names /\ SMPatch(i, spec, state)
            \/ /\ w.pc = c.remove
               /\ \E i \in Used : SMDeleteNow(i) \/ SMDeleteAsync(i)
            \/ \E i \in Used : SMFinish(i)
<1>1. SMInv /\ RequestsNamed /\ sm \in [IDs -> Things]
  BY AskedByName DEF Asked
<1>2. /\ w.pc \in c.creates \cup {c.remove} => w.pc # "idle"
      /\ c.create \in c.creates /\ c.changes \subseteq c.creates
  BY DEF Asked, WellFormed
<1>3. w.pc # "idle" => RequestOf(w.obj) \in Requests /\ RequestOf(w.obj).name \in Names
  BY AskedByName DEF Asked
<1>4. w.pc \in c.changes \cup {c.remove} => w.obj.status.id \in Used
  BY AskedByName DEF Asked, MeansIt
<1>5. ASSUME NEW i \in IDs, SMFinish(i) PROVE i \in Used
  BY <1>1, <1>5 DEF SMFinish, Busy, SMInv, LiveIsRecorded, Used, FreeIDs
<1>6. RequestedBy(c)
  BY DEF Asked
<1>7. CASE w.pc = c.create /\ \E i \in FreeIDs, state \in {"SUCCEEDED", "IN_PROGRESS"} :
                                SMCreate(i, RequestOf(w.obj), state)
  BY <1>1, <1>2, <1>3, <1>7, Zenon
<1>8. CASE w.pc \in c.changes /\ \E state \in {"SUCCEEDED", "IN_PROGRESS"} :
                                   SMPatch(w.obj.status.id, RequestOf(w.obj), state)
  <2>1. RequestOf(w.obj) \in Requests /\ RequestOf(w.obj).name \in Names
        /\ w.obj.status.id \in Used
    BY <1>2, <1>3, <1>4, <1>8
  <2> QED
    BY <1>1, <1>8, <2>1, Zenon
<1>9. CASE w.pc = c.remove /\ (SMDeleteNow(w.obj.status.id) \/ SMDeleteAsync(w.obj.status.id))
  <2>1. w.obj.status.id \in Used
    BY <1>4, <1>9
  <2> QED
    BY <1>1, <1>9, <2>1, Zenon
<1> QED
  BY <1>1, <1>5, <1>6, <1>7, <1>8, <1>9, Zenon DEF RequestedBy

\* SM's records only grow, stay named, and a removed thing stays removed.
LEMMA RecordsGrow ==
  ASSUME NEW c, Asked(c)
  PROVE  /\ SMInv' /\ RequestsNamed' /\ Used \subseteq Used' /\ Remembers
         /\ UNCHANGED sm \/ \E i \in IDs : Advanced(i)
<1>1. SMInv /\ RequestsNamed /\ sm \in [IDs -> Things]
  BY AskedWith
<1> DEFINE Goal == /\ SMInv' /\ RequestsNamed' /\ Used \subseteq Used' /\ Remembers
                   /\ UNCHANGED sm \/ \E i \in IDs : Advanced(i)
<1>2. ASSUME NEW i \in IDs, Advanced(i), SMInv', RequestsNamed' PROVE Goal
  BY <1>1, <1>2, AdvanceIsRemembered
<1>3. ASSUME UNCHANGED sm PROVE Goal
  BY <1>1, <1>3
     DEF SMInv, RemovedIsGone, LiveIsRecorded, RequestsNamed, Used, FreeIDs, Ops, Remembers
<1> HIDE DEF Goal
<1>4. ASSUME NEW i \in IDs, NEW spec \in Requests, spec.name \in Names,
             NEW state \in {"SUCCEEDED", "IN_PROGRESS"},
             SMCreate(i, spec, state) \/ SMPatch(i, spec, state)
      PROVE  Goal
  BY <1>1, <1>2, <1>4, RequestAdvances, RequestKeepsNames
<1>5. ASSUME NEW i \in Used, SMDeleteNow(i) \/ SMDeleteAsync(i) PROVE Goal
  <2>1. /\ i \in IDs /\ NoRequest \in Requests
        /\ "SUCCEEDED" \in {"SUCCEEDED", "IN_PROGRESS"}
    BY DEF Used, NoRequest, Requests
  <2>2. Advanced(i) /\ SMInv'
    BY <1>1, <1>5, <2>1, RequestAdvances
  <2>3. RequestsNamed'
    BY <1>1, <1>5, OthersKeepNames
  <2> QED
    BY <1>2, <2>1, <2>2, <2>3
<1>6. ASSUME NEW i \in Used, SMFinish(i) PROVE Goal
  <2>1. i \in IDs
    BY DEF Used
  <2> QED
    BY <1>1, <1>2, <1>6, <2>1, FinishAdvances, OthersKeepNames
<1>7. FreeIDs \subseteq IDs /\ Used \subseteq IDs
  BY DEF FreeIDs, Used
<1> QED
  <2>1. ASSUME NEW i \in FreeIDs, NEW spec \in Requests, spec.name \in Names,
               NEW state \in {"SUCCEEDED", "IN_PROGRESS"}, SMCreate(i, spec, state)
        PROVE  Goal
    BY <1>4, <1>7, <2>1
  <2>2. ASSUME NEW i \in Used, NEW spec \in Requests, spec.name \in Names,
               NEW state \in {"SUCCEEDED", "IN_PROGRESS"}, SMPatch(i, spec, state)
        PROVE  Goal
    BY <1>4, <1>7, <2>2
  <2>3. \/ UNCHANGED sm
        \/ \E i \in FreeIDs, spec \in Requests, state \in {"SUCCEEDED", "IN_PROGRESS"} :
             spec.name \in Names /\ SMCreate(i, spec, state)
        \/ \E i \in Used, spec \in Requests, state \in {"SUCCEEDED", "IN_PROGRESS"} :
             spec.name \in Names /\ SMPatch(i, spec, state)
        \/ \E i \in Used : SMDeleteNow(i) \/ SMDeleteAsync(i) \/ SMFinish(i)
    BY AskedWith, Zenon
  <2>4. Goal
    BY <1>3, <1>5, <1>6, <2>1, <2>2, <2>3
  <2> QED
    BY <2>4 DEF Goal

\* Of the things of a resource with one name, a query by the name finds all.
LEMMA OneNameFindsAll ==
  ASSUME BaseInv, Truthful, Names = {K8sName}, NEW name \in Names
  PROVE  Matches(name) = Live
<1>1. SMInv /\ RequestsNamed
  BY DEF BaseInv, BaseTypes, Truthful, SMInv
<1>2. \A i \in IDs : sm[i].alive => i \in Used /\ sm[i].spec.name = name
  BY <1>1 DEF SMInv, LiveIsRecorded, RequestsNamed, Used, FreeIDs
<1> QED
  BY <1>2 DEF Matches, Live

\* What SM has appears only by a creation.
LEMMA LiveChanges ==
  ASSUME NEW c, Asked(c)
  PROVE  \/ Live' \subseteq Live
         \/ w.pc = c.create /\ \E i \in FreeIDs : Live' = Live \cup {i}
<1>1. SMInv /\ NoRequest \in Requests /\ "SUCCEEDED" \in {"SUCCEEDED", "IN_PROGRESS"}
  BY AskedWith DEF NoRequest, Requests
<1>2. CASE UNCHANGED sm
  BY <1>2 DEF Live
<1>3. ASSUME NEW i \in FreeIDs, NEW spec \in Requests, NEW state \in {"SUCCEEDED", "IN_PROGRESS"},
             SMCreate(i, spec, state)
      PROVE  Live' = Live \cup {i}
  <2>1. i \in IDs
    BY DEF FreeIDs
  <2> QED
    BY <1>1, <1>3, <2>1, LiveAfter
<1>4. ASSUME NEW i \in Used, NEW spec \in Requests, NEW state \in {"SUCCEEDED", "IN_PROGRESS"},
             SMPatch(i, spec, state)
      PROVE  Live' \subseteq Live
  <2>1. i \in IDs
    BY DEF Used
  <2> QED
    BY <1>1, <1>4, <2>1, LiveAfter
<1>5. ASSUME NEW i \in Used, SMDeleteNow(i) \/ SMDeleteAsync(i) \/ SMFinish(i)
      PROVE  Live' \subseteq Live
  <2>1. i \in IDs
    BY DEF Used
  <2>2. Live' \in {Live, Live \ {i}}
    BY <1>1, <1>5, <2>1, LiveAfter
  <2> QED
    BY <2>2
<1> QED
  BY <1>2, <1>3, <1>4, <1>5, AskedWith

\* An id is used by a creation alone.
LEMMA UsedChanges ==
  ASSUME NEW c, Asked(c)
  PROVE  \/ Used' \subseteq Used
         \/ w.pc = c.create /\ \E i \in FreeIDs : Used' \subseteq Used \cup {i}
<1>1. SMInv /\ sm \in [IDs -> Things]
  BY AskedWith
<1>2. CASE UNCHANGED sm
  BY <1>2 DEF Used, FreeIDs
<1>3. ASSUME NEW i \in FreeIDs, NEW spec \in Requests, NEW state \in {"SUCCEEDED", "IN_PROGRESS"},
             SMCreate(i, spec, state)
      PROVE  Used' \subseteq Used \cup {i}
  <2>1. i \in IDs
    BY DEF FreeIDs
  <2> QED
    BY <1>1, <1>3, <2>1, RequestAdvances, RecordsStay
<1>4. ASSUME NEW i \in Used, Advanced(i) PROVE Used' \subseteq Used
  <2>1. i \in IDs
    BY DEF Used
  <2> QED
    BY <1>1, <1>4, <2>1, RecordsStay
<1>5. ASSUME NEW i \in Used, NEW spec \in Requests, NEW state \in {"SUCCEEDED", "IN_PROGRESS"},
             SMPatch(i, spec, state) \/ SMDeleteNow(i) \/ SMDeleteAsync(i)
      PROVE  Advanced(i)
  <2>1. i \in IDs
    BY DEF Used
  <2> QED
    BY <1>1, <1>5, <2>1, RequestAdvances
<1>6. ASSUME NEW i \in Used, SMDeleteNow(i) \/ SMDeleteAsync(i) PROVE Advanced(i)
  <2>1. NoRequest \in Requests /\ "SUCCEEDED" \in {"SUCCEEDED", "IN_PROGRESS"}
    BY DEF NoRequest, Requests
  <2> QED
    BY <1>5, <1>6, <2>1
<1>7. ASSUME NEW i \in Used, SMFinish(i) PROVE Advanced(i)
  <2>1. i \in IDs
    BY DEF Used
  <2> QED
    BY <1>1, <1>7, <2>1, FinishAdvances
<1> QED
  BY <1>2, <1>3, <1>4, <1>5, <1>6, <1>7, AskedWith

\* SM is rid of a thing, or about to be, only after the operator asked for it.
LEMMA EndIsAsked ==
  ASSUME NEW c, Asked(c), DropsFailed = FALSE, Dismantled'
  PROVE  Dismantled \/ w.pc = c.remove
<1>1. SMInv
  BY AskedWith
<1>2. CASE UNCHANGED sm
  BY <1>2 DEF Dismantled, Used, FreeIDs, Ops
<1>3. ASSUME NEW i \in IDs, NEW spec \in Requests, NEW state \in {"SUCCEEDED", "IN_PROGRESS"},
             SMCreate(i, spec, state) \/ SMPatch(i, spec, state) \/ SMFinish(i)
      PROVE  Dismantled
  BY <1>1, <1>3, DismantledBefore
<1>4. ASSUME NEW i \in IDs, SMFinish(i) PROVE Dismantled
  <2>1. NoRequest \in Requests /\ "SUCCEEDED" \in {"SUCCEEDED", "IN_PROGRESS"}
    BY DEF NoRequest, Requests
  <2> QED
    BY <1>3, <1>4, <2>1
<1>5. FreeIDs \subseteq IDs /\ Used \subseteq IDs
  BY DEF FreeIDs, Used
<1> QED
  BY <1>2, <1>3, <1>4, <1>5, AskedWith

------------------------------------------------------------------------------
(* One incarnation: the copies and the versions of the resource *)

\* A step makes at most two new copies: the resource, and the worker's.
LEMMA NewCopies == BaseInv /\ Kinds => Copies' \subseteq Copies \cup {apiObj', w'.obj}
<1> SUFFICES ASSUME BaseInv, Kinds PROVE Copies' \subseteq Copies \cup {apiObj', w'.obj}
  OBVIOUS
<1>1. BaseInv /\ watch \in Seq(Objects)
  BY DEF BaseInv, BaseTypes
<1>2. ASSUME NEW p \in Objects, Write(p), UNCHANGED cache
      PROVE  Copies' \subseteq Copies \cup {apiObj', w'.obj}
  BY <1>1, <1>2, WriteFollows DEF BaseInv, Copies
<1>3. CASE Deliver
  BY <1>1, <1>3 DEF Deliver, Copies
<1>4. CASE Undisturbed \/ Restart
  BY <1>4 DEF Undisturbed, Restart, Copies
<1> QED
  BY <1>2, <1>3, <1>4 DEF Kinds, Rewritten, Begun

\* A step shows the informer no version but those there were and the one it writes.
LEMMA NewVersions ==
  ASSUME BaseInv, Kinds, NEW k \in 0..Len(watch')
  PROVE  \/ \E j \in 0..Len(watch) : Version(k)' = Version(j)
         \/ Version(k)' = apiObj' /\ (Rewritten \/ Begun)
<1> SUFFICES ASSUME NEW n \in Nat, n = Len(watch)
             PROVE  \/ \E j \in 0..Len(watch) : Version(k)' = Version(j)
                    \/ Version(k)' = apiObj' /\ (Rewritten \/ Begun)
  BY DEF BaseInv, BaseTypes
<1>1. CASE Undisturbed
  BY <1>1 DEF Undisturbed, Version
<1>2. ASSUME NEW p \in Objects, Write(p), UNCHANGED cache
      PROVE  Version(k)' = apiObj' \/ \E j \in 0..Len(watch) : Version(k)' = Version(j)
  <2>1. /\ apiObj' = p
        /\ \/ watch' = watch
           \/ /\ Len(watch') = n + 1
              /\ Version(n + 1)' = p
              /\ \A j \in 0..n : Version(j)' = Version(j)
    BY <1>2, WriteAppends
  <2>2. CASE watch' = watch
    BY <1>2, <2>2 DEF Version
  <2>3. CASE /\ Len(watch') = n + 1 /\ Version(n + 1)' = p
             /\ \A j \in 0..n : Version(j)' = Version(j)
    <3>1. CASE k = n + 1
      BY <2>1, <2>3, <3>1
    <3>2. CASE k \in 0..n
      BY <2>3, <3>2
    <3> QED
      BY <2>3, <3>1, <3>2
  <2> QED
    BY <2>1, <2>2, <2>3
<1>3. CASE Rewritten \/ Begun
  BY <1>2, <1>3 DEF Rewritten, Begun
<1>4. CASE Deliver
  <2>1. n > 0 /\ Len(watch') = n - 1 /\ \A j \in 0..n-1 : Version(j)' = Version(j + 1)
    BY <1>4, DeliverShifts
  <2>2. k \in 0..n-1 /\ k + 1 \in 0..n
    BY <2>1
  <2> QED
    BY <2>1, <2>2
<1>5. CASE Restart
  <2>1. watch' = <<>> /\ cache' = apiObj
    BY <1>5 DEF Restart
  <2>2. k = 0 /\ Version(0)' = apiObj
    BY <2>1 DEF Version
  <2>3. apiObj = Version(n)
    BY DEF BaseInv, CacheFollows, Version, BaseTypes
  <2> QED
    BY <2>2, <2>3
<1> QED
  BY <1>1, <1>3, <1>4, <1>5 DEF Kinds

\* The resource is the last version.
LEMMA LastVersion ==
  ASSUME BaseInv
  PROVE  /\ \E n \in 0..Len(watch) : n = Len(watch) /\ apiObj = Version(n)
         /\ Version(0) = cache /\ 0 \in 0..Len(watch)
BY DEF BaseInv, CacheFollows, Version, BaseTypes

\* With one incarnation, a resource that is to go does go, and one that has gone is
\* not seen again.
LEMMA EndStays ==
  ASSUME BaseInv, Kinds, MaxLives <= 1
  PROVE  (Doomed => Doomed') /\ (Vanished => Vanished')
<1>1. apiObj \in Objects /\ lives \in Nat /\ MaxLives \in Nat
  BY ConstantsAssumption DEF BaseInv, BaseTypes
<1>2. ASSUME lives > 0 PROVE lives' > 0 /\ ~Begun
  BY <1>1, <1>2 DEF Kinds, Undisturbed, Rewritten, Begun, Deliver, Restart
<1>3. ASSUME Rewritten PROVE Exists(apiObj') => Exists(apiObj) /\ (apiObj.deleting => apiObj'.deleting)
  BY <1>3 DEF Rewritten, Write, Exists
<1>4. ASSUME Doomed PROVE Doomed'
  <2>1. lives > 0 /\ \A j \in 0..Len(watch) : Exists(Version(j)) => Version(j).deleting
    BY <1>4 DEF Doomed
  <2>2. Exists(apiObj) => apiObj.deleting
    BY <2>1, LastVersion
  <2>3. ASSUME NEW k \in 0..Len(watch'), Exists(Version(k)') PROVE Version(k)'.deleting
    BY <1>2, <1>3, <2>1, <2>2, <2>3, NewVersions
  <2> QED
    BY <1>2, <2>1, <2>3 DEF Doomed
<1>5. ASSUME Vanished PROVE Vanished'
  <2>1. lives > 0 /\ \A j \in 0..Len(watch) : ~Exists(Version(j))
    BY <1>5 DEF Vanished
  <2>2. ~Exists(apiObj)
    BY <2>1, LastVersion
  <2>3. ASSUME NEW k \in 0..Len(watch') PROVE ~Exists(Version(k)')
    BY <1>2, <1>3, <2>1, <2>2, <2>3, NewVersions
  <2> QED
    BY <1>2, <2>1, <2>3 DEF Vanished
<1> QED
  BY <1>4, <1>5

\* A cached resource that is marked for deletion stands for all versions to come, and
\* so does a version that is not there, once the resource has been.
LEMMA CacheForetells ==
  ASSUME BaseInv, Backlog, MaxLives <= 1, Exists(cache)
  PROVE  /\ cache.deleting => Doomed
         /\ \A k, j \in 0..Len(watch) : k < j /\ ~Exists(Version(k)) => ~Exists(Version(j))
<1>1. lives \in Nat /\ MaxLives \in Nat /\ lives <= 1
  BY ConstantsAssumption DEF BaseInv, BaseTypes, Backlog
<1>2. ASSUME NEW k \in 0..Len(watch), Exists(Version(k))
      PROVE  Version(k).uid = 1 /\ lives = 1
  <2>1. Version(k).uid \in Nat /\ Version(k).uid <= lives
    BY VersionType
  <2> QED
    BY <1>1, <1>2, <2>1 DEF Exists
<1>3. Version(0) = cache /\ 0 \in 0..Len(watch) /\ Len(watch) \in Nat
  BY LastVersion DEF BaseInv, BaseTypes
<1>4. ASSUME NEW j \in 0..Len(watch), j > 0, Exists(Version(j))
      PROVE  /\ cache.deleting => Version(j).deleting
             /\ \A i \in 0..j : Exists(Version(i))
  <2>1. Version(0).uid = Version(j).uid
    BY <1>2, <1>3, <1>4
  <2> QED
    BY <1>3, <1>4, <2>1 DEF Backlog, InOrder
<1>5. ASSUME cache.deleting PROVE Doomed
  <2>1. lives > 0
    BY <1>2, <1>3
  <2>2. ASSUME NEW k \in 0..Len(watch), Exists(Version(k)) PROVE Version(k).deleting
    <3>1. CASE k = 0
      BY <1>3, <1>5, <3>1
    <3>2. CASE k > 0
      BY <1>4, <1>5, <2>2, <3>2
    <3> QED
      BY <1>3, <3>1, <3>2
  <2> QED
    BY <2>1, <2>2 DEF Doomed
<1>6. ASSUME NEW k \in 0..Len(watch), NEW j \in 0..Len(watch), k < j, ~Exists(Version(k))
      PROVE  ~Exists(Version(j))
  <2>1. j > 0 /\ k \in 0..j
    BY <1>3, <1>6
  <2> QED
    BY <1>4, <1>6, <2>1
<1> QED
  BY <1>5, <1>6

\* When the informer's copy goes, nothing comes after it.
LEMMA LastSeen ==
  ASSUME BaseInv, Backlog, MaxLives <= 1, Deliver, Exists(cache), ~Exists(cache')
  PROVE  Vanished'
<1> SUFFICES ASSUME NEW n \in Nat, n = Len(watch) PROVE Vanished'
  BY DEF BaseInv, BaseTypes
<1>1. n > 0 /\ Len(watch') = n - 1 /\ \A j \in 0..n-1 : Version(j)' = Version(j + 1)
  BY DeliverShifts
<1>2. lives' = lives /\ lives \in Nat /\ cache.uid \in Nat /\ cache.uid <= lives
  BY VersionType, LastVersion DEF Deliver, BaseInv, BaseTypes
<1>3. lives' > 0
  BY <1>2 DEF Exists
<1>4. ~Exists(Version(1)) /\ 1 \in 0..n
  <2>1. Version(0)' = cache'
    BY DEF Version
  <2>2. Version(0)' = Version(1)
    BY <1>1
  <2> QED
    BY <1>1, <2>1, <2>2
<1>5. ASSUME NEW k \in 0..n, k >= 1 PROVE ~Exists(Version(k))
  <2>1. CASE k = 1
    BY <1>4, <2>1
  <2>2. CASE k > 1
    BY <1>4, <2>2, CacheForetells
  <2> QED
    BY <1>5, <2>1, <2>2
<1>6. ASSUME NEW k \in 0..Len(watch') PROVE ~Exists(Version(k)')
  <2>1. k \in 0..n-1 /\ k + 1 \in 0..n /\ k + 1 >= 1
    BY <1>1
  <2> QED
    BY <1>1, <1>5, <2>1
<1> QED
  BY <1>3, <1>6 DEF Vanished

------------------------------------------------------------------------------
(* One incarnation: where the worker comes from *)

RemovedOne == \E i \in Used : ~sm[i].alive /\ \E d \in Ops(i) : d.type = "DELETE"

\* What the worker is about to do has a reason.
Reasoned(c) ==
  /\ Exists(w'.obj) => Exists(w.obj) \/ Exists(cache)
  /\ w'.obj.deleting => w.obj.deleting \/ cache.deleting
  /\ Creating(c.creates)' => Creating(c.creates) \/ (Exists(cache) /\ ~cache.deleting)
  /\ w'.pc \in c.creates => \/ w.pc \in c.creates
                            \/ Exists(cache) /\ ~cache.deleting /\ cache.finalizer
                            \/ Setting /\ (w.fresh \/ Exists(cache))
  /\ Setting' => \/ Setting /\ (w'.fresh => w.fresh \/ Exists(cache))
                 \/ Guarded'
                 \/ Exists(w.obj) /\ ~Exists(cache) /\ w'.fresh = FALSE
  /\ Removing(c.removes)' => \/ Removing(c.removes)
                             \/ UNCHANGED sm /\ RemovedOne
                             \/ UNCHANGED sm /\ w.obj.deleting /\ Live = {}
                             \/ w.pc = c.remove /\ SMDeleteNow(w.obj.status.id)

\* Neither a creation nor a removal is under way, and none begins.
Beside(c, x) ==
  /\ x.pc \notin {"addFinalizer"} \cup c.creates \cup c.removes
  /\ x.pc = "status" => x.next \notin {"init", "finalize"}

\* A worker that does something else needs no reason but for its copy.
LEMMA BesideIsReasoned ==
  ASSUME NEW c, Beside(c, w'), Exists(w'.obj) => Exists(w.obj) \/ Exists(cache),
         w'.obj.deleting => w.obj.deleting \/ cache.deleting
  PROVE  Reasoned(c)
BY DEF Reasoned, Beside, Creating, Setting, Removing

\* A worker that gives up has no reason to give.
LEMMA IdleIsReasoned ==
  ASSUME NEW c, WellFormed(c), w' = Idle
  PROVE  Reasoned(c) /\ Beside(c, Idle)
BY DEF Reasoned, WellFormed, Beside, Idle, NoObject, Exists, Creating, Setting, Removing

\* One that goes on where it is has the same.
LEMMA StayingIsReasoned ==
  ASSUME NEW c, w'.pc = w.pc, w'.next = w.next, w'.fresh => w.fresh \/ Exists(cache),
         w'.obj.uid = w.obj.uid \/ w'.obj.uid = cache.uid,
         w'.obj.deleting => w.obj.deleting \/ cache.deleting
  PROVE  Reasoned(c)
  BY DEF Reasoned, Exists, Creating, Setting, Removing

\* So has one that goes on creating with what it wrote, or with its own copy.
LEMMA CreatingIsReasoned ==
  ASSUME NEW c, WellFormed(c), w.pc \in c.creates, w'.pc \in c.creates,
         w'.obj.uid = w.obj.uid, w'.obj.deleting = w.obj.deleting
  PROVE  Reasoned(c)
BY DEF Reasoned, WellFormed, Exists, Creating, Setting, Removing

\* So has one that goes on removing.
LEMMA RemovingIsReasoned ==
  ASSUME NEW c, WellFormed(c), Removing(c.removes), w'.pc \in c.removes,
         w'.obj.uid = w.obj.uid, w'.obj.deleting = w.obj.deleting
  PROVE  Reasoned(c)
BY DEF Reasoned, WellFormed, Exists, Creating, Setting, Removing

\* Reconcile begins to create only what is to stay, and only behind the finalizer.
LEMMA StartingIsReasoned ==
  ASSUME NEW c, WellFormed(c), Exists(cache),
         w'.obj.uid = cache.uid, w'.obj.deleting = cache.deleting,
         \/ Beside(c, w')
         \/ w'.pc = "addFinalizer" /\ ~cache.deleting
         \/ w'.pc \in c.creates /\ ~cache.deleting /\ cache.finalizer
  PROVE  Reasoned(c)
<1>1. CASE Beside(c, w')
  BY <1>1, BesideIsReasoned
<1>2. CASE w'.pc = "addFinalizer" /\ ~cache.deleting
  BY <1>2 DEF Reasoned, WellFormed, Exists, Creating, Setting, Removing
<1>3. CASE w'.pc \in c.creates /\ ~cache.deleting /\ cache.finalizer
  BY <1>3 DEF Reasoned, WellFormed, Exists, Creating, Setting, Removing
<1> QED
  BY <1>1, <1>2, <1>3

\* A worker that follows a copy is idle or has that resource.
LEMMA FollowersResource ==
  ASSUME NEW o \in Objects, NEW x, NEW f, Follows(x, o, f)
  PROVE  \/ x = Idle
         \/ x.fresh = f /\ x.obj.uid = o.uid /\ x.obj.deleting = o.deleting
<1>1. ASSUME Restates(x.obj, o) PROVE x.obj.uid = o.uid /\ x.obj.deleting = o.deleting
  <2>1. x.obj \in Objects /\ x.obj = [o EXCEPT !.status = x.obj.status]
    BY <1>1 DEF Restates
  <2> QED
    BY <2>1 DEF Objects
<1> QED
  BY <1>1 DEF Follows

\* What goes on after a status update has been reasoned before.
LEMMA ResumptionIsReasoned ==
  ASSUME NEW c, WellFormed(c), NEW o, w.pc = "status", w.fresh \/ Exists(cache),
         w' = Idle \/ (w'.obj.uid = o.uid /\ w'.obj.deleting = o.deleting),
         o.uid = w.obj.uid \/ o.uid = cache.uid,
         o.deleting => w.obj.deleting \/ cache.deleting,
         \/ Beside(c, w')
         \/ Setting /\ w'.pc \in c.creates
         \/ Removing(c.removes) /\ w'.pc \in c.removes
  PROVE  Reasoned(c)
<1>1. CASE w' = Idle
  BY <1>1, IdleIsReasoned
<1>2. CASE Beside(c, w') /\ w' # Idle
  BY <1>2, BesideIsReasoned DEF Exists
<1>3. CASE /\ Setting /\ w'.pc \in c.creates
           /\ w'.obj.uid = o.uid /\ w'.obj.deleting = o.deleting
  BY <1>3 DEF Reasoned, WellFormed, Exists, Creating, Setting, Removing
<1>4. CASE /\ Removing(c.removes) /\ w'.pc \in c.removes
           /\ w'.obj.uid = o.uid /\ w'.obj.deleting = o.deleting
  BY <1>4 DEF Reasoned, WellFormed, Exists, Creating, Setting, Removing
<1> QED
  BY <1>1, <1>2, <1>3, <1>4

\* addFinalizer: only a copy that had none, and is not being deleted, gets one.
LEMMA AddFinalizerIsReasoned ==
  ASSUME NEW c, WellFormed(c), BaseInv, Held, AddFinalizer
  PROVE  Reasoned(c)
<1>1. /\ UNCHANGED <<cache, sm, lives>> /\ w.pc = "addFinalizer"
      /\ w.obj \in Objects /\ apiObj \in Objects /\ cache \in Objects
      /\ Exists(w.obj) /\ CacheFollows
      /\ w.fresh => w.obj = [apiObj EXCEPT !.status = w.obj.status]
  BY AddFinalizerOutcome DEF BaseInv, BaseTypes, Held
<1>2. ASSUME NEW o \in Objects, Restates(w'.obj, [o EXCEPT !.finalizer = TRUE])
      PROVE  w'.obj.uid = o.uid /\ w'.obj.deleting = o.deleting
  <2> DEFINE p == [o EXCEPT !.finalizer = TRUE]
  <2>1. p \in Objects /\ p.uid = o.uid /\ p.deleting = o.deleting
    BY DEF Objects
  <2>2. w'.obj = [p EXCEPT !.status = w'.obj.status]
    BY <1>2 DEF Restates
  <2> HIDE DEF p
  <2> QED
    BY <2>1, <2>2 DEF Objects
<1>3. CASE w' = Idle
  BY <1>3, IdleIsReasoned
<1>4. CASE /\ w'.pc = "status" /\ w'.next = "init"
           /\ apiObj' = [apiObj EXCEPT !.finalizer = TRUE] /\ Restates(w'.obj, apiObj')
           /\ Exists(apiObj) /\ (w.fresh \/ (Exists(cache) /\ watch = <<>>))
  <2>1. w'.obj.uid = apiObj.uid /\ w'.obj.deleting = apiObj.deleting
    BY <1>1, <1>2, <1>4
  <2>2. \/ apiObj.uid = w.obj.uid /\ apiObj.deleting = w.obj.deleting
        \/ apiObj = cache
    BY <1>1, <1>4, CacheIsCurrent DEF Objects
  <2>3. Guarded'
    BY <1>1, <1>4 DEF Guarded, Exists, Objects
  <2> QED
    BY <1>1, <1>4, <2>1, <2>2, <2>3 DEF Reasoned, WellFormed, Exists, Creating, Setting, Removing
<1>5. CASE /\ w'.pc = "status" /\ w'.next = "init" /\ ~Exists(cache) /\ w'.fresh = FALSE
           /\ Restates(w'.obj, [w.obj EXCEPT !.finalizer = TRUE])
  <2>1. w'.obj.uid = w.obj.uid /\ w'.obj.deleting = w.obj.deleting
    BY <1>1, <1>2, <1>5
  <2> QED
    BY <1>1, <1>5, <2>1 DEF Reasoned, WellFormed, Exists, Creating, Setting, Removing
<1> QED
  BY <1>3, <1>4, <1>5, AddFinalizerOutcome

\* removeFinalizer: after it the worker has nothing to do but to write the status.
LEMMA RemoveFinalizerIsReasoned ==
  ASSUME NEW c, WellFormed(c), BaseInv, Held, RemoveFinalizer
  PROVE  Reasoned(c)
<1>1. /\ w.obj \in Objects /\ apiObj \in Objects /\ cache \in Objects
      /\ w.fresh => w.obj = [apiObj EXCEPT !.status = w.obj.status]
      /\ Exists(w.obj)
  BY RemoveFinalizerOutcome DEF BaseInv, BaseTypes, Held
<1>2. CASE w' = Idle
  BY <1>2, IdleIsReasoned
<1>3. ASSUME NEW o \in {w.obj, cache, apiObj}, NEW b \in BOOLEAN, w'.pc = "status",
             w'.next = "done", w'.obj = ClearOp([o EXCEPT !.finalizer = b]),
             o = w.obj \/ o = cache \/ w.fresh
      PROVE  Reasoned(c)
  <2>1. w'.obj.uid = o.uid /\ w'.obj.deleting = o.deleting
    <3> DEFINE p == [o EXCEPT !.finalizer = b]
    <3>1. p \in Objects /\ p.uid = o.uid /\ p.deleting = o.deleting
      BY <1>1 DEF Objects
    <3> HIDE DEF p
    <3>2. ClearOp(p).uid = p.uid /\ ClearOp(p).deleting = p.deleting
      BY <3>1 DEF ClearOp, Objects
    <3> QED
      BY <1>3, <3>1, <3>2 DEF p
  <2>2. w.fresh => apiObj.uid = w.obj.uid /\ apiObj.deleting = w.obj.deleting
    BY <1>1 DEF Objects
  <2> QED
    BY <1>1, <1>3, <2>1, <2>2 DEF Reasoned, WellFormed, Exists, Creating, Setting, Removing
<1> QED
  BY <1>2, <1>3, RemoveFinalizerOutcome

------------------------------------------------------------------------------
(* One incarnation: what a step may do to the resource *)

\* A step leaves the resource what it is but for its spec and its status, or is one
\* of those that do not.
Touched ==
  \/ /\ apiObj'.uid = apiObj.uid /\ apiObj'.deleting = apiObj.deleting
     /\ apiObj'.finalizer = apiObj.finalizer
  \/ UserDelete
  \/ \E name \in Names, s \in SecretNames \cup {NoName} : UserCreate(name, s)
  \/ AddFinalizer
  \/ RemoveFinalizer

\* To edit it is to leave it what it is.
LEMMA EditTouches ==
  ASSUME BaseInv, NEW name, NEW s, UserEdit(name, s)
  PROVE  Touched
<1>1. apiObj' = [apiObj EXCEPT !.gen = @ + 1, !.name = name, !.secretName = s]
  BY DEF UserEdit, Write
<1> QED
  BY <1>1 DEF Touched, BaseInv, BaseTypes, Objects

\* So it is to write its status.
LEMMA StatusTouches ==
  ASSUME BaseInv, NEW st, apiObj' = [apiObj EXCEPT !.status = st]
  PROVE  Touched
BY DEF Touched, BaseInv, BaseTypes, Objects

\* The finalizer is taken off the resource by removeFinalizer alone.
LEMMA FinalizerStays ==
  ASSUME BaseInv, Held, Touched, Guarded
  PROVE  Guarded' \/ RemoveFinalizer
<1>1. apiObj \in Objects /\ Exists(apiObj) /\ apiObj.finalizer
  BY DEF BaseInv, BaseTypes, Guarded
<1>2. CASE /\ apiObj'.uid = apiObj.uid /\ apiObj'.deleting = apiObj.deleting
           /\ apiObj'.finalizer = apiObj.finalizer
  BY <1>1, <1>2 DEF Guarded, Exists
<1>3. CASE UserDelete
  <2>1. apiObj' = [apiObj EXCEPT !.deleting = TRUE]
    BY <1>1, <1>3 DEF UserDelete, Write
  <2> QED
    BY <1>1, <2>1 DEF Guarded, Exists, Objects
<1>4. \A name, s : ~UserCreate(name, s)
  BY <1>1 DEF UserCreate
<1>5. CASE AddFinalizer
  <2>1. UNCHANGED apiObj \/ apiObj' = [apiObj EXCEPT !.finalizer = TRUE]
    BY <1>5, AddFinalizerOutcome
  <2> QED
    BY <1>1, <2>1 DEF Guarded, Exists, Objects
<1> QED
  BY <1>2, <1>3, <1>4, <1>5 DEF Touched

------------------------------------------------------------------------------
(* One incarnation: the finalizer and the thing in SM *)

\* What the invariant says of a thing that is gone, or going.
LEMMA NothingAfterTheEnd ==
  ASSUME BaseInv, NEW c, WellFormed(c), OneLife(c.creates, c.removes),
         w.pc = c.create => Live = {}
  PROVE  /\ Live \subseteq Used
         /\ w.pc = c.create => Used = {}
         /\ Dismantled => ~(Exists(cache) /\ ~cache.deleting)
         /\ RemovedOne => Live = {} /\ Doomed
         /\ Vanished => ~Exists(cache) /\ ~Exists(apiObj)
         /\ \A i, j \in Live : i = j
<1>1. LiveIsRecorded /\ \A i, j \in Used : i = j
  BY DEF BaseInv, OneLife
<1>2. Live \subseteq Used
  BY <1>1 DEF LiveIsRecorded, Live, Used, FreeIDs
<1>3. Dismantled => Doomed /\ ~Creating(c.creates)
  BY DEF OneLife
<1>4. w.pc = c.create => Used = {}
  <2> SUFFICES ASSUME w.pc = c.create, NEW i \in Used PROVE FALSE
    OBVIOUS
  <2>1. Creating(c.creates) /\ Live = {}
    BY DEF Creating, WellFormed
  <2>2. ~sm[i].alive
    BY <2>1 DEF Live, Used
  <2> QED
    BY <1>3, <2>1, <2>2 DEF Dismantled
<1>5. Dismantled => ~(Exists(cache) /\ ~cache.deleting)
  BY <1>3, LastVersion DEF Doomed
<1>6. RemovedOne => Live = {} /\ Doomed
  <2> SUFFICES ASSUME NEW i \in Used, ~sm[i].alive, NEW d \in Ops(i), d.type = "DELETE"
               PROVE  Live = {} /\ Doomed
    BY DEF RemovedOne
  <2>1. Dismantled
    BY DEF Dismantled
  <2>2. \A j \in Live : j = i
    BY <1>1, <1>2
  <2>3. Live = {}
    BY <2>2 DEF Live
  <2> QED
    BY <1>3, <2>1, <2>3
<1>7. Vanished => ~Exists(cache) /\ ~Exists(apiObj)
  BY LastVersion DEF Vanished
<1> QED
  BY <1>1, <1>2, <1>4, <1>5, <1>6, <1>7

\* One step of a controller that makes the calls c, with all that is known of it.
OneStep(c) ==
  /\ MaxLives <= 1 /\ DropsFailed = FALSE
  /\ Asked(c) /\ Backlog /\ OneLife(c.creates, c.removes) /\ (w.pc = c.create => Live = {})
  /\ Kinds /\ Touched /\ Reasoned(c)
  /\ BaseInv' /\ w'.fresh \in BOOLEAN

\* What is known before and after such a step.
LEMMA OneStepFacts ==
  ASSUME NEW c, OneStep(c)
  PROVE  /\ BaseInv /\ Truthful /\ Held /\ WellFormed(c) /\ MeansIt(c) /\ Asked(c)
         /\ Backlog /\ OneLife(c.creates, c.removes) /\ Kinds /\ Touched /\ Reasoned(c)
         /\ w.pc = c.create => Live = {}
         /\ MaxLives <= 1 /\ DropsFailed = FALSE
         /\ Doomed => Doomed'
         /\ Vanished => Vanished'
         /\ Guarded => Guarded' \/ RemoveFinalizer
         /\ Exists(cache) /\ cache.deleting => Doomed
         /\ w.obj.deleting => Doomed
         /\ w.pc \in c.creates \/ Live # {} => Guarded
         /\ BaseInv' /\ w'.fresh \in BOOLEAN
<1>1. /\ BaseInv /\ Truthful /\ Held /\ WellFormed(c) /\ MeansIt(c) /\ Asked(c)
      /\ Backlog /\ OneLife(c.creates, c.removes) /\ Kinds /\ Touched /\ Reasoned(c)
      /\ w.pc = c.create => Live = {}
      /\ MaxLives <= 1 /\ DropsFailed = FALSE
      /\ BaseInv' /\ w'.fresh \in BOOLEAN
  BY DEF OneStep, Asked
<1>2. (w.obj.deleting => Doomed) /\ (w.pc \in c.creates \/ Live # {} => Guarded)
  BY <1>1 DEF OneLife
<1> QED
  BY <1>1, <1>2, EndStays, FinalizerStays, CacheForetells

\* Only one id is ever used.
LEMMA OneIdUsed ==
  ASSUME NEW c, OneStep(c)
  PROVE  \A i, j \in Used' : i = j
<1>1. \A i, j \in Used : i = j
  BY OneStepFacts DEF OneLife
<1>2. w.pc = c.create => Used = {}
  BY OneStepFacts, NothingAfterTheEnd
<1>3. Used' \subseteq Used \/ (w.pc = c.create /\ \E i \in FreeIDs : Used' \subseteq Used \cup {i})
  BY OneStepFacts, UsedChanges
<1> QED
  BY <1>1, <1>2, <1>3

\* Nothing is created any more when SM is rid of the thing or about to be.
LEMMA EndIsTheEnd ==
  ASSUME NEW c, OneStep(c), Dismantled'
  PROVE  Doomed' /\ ~Creating(c.creates)'
<1>1. /\ Reasoned(c)
      /\ Doomed => Doomed'
      /\ w.obj.deleting => Doomed
      /\ Dismantled => Doomed /\ ~Creating(c.creates) /\ ~(Exists(cache) /\ ~cache.deleting)
  BY OneStepFacts, NothingAfterTheEnd DEF OneLife
<1>2. CASE Dismantled
  BY <1>1, <1>2 DEF Reasoned
<1>3. CASE w.pc = c.remove
  <2>1. w.obj.deleting /\ ~Creating(c.creates)
    BY <1>3, OneStepFacts DEF MeansIt, WellFormed, Creating, Setting
  <2>2. Doomed /\ \A k \in 0..Len(watch) : Exists(Version(k)) => Version(k).deleting
    BY <1>1, <2>1 DEF Doomed
  <2>3. ~(Exists(cache) /\ ~cache.deleting)
    BY <2>2, OneStepFacts, LastVersion
  <2> QED
    BY <1>1, <2>1, <2>2, <2>3 DEF Reasoned
<1> QED
  BY <1>2, <1>3, OneStepFacts, EndIsAsked

\* A copy that is marked for deletion tells that all versions to come are.
LEMMA DeletionForetold ==
  ASSUME NEW c, OneStep(c), w'.obj.deleting
  PROVE  Doomed'
<1>1. w.obj.deleting \/ cache.deleting
  BY OneStepFacts DEF Reasoned
<1>2. cache.deleting => Exists(cache)
  BY OneStepFacts DEF BaseInv, DeletionIsFinal, Copies
<1> QED
  BY <1>1, <1>2, OneStepFacts

\* A worker whose resource has gone from the cache will not see it again.
LEMMA GoneForGood ==
  ASSUME NEW c, OneStep(c), Exists(w'.obj), ~Exists(cache')
  PROVE  Vanished'
<1>1. /\ BaseInv /\ Backlog /\ MaxLives <= 1 /\ Kinds
      /\ Exists(w.obj) \/ Exists(cache)
      /\ Exists(w.obj) /\ ~Exists(cache) => Vanished'
  BY OneStepFacts DEF Reasoned, OneLife
<1>2. CASE ~Exists(cache)
  BY <1>1, <1>2
<1>3. CASE Exists(cache)
  <2>1. cache' # cache
    BY <1>3
  <2>2. Deliver \/ Restart
    BY <1>1, <2>1 DEF Kinds, Undisturbed, Rewritten, Begun
  <2>3. ~Restart
    BY DEF Restart, Idle, Exists, NoObject
  <2> QED
    BY <1>1, <1>3, <2>2, <2>3, LastSeen
<1> QED
  BY <1>2, <1>3

\* The finalizer goes only when SM has nothing and nothing is to come.
LEMMA RemovalIsTheEnd ==
  ASSUME NEW c, OneStep(c), Removing(c.removes)'
  PROVE  Live' = {} /\ Doomed'
<1>1. /\ Asked(c) /\ Reasoned(c) /\ WellFormed(c)
      /\ Doomed => Doomed'
      /\ w.obj.deleting => Doomed
      /\ Removing(c.removes) => Live = {} /\ Doomed
      /\ RemovedOne => Live = {} /\ Doomed
      /\ Live \subseteq Used /\ \A i, j \in Used : i = j
  BY OneStepFacts, NothingAfterTheEnd DEF OneLife
<1>2. UNCHANGED sm => Live' = Live
  BY DEF Live
<1>3. CASE Removing(c.removes)
  <2>1. Live = {} /\ Doomed /\ w.pc # c.create
    BY <1>1, <1>3 DEF Removing, WellFormed
  <2> QED
    BY <1>1, <2>1, LiveChanges
<1>4. CASE UNCHANGED sm /\ RemovedOne
  BY <1>1, <1>2, <1>4
<1>5. CASE UNCHANGED sm /\ w.obj.deleting /\ Live = {}
  BY <1>1, <1>2, <1>5
<1>6. CASE w.pc = c.remove /\ SMDeleteNow(w.obj.status.id)
  <2>1. /\ w.obj.deleting /\ w.obj.status.id \in Used /\ SMInv
        /\ NoRequest \in Requests /\ "SUCCEEDED" \in {"SUCCEEDED", "IN_PROGRESS"}
    BY <1>6, OneStepFacts, AskedByName DEF MeansIt, NoRequest, Requests
  <2>2. ASSUME NEW i \in Used, i = w.obj.status.id PROVE Live' = {}
    <3>1. i \in IDs
      BY DEF Used
    <3>2. Live' = Live \ {i}
      BY <1>6, <2>1, <2>2, <3>1, LiveAfter
    <3> QED
      BY <1>1, <2>2, <3>2
  <2> QED
    BY <1>1, <2>1, <2>2
<1> QED
  BY <1>1, <1>3, <1>4, <1>5, <1>6 DEF Reasoned

\* removeFinalizer runs only at the end.
LEMMA RemovalAtTheEnd ==
  ASSUME NEW c, OneStep(c), RemoveFinalizer
  PROVE  /\ Removing(c.removes) /\ w.pc \notin c.creates /\ ~Setting
         /\ Live = {} /\ Doomed /\ UNCHANGED sm
<1>1. w.pc = "removeFinalizer" /\ UNCHANGED sm
  BY OneStepFacts, RemoveFinalizerOutcome
<1>2. Removing(c.removes) /\ w.pc \notin c.creates /\ ~Setting
  BY <1>1, OneStepFacts DEF Removing, Setting, WellFormed
<1> QED
  BY <1>1, <1>2, OneStepFacts DEF OneLife

\* init goes on with a finalizer on the resource, or for a resource that has gone.
LEMMA SettingIsSafe ==
  ASSUME NEW c, OneStep(c), Setting'
  PROVE  Guarded' \/ (~w'.fresh /\ Vanished')
<1>1. CASE Setting /\ (w'.fresh => w.fresh \/ Exists(cache))
  <2>1. Guarded \/ (~w.fresh /\ Vanished)
    BY <1>1, OneStepFacts DEF OneLife
  <2>2. CASE Guarded
    BY <1>1, <2>2, OneStepFacts, RemovalAtTheEnd
  <2>3. CASE ~w.fresh /\ Vanished
    BY <1>1, <2>3, OneStepFacts, NothingAfterTheEnd
  <2> QED
    BY <2>1, <2>2, <2>3
<1>2. CASE Exists(w.obj) /\ ~Exists(cache) /\ w'.fresh = FALSE
  <2>1. Vanished
    BY <1>2, OneStepFacts DEF OneLife
  <2> QED
    BY <1>2, <2>1, OneStepFacts
<1> QED
  BY <1>1, <1>2, OneStepFacts DEF Reasoned

\* Whoever sees a finalizer on a resource that is to stay can rely on it.
LEMMA SeenFinalizerIsThere ==
  ASSUME NEW c, OneStep(c), NEW k \in 0..Len(watch'), Exists(Version(k)'),
         ~Version(k)'.deleting, Version(k)'.finalizer
  PROVE  Guarded'
<1>1. BaseInv /\ Kinds /\ OneLife(c.creates, c.removes)
  BY OneStepFacts
<1>2. CASE Version(k)' = apiObj'
  BY <1>2 DEF Guarded
<1>3. ASSUME NEW j \in 0..Len(watch), Version(k)' = Version(j) PROVE Guarded'
  <2>1. Exists(Version(j)) /\ ~Version(j).deleting /\ Version(j).finalizer
    BY <1>3
  <2>2. Guarded
    BY <1>1, <2>1 DEF OneLife
  <2>3. ~Doomed
    BY <2>1 DEF Doomed
  <2> QED
    BY <2>2, <2>3, OneStepFacts, RemovalAtTheEnd
<1> QED
  BY <1>1, <1>2, <1>3, NewVersions

\* SM is asked for a thing only with the finalizer on the resource.
LEMMA FinalizerFirst ==
  ASSUME NEW c, OneStep(c), w'.pc \in c.creates
  PROVE  Guarded'
<1>1. Guarded /\ ~Removing(c.removes)
  <2>1. CASE w.pc \in c.creates
    BY <2>1, OneStepFacts DEF WellFormed, Removing
  <2>2. CASE Exists(cache) /\ ~cache.deleting /\ cache.finalizer
    <3>1. Version(0) = cache /\ 0 \in 0..Len(watch)
      BY OneStepFacts, LastVersion
    <3>2. Guarded
      BY <2>2, <3>1, OneStepFacts DEF OneLife
    <3>3. ~Doomed
      BY <2>2, <3>1 DEF Doomed
    <3> QED
      BY <3>2, <3>3, OneStepFacts DEF OneLife
  <2>3. CASE Setting /\ (w.fresh \/ Exists(cache))
    <3>1. Vanished => ~Exists(cache)
      BY OneStepFacts, NothingAfterTheEnd
    <3>2. Guarded
      BY <2>3, <3>1, OneStepFacts DEF OneLife
    <3> QED
      BY <2>3, <3>2, OneStepFacts DEF Setting, Removing, WellFormed
  <2> QED
    BY <2>1, <2>2, <2>3, OneStepFacts DEF Reasoned
<1> QED
  BY <1>1, OneStepFacts, RemovalAtTheEnd

\* As long as SM has the thing, the finalizer is on the resource.
LEMMA FinalizerLast ==
  ASSUME NEW c, OneStep(c), Live' # {}
  PROVE  Guarded'
<1>1. CASE Live # {}
  BY <1>1, OneStepFacts, RemovalAtTheEnd
<1>2. CASE w.pc = c.create
  <2>1. w.pc \in c.creates
    BY <1>2, OneStepFacts DEF WellFormed
  <2> QED
    BY <2>1, OneStepFacts, RemovalAtTheEnd
<1> QED
  BY <1>1, <1>2, OneStepFacts, LiveChanges

\* The order in which an incarnation comes and goes is kept.
LEMMA OneLifeKept ==
  ASSUME NEW c, OneStep(c)
  PROVE  OneLife(c.creates, c.removes)'
BY OneIdUsed, EndIsTheEnd, DeletionForetold, GoneForGood, RemovalIsTheEnd, SettingIsSafe,
   SeenFinalizerIsThere, FinalizerFirst, FinalizerLast DEF OneLife

\* It is, before the first incarnation.
LEMMA OneLifeToBegin ==
  ASSUME NEW c, WellFormed(c), apiObj = NoObject, cache = NoObject, watch = <<>>, w = Idle,
         sm = [i \in IDs |-> Unused]
  PROVE  OneLife(c.creates, c.removes) /\ Live = {}
<1>1. Live = {} /\ Used = {}
  BY DEF Unused, Live, Used, FreeIDs
<1>2. \A k \in 0..Len(watch) : Version(k) = NoObject
  BY DEF Version
<1>3. w.pc \notin c.creates \cup c.removes \cup {"status"}
  BY DEF WellFormed, Idle
<1> QED
  BY <1>1, <1>2, <1>3 DEF OneLife, Idle, NoObject, Exists, Dismantled, Removing, Setting

------------------------------------------------------------------------------
(* The promise of a managed resource *)

\* What a step may do to the resource and to SM, as ManagedResource sees it.
Kept ==
  \/ UNCHANGED <<Stage(apiObj), Live>>
  \/ Promise!Next

\* The stage of a resource is of its finalizer and its deletion.
LEMMA StageIs ==
  ASSUME NEW o \in Objects, NEW p, p.uid = o.uid, p.deleting = o.deleting,
         p.finalizer = o.finalizer
  PROVE  Stage(p) = Stage(o)
  BY DEF Stage, Exists

\* The user, or the garbage collector, deletes the resource ...
LEMMA DeleteKeepsPromise == BaseInv /\ UserDelete => Kept
<1> SUFFICES ASSUME BaseInv, UserDelete PROVE Kept
  OBVIOUS
<1>1. apiObj \in Objects /\ UNCHANGED sm /\ Live' = Live
  BY DEF BaseInv, BaseTypes, UserDelete, Live
<1>2. /\ Exists(apiObj) /\ ~apiObj.deleting
      /\ apiObj' = IF apiObj.finalizer THEN [apiObj EXCEPT !.deleting = TRUE] ELSE NoObject
  BY DEF UserDelete, Write
<1>3. IF apiObj.finalizer THEN Stage(apiObj) = "guarded" /\ Stage(apiObj') = "leaving"
                          ELSE Stage(apiObj) = "open" /\ Stage(apiObj') = "absent"
  BY <1>1, <1>2 DEF Stage, Exists, Objects, NoObject
<1> QED
  BY <1>1, <1>3 DEF Kept, Promise!Next, Promise!Delete

\* ... which the user created.
LEMMA CreateKeepsPromise ==
  ASSUME BaseInv, NEW name, NEW s, UserCreate(name, s)
  PROVE  Kept
<1>1. UNCHANGED sm /\ Live' = Live
  BY DEF UserCreate, Live
<1>2. /\ ~Exists(apiObj) /\ lives \in Nat
      /\ apiObj' = [NoObject EXCEPT !.uid = lives + 1, !.gen = 1, !.name = name,
                                    !.secretName = s]
  BY DEF UserCreate, Write, BaseInv, BaseTypes
<1>3. Stage(apiObj) = "absent" /\ Stage(apiObj') = "open"
  BY <1>2 DEF Stage, Exists, NoObject
<1> QED
  BY <1>1, <1>3 DEF Kept, Promise!Next, Promise!Create

\* init guards the resource.
LEMMA AddFinalizerKeepsPromise ==
  ASSUME BaseInv, Held, AddFinalizer
  PROVE  Kept
<1>1. apiObj \in Objects /\ UNCHANGED sm /\ Live' = Live
  BY AddFinalizerOutcome DEF BaseInv, BaseTypes, Live
<1>2. CASE UNCHANGED apiObj
  BY <1>1, <1>2 DEF Kept
<1>3. CASE apiObj' = [apiObj EXCEPT !.finalizer = TRUE]
  <2>1. \/ Stage(apiObj') = Stage(apiObj)
        \/ Stage(apiObj) = "open" /\ Stage(apiObj') = "guarded"
    BY <1>1, <1>3 DEF Stage, Exists, Objects
  <2> QED
    BY <1>1, <2>1 DEF Kept, Promise!Next, Promise!Guard
<1> QED
  BY <1>2, <1>3, AddFinalizerOutcome

\* removeFinalizer releases it, which SM has nothing for any more.
LEMMA RemoveFinalizerKeepsPromise ==
  ASSUME NEW c, OneStep(c), RemoveFinalizer
  PROVE  Kept
<1>1. BaseInv /\ Held /\ apiObj \in Objects /\ UNCHANGED sm /\ Live' = Live /\ Live = {} /\ Doomed
  BY OneStepFacts, RemovalAtTheEnd DEF BaseInv, BaseTypes, Live
<1>2. CASE UNCHANGED apiObj
  BY <1>1, <1>2 DEF Kept
<1>3. CASE apiObj' = Released(apiObj)
  <2>1. Exists(apiObj) => apiObj.deleting
    BY <1>1, LastVersion DEF Doomed
  <2>2. apiObj.deleting => Exists(apiObj)
    BY <1>1 DEF BaseInv, DeletionIsFinal, Copies
  <2>3. \/ Stage(apiObj) = "leaving" /\ Stage(apiObj') = "absent"
        \/ Stage(apiObj) = "absent" /\ Stage(apiObj') = "absent"
    BY <1>1, <1>3, <2>1, <2>2 DEF Released, Stage, Exists, Objects, NoObject
  <2> QED
    BY <1>1, <2>3 DEF Kept, Promise!Next, Promise!Release
<1> QED
  BY <1>1, <1>2, <1>3, RemoveFinalizerOutcome

\* SM gets a thing for a guarded resource, and loses it for one that is leaving.
LEMMA SMKeepsPromise ==
  ASSUME NEW c, OneStep(c), Stage(apiObj') = Stage(apiObj)
  PROVE  Kept
<1>1. /\ BaseInv' /\ Asked(c)
      /\ w.pc = c.create => Live = {}
      /\ w.pc = c.create \/ Live # {} => Guarded
      /\ \A i, j \in Live : i = j
      /\ Live \subseteq Used
  BY OneStepFacts, NothingAfterTheEnd DEF WellFormed
<1>2. Guarded => Stage(apiObj) \in {"guarded", "leaving"}
  BY DEF Guarded, Stage
<1>3. ASSUME w.pc = c.create, NEW i \in FreeIDs, Live' = Live \cup {i}
      PROVE  Kept
  <2>1. Live = {} /\ Guarded /\ Live' = {i} /\ i \in IDs
    BY <1>1, <1>3 DEF FreeIDs
  <2> QED
    BY <1>2, <2>1 DEF Kept, Promise!Next, Promise!Provision
<1>4. CASE Live' \subseteq Live /\ Live' # Live
  <2>1. PICK i \in Live : i \notin Live'
    BY <1>4
  <2>2. i \in Used' /\ ~sm'[i].alive
    BY <1>1, <2>1, RecordsGrow DEF Live
  <2>3. Dismantled'
    BY <2>2 DEF Dismantled
  <2>4. Doomed'
    BY <2>3, EndIsTheEnd
  <2>5. Guarded
    BY <1>1, <2>1
  <2>6. Exists(apiObj') => apiObj'.deleting
    <3>1. \E n \in 0..Len(watch') : apiObj' = Version(n)'
      <4>1. \E n \in 0..Len(watch') : n = Len(watch') /\ apiObj' = Version(n)'
        BY <1>1 DEF BaseInv, CacheFollows, Version, BaseTypes
      <4> QED
        BY <4>1
    <3> QED
      BY <2>4, <3>1 DEF Doomed
  <2>7. Stage(apiObj) = "leaving"
    BY <1>2, <2>5, <2>6 DEF Stage
  <2>8. Live' = {}
    BY <1>1, <1>4, <2>1
  <2> QED
    BY <2>7, <2>8 DEF Kept, Promise!Next, Promise!Deprovision
<1>5. CASE Live' = Live
  BY <1>5 DEF Kept
<1> QED
  BY <1>1, <1>3, <1>4, <1>5, LiveChanges

\* Every step is one ManagedResource allows.
LEMMA PromiseKept ==
  ASSUME NEW c, OneStep(c)
  PROVE  [Promise!Next]_(Promise!vars)
<1> SUFFICES Kept
  BY DEF Kept, Promise!vars
<1>1. BaseInv /\ Held /\ Touched /\ apiObj \in Objects
  BY OneStepFacts DEF BaseInv, BaseTypes
<1>2. CASE /\ apiObj'.uid = apiObj.uid /\ apiObj'.deleting = apiObj.deleting
           /\ apiObj'.finalizer = apiObj.finalizer
  BY <1>1, <1>2, StageIs, SMKeepsPromise
<1>3. ASSUME NEW name, NEW s, UserCreate(name, s) PROVE Kept
  BY <1>1, <1>3, CreateKeepsPromise
<1> QED
  BY <1>1, <1>2, <1>3, DeleteKeepsPromise, AddFinalizerKeepsPromise,
     RemoveFinalizerKeepsPromise DEF Touched

\* Nothing is promised before the first incarnation.
LEMMA PromiseToBegin ==
  apiObj = NoObject /\ Live = {} => Promise!Init
BY DEF Promise!Init, Stage, Exists, NoObject

------------------------------------------------------------------------------
(* Nothing is forgotten *)

\* A Reconcile is still to come that will see the resource as it is now, or there is
\* nothing to see.
Owed == queued \/ watch # <<>> \/ ~Exists(apiObj)

\* The API server marks a resource for deletion only if the finalizer keeps it.
Marked == apiObj.deleting => apiObj.finalizer

\* A resource that is marked goes with its finalizer.
LEMMA MarkedKept ==
  ASSUME BaseInv, Held, Touched, Marked
  PROVE  Marked'
<1>1. apiObj \in Objects
  BY DEF BaseInv, BaseTypes
<1>2. CASE apiObj'.deleting = apiObj.deleting /\ apiObj'.finalizer = apiObj.finalizer
  BY <1>2 DEF Marked
<1>3. CASE UserDelete
  <2>1. apiObj' = NoObject \/ (apiObj.finalizer /\ apiObj' = [apiObj EXCEPT !.deleting = TRUE])
    BY <1>3 DEF UserDelete, Write
  <2> QED
    BY <1>1, <2>1 DEF Marked, NoObject, Objects
<1>4. \A name, s : UserCreate(name, s) => Marked'
  BY DEF UserCreate, Write, NoObject, Marked
<1>5. CASE AddFinalizer
  <2>1. UNCHANGED apiObj \/ apiObj' = [apiObj EXCEPT !.finalizer = TRUE]
    BY <1>5, AddFinalizerOutcome
  <2> QED
    BY <1>1, <2>1 DEF Marked, Objects
<1>6. CASE RemoveFinalizer
  <2>1. UNCHANGED apiObj \/ apiObj' = Released(apiObj)
    BY <1>6, RemoveFinalizerOutcome
  <2> QED
    BY <1>1, <2>1 DEF Marked, Objects, Released, NoObject
<1> QED
  BY <1>2, <1>3, <1>4, <1>5, <1>6 DEF Touched

\* A write that changes something is shown by the informer, and reconciled.
LEMMA WriteIsOwed ==
  ASSUME BaseTypes, NEW o, Write(o), o # apiObj
  PROVE  Owed'
<1>1. watch' = Append(watch, o) /\ watch \in Seq(Objects)
  BY DEF Write, BaseTypes
<1> QED
  BY <1>1 DEF Owed

\* What is owed stays so while the worker is busy: after a step that leaves nothing
\* owed, nothing was owed before and nothing was written.
LEMMA NothingOwedBefore ==
  ASSUME BaseTypes, queued => queued', UNCHANGED <<apiObj, watch>> \/ \E o : Write(o), ~Owed'
  PROVE  ~Owed /\ UNCHANGED <<apiObj, watch>> /\ ~queued'
<1>1. ASSUME NEW o, Write(o) PROVE UNCHANGED <<apiObj, watch>>
  BY <1>1, WriteIsOwed DEF Write
<1> QED
  BY <1>1 DEF Owed

\* To add the finalizer, and to take it away, is to change the resource.
LEMMA AddFinalizerIsOwed ==
  ASSUME BaseInv, Held, ApiFaults = FALSE, w.fresh, ~w.obj.finalizer, AddFinalizer
  PROVE  Owed'
<1>1. apiObj \in Objects /\ w.obj = [apiObj EXCEPT !.status = w.obj.status] /\ BaseTypes
  BY DEF BaseInv, BaseTypes, Held
<1>2. Write([apiObj EXCEPT !.finalizer = TRUE])
  BY DEF AddFinalizer
<1>3. ~apiObj.finalizer
  BY <1>1 DEF Objects
<1>4. [apiObj EXCEPT !.finalizer = TRUE] # apiObj
  BY <1>1, <1>3 DEF Objects
<1> QED
  BY <1>1, <1>2, <1>4, WriteIsOwed

LEMMA RemoveFinalizerIsOwed ==
  ASSUME BaseInv, Held, ApiFaults = FALSE, w.fresh, w.obj.finalizer, RemoveFinalizer
  PROVE  Owed'
<1>1. apiObj \in Objects /\ w.obj = [apiObj EXCEPT !.status = w.obj.status] /\ BaseTypes
  BY DEF BaseInv, BaseTypes, Held
<1>2. Write(Released(apiObj))
  BY DEF RemoveFinalizer
<1>3. apiObj.finalizer
  BY <1>1 DEF Objects
<1>4. Released(apiObj) # apiObj
  BY <1>1, <1>3 DEF Objects, Released, NoObject
<1> QED
  BY <1>1, <1>2, <1>4, WriteIsOwed

\* Everybody else who changes the resource owes the worker a look at it.
LEMMA OthersOwe ==
  ASSUME BaseInv
  PROVE  /\ UserDelete => Owed'
         /\ \A name, s : UserCreate(name, s) \/ UserEdit(name, s) => Owed'
         /\ Deliver \/ Resync \/ Restart => Owed'
<1>1. apiObj \in Objects /\ BaseTypes /\ CacheFollows
  BY DEF BaseInv, BaseTypes
<1>2. UserDelete => Owed'
  <2> SUFFICES ASSUME UserDelete PROVE Owed'
    OBVIOUS
  <2> DEFINE p == IF apiObj.finalizer THEN [apiObj EXCEPT !.deleting = TRUE] ELSE NoObject
  <2>1. Write(p) /\ Exists(apiObj) /\ ~apiObj.deleting
    BY DEF UserDelete
  <2>2. p # apiObj
    BY <1>1, <2>1 DEF Objects, Exists, NoObject
  <2> HIDE DEF p
  <2> QED
    BY <1>1, <2>1, <2>2, WriteIsOwed
<1>3. ASSUME NEW name, NEW s, UserCreate(name, s) PROVE Owed'
  <2> DEFINE p == [NoObject EXCEPT !.uid = lives + 1, !.gen = 1, !.name = name, !.secretName = s]
  <2>1. Write(p) /\ ~Exists(apiObj) /\ lives \in Nat
    BY <1>3 DEF UserCreate, BaseInv, BaseTypes
  <2>2. p.uid = lives + 1
    BY DEF NoObject
  <2> HIDE DEF p
  <2>3. p # apiObj
    BY <1>1, <2>1, <2>2 DEF Exists
  <2> QED
    BY <1>1, <2>1, <2>3, WriteIsOwed
<1>4. ASSUME NEW name, NEW s, UserEdit(name, s) PROVE Owed'
  <2> DEFINE p == [apiObj EXCEPT !.gen = @ + 1, !.name = name, !.secretName = s]
  <2>1. Write(p)
    BY <1>4 DEF UserEdit
  <2>2. p.gen = apiObj.gen + 1 /\ apiObj.gen \in Nat
    BY <1>1 DEF Objects
  <2> HIDE DEF p
  <2>3. p # apiObj
    BY <2>2
  <2> QED
    BY <1>1, <2>1, <2>3, WriteIsOwed
<1>5. Deliver \/ Resync \/ Restart => Owed'
  BY DEF Deliver, Resync, Restart, Owed
<1> QED
  BY <1>2, <1>3, <1>4, <1>5

------------------------------------------------------------------------------
(* Generations *)

\* Nobody holds a copy that is older than what SM was asked for, and the later versions
\* are the newer ones, the worker's copy being the first.
Aged ==
  /\ \A s \in Specs : s.uid \in 1..lives /\ s.gen > 0
  /\ \A o \in Copies : Exists(o) => o.gen > 0 /\ \A s \in Specs : s.gen <= o.gen
  /\ \A k \in 0..Len(watch) : Exists(w.obj) /\ Exists(Version(k)) => w.obj.gen <= Version(k).gen
  /\ \A j, k \in 0..Len(watch) :
       j < k /\ Exists(Version(j)) /\ Exists(Version(k)) => Version(j).gen <= Version(k).gen

\* The worker's next copy is of the generation of its last one, or of the cache; that of
\* the resource grows.
Heir ==
  /\ Exists(w'.obj) => \/ Exists(w.obj) /\ w'.obj.gen = w.obj.gen
                       \/ Exists(cache) /\ w'.obj.gen = cache.gen
  /\ Exists(apiObj') => apiObj'.gen > 0 /\ (Exists(apiObj) => apiObj.gen <= apiObj'.gen)

\* What the operator asks SM for is what it has asked for last.
LEMMA AskedForLatest ==
  ASSUME NEW c, Asked(c), Latest,
         w.pc \in c.creates => \A s \in Specs : s.gen <= w.obj.gen
  PROVE  /\ Latest' /\ NeverOlder
         /\ \/ Specs' \subseteq Specs
            \/ w.pc \in c.creates /\ Specs' \subseteq Specs \cup {RequestOf(w.obj)}
<1>1. /\ SMInv /\ sm \in [IDs -> Things] /\ WellFormed(c) /\ MeansIt(c) /\ RequestedBy(c)
      /\ w.obj.status.id # NoId => w.obj.status.id \in Used
      /\ w.pc # "idle" => RequestOf(w.obj) \in Requests
  BY AskedByName DEF Asked
<1>2. /\ c.create \in c.creates /\ c.changes \subseteq c.creates /\ "idle" \notin c.creates
      /\ FreeIDs \subseteq IDs /\ Used \subseteq IDs /\ RequestOf(w.obj).gen = w.obj.gen
  BY <1>1 DEF WellFormed, FreeIDs, Used, RequestOf
<1>3. CASE UNCHANGED sm
  <2>1. \A j \in Used : sm[j].spec.gen \in Nat
    BY <1>1, <1>2, SpecsType
  <2> QED
    BY <1>3, <2>1 DEF Latest, NeverOlder, Specs, SpecsOf, Ops, Last, Used, FreeIDs
<1>4. ASSUME w.pc \in c.creates, NEW i \in IDs, NEW state \in {"SUCCEEDED", "IN_PROGRESS"},
             SMCreate(i, RequestOf(w.obj), state) \/ SMPatch(i, RequestOf(w.obj), state)
      PROVE  /\ Latest' /\ NeverOlder
             /\ Specs' \subseteq Specs \cup {RequestOf(w.obj)}
  <2>1. RequestOf(w.obj) \in Requests
    BY <1>1, <1>2, <1>4
  <2>2. \A s \in Specs : s.gen <= RequestOf(w.obj).gen
    BY <1>2, <1>4
  <2> QED
    BY <1>1, <1>4, <2>1, <2>2, RequestIsLatest
<1>5. CASE w.pc = c.create /\ \E i \in FreeIDs, state \in {"SUCCEEDED", "IN_PROGRESS"} :
                                SMCreate(i, RequestOf(w.obj), state)
  BY <1>2, <1>4, <1>5
<1>6. CASE w.pc \in c.changes /\ \E state \in {"SUCCEEDED", "IN_PROGRESS"} :
                                   SMPatch(w.obj.status.id, RequestOf(w.obj), state)
  <2>1. w.obj.status.id \in IDs
    BY <1>1, <1>2, <1>6 DEF MeansIt
  <2> QED
    BY <1>2, <1>4, <1>6, <2>1
<1>7. ASSUME NEW i \in Used, SMDeleteNow(i) \/ SMDeleteAsync(i) \/ SMFinish(i)
      PROVE  Latest' /\ NeverOlder /\ Specs' \subseteq Specs
  BY <1>1, <1>7, OthersAreLatest
<1>8. CASE w.pc = c.remove /\ (SMDeleteNow(w.obj.status.id) \/ SMDeleteAsync(w.obj.status.id))
  <2>1. w.obj.status.id \in Used
    BY <1>1, <1>8 DEF MeansIt
  <2> QED
    BY <1>7, <1>8, <2>1
<1>9. CASE \E i \in IDs : SMFinish(i)
  <2>1. ASSUME NEW i \in IDs, SMFinish(i) PROVE i \in Used
    BY <1>1, <2>1 DEF SMFinish, Busy, SMInv, LiveIsRecorded, Used, FreeIDs
  <2> QED
    BY <1>7, <1>9, <2>1
<1> QED
  BY <1>1, <1>3, <1>5, <1>6, <1>8, <1>9 DEF RequestedBy

\* With one incarnation, when it begins nobody has seen it.
LEMMA NothingYet ==
  ASSUME BaseInv, Kinds, MaxLives <= 1, Exists(apiObj'), ~Exists(apiObj)
  PROVE  lives = 0 /\ \A o \in Copies : ~Exists(o)
<1>1. Begun
  BY DEF Kinds, Undisturbed, Rewritten, Begun, Deliver, Restart, Write, Exists
<1>2. lives = 0
  BY <1>1, ConstantsAssumption DEF Begun, BaseInv, BaseTypes
<1>3. \A o \in Copies : o.uid \in Nat /\ o.uid <= lives
  <2>1. \A o \in Copies : o \in Objects
    BY CopiesType DEF BaseInv
  <2> QED
    BY <2>1 DEF BaseInv, DeletionIsFinal, Objects
<1> QED
  BY <1>2, <1>3 DEF Exists

\* The order of the versions stays.
LEMMA VersionsAge ==
  ASSUME BaseInv, Kinds, MaxLives <= 1, Aged, Heir,
         NEW j \in 0..Len(watch'), NEW k \in 0..Len(watch'), j < k,
         Exists(Version(j)'), Exists(Version(k)')
  PROVE  Version(j)'.gen <= Version(k)'.gen
<1> SUFFICES ASSUME NEW n \in Nat, n = Len(watch) PROVE Version(j)'.gen <= Version(k)'.gen
  BY DEF BaseInv, BaseTypes
<1>1. \A i, l \in 0..n : i < l /\ Exists(Version(i)) /\ Exists(Version(l))
                          => Version(i).gen <= Version(l).gen
  BY DEF Aged
<1>2. \A i \in 0..n : Version(i) \in Objects /\ Version(i).gen \in Nat /\ Version(i) \in Copies
  <2>1. \A i \in 0..n : Version(i) \in Objects
    BY VersionType
  <2>2. watch \in Seq(Objects)
    BY DEF BaseInv, BaseTypes
  <2>3. \A i \in 0..n : Version(i) \in Copies
    BY <2>2 DEF Version, Copies
  <2> QED
    BY <2>1, <2>3 DEF Objects
<1>3. CASE UNCHANGED <<cache, watch>>
  BY <1>1, <1>3 DEF Version
<1>4. ASSUME NEW p \in Objects, Write(p), UNCHANGED cache
      PROVE  Version(j)'.gen <= Version(k)'.gen
  <2>1. /\ apiObj' = p /\ apiObj = Version(n)
        /\ \/ p = apiObj /\ watch' = watch
           \/ /\ Len(watch') = n + 1
              /\ Version(n + 1)' = p
              /\ \A i \in 0..n : Version(i)' = Version(i)
    BY <1>4, WriteAppends
  <2>2. CASE watch' = watch
    BY <1>3, <1>4, <2>2
  <2>3. CASE /\ Len(watch') = n + 1 /\ Version(n + 1)' = p
             /\ \A i \in 0..n : Version(i)' = Version(i)
    <3>1. CASE k \in 0..n
      BY <1>1, <2>3, <3>1
    <3>2. CASE k = n + 1
      <4>1. j \in 0..n /\ Version(j)' = Version(j) /\ Version(k)' = apiObj' /\ Exists(Version(j))
        BY <2>1, <2>3, <3>2
      <4>2. Exists(apiObj)
        BY <1>2, <4>1, NothingYet
      <4>3. Version(j).gen <= apiObj.gen
        BY <1>1, <1>2, <2>1, <4>1, <4>2
      <4>4. apiObj.gen <= apiObj'.gen /\ apiObj.gen \in Nat /\ apiObj'.gen \in Nat
        BY <1>2, <1>4, <2>1, <4>1, <4>2 DEF Heir, Objects
      <4> QED
        BY <1>2, <4>1, <4>3, <4>4
    <3> QED
      BY <2>3, <3>1, <3>2
  <2> QED
    BY <2>1, <2>2, <2>3
<1>5. CASE Deliver
  <2>1. n > 0 /\ Len(watch') = n - 1 /\ \A i \in 0..n-1 : Version(i)' = Version(i + 1)
    BY <1>5, DeliverShifts
  <2> QED
    BY <1>1, <2>1
<1>6. CASE Restart
  BY <1>6 DEF Restart
<1> QED
  BY <1>3, <1>4, <1>5, <1>6 DEF Kinds, Undisturbed, Rewritten, Begun

\* One step of a controller keeps the order of the generations, and asks SM for
\* nothing old.
LEMMA AgedKept ==
  ASSUME NEW c, OneStep(c), Aged, Latest, Heir
  PROVE  Aged' /\ Latest' /\ NeverOlder
<1>1. /\ BaseInv /\ BaseInv' /\ Held /\ Kinds /\ Asked(c) /\ MaxLives <= 1
      /\ OneLife(c.creates, c.removes) /\ WellFormed(c)
      /\ w.pc \in c.creates => Guarded
  BY OneStepFacts
<1>2. /\ \A o \in Copies : o \in Objects /\ o.uid \in Nat /\ o.gen \in Nat /\ o.uid <= lives
      /\ lives \in Nat /\ lives' \in Nat /\ lives <= lives'
  <2>1. \A o \in Copies : o \in Objects
    BY <1>1, CopiesType DEF BaseInv
  <2>2. lives <= lives' /\ lives \in Nat
    BY <1>1 DEF BaseInv, BaseTypes, Kinds, Undisturbed, Rewritten, Begun, Deliver, Restart
  <2> QED
    BY <1>1, <2>1, <2>2 DEF BaseInv, BaseTypes, DeletionIsFinal, Objects
<1>3. /\ \A k \in 0..Len(watch) : Version(k) \in Copies
      /\ \A o \in Copies : o = w.obj \/ \E k \in 0..Len(watch) : o = Version(k)
      /\ apiObj \in Copies /\ cache \in Copies /\ w.obj \in Copies
  <2>1. watch \in Seq(Objects)
    BY <1>1 DEF BaseInv, BaseTypes
  <2>2. \A k \in DOMAIN watch : k \in 0..Len(watch) /\ Version(k) = watch[k]
    BY <2>1 DEF Version
  <2> QED
    BY <1>1, <2>1, <2>2, LastVersion DEF Version, Copies
<1>4. ASSUME w.pc \in c.creates
      PROVE  /\ Exists(apiObj) /\ Exists(w.obj)
             /\ \A o \in Copies : Exists(o) => w.obj.gen <= o.gen
             /\ \A s \in Specs : s.gen <= w.obj.gen
  <2>1. Exists(apiObj) /\ w.pc # "idle"
    BY <1>1, <1>4 DEF Guarded, WellFormed
  <2>2. Exists(w.obj)
    BY <1>1, <2>1 DEF Held
  <2> QED
    BY <1>2, <1>3, <2>1, <2>2 DEF Aged
<1>5. /\ Latest' /\ NeverOlder
      /\ \/ Specs' \subseteq Specs
         \/ w.pc \in c.creates /\ Specs' \subseteq Specs \cup {RequestOf(w.obj)}
  BY <1>1, <1>4, AskedForLatest
<1>6. \A s \in Specs : s.gen \in Nat
  <2>1. SMInv
    BY <1>1, AskedWith
  <2> QED
    BY <2>1, SpecsType DEF Specs, Used
<1>7. ASSUME NEW s \in Specs'
      PROVE  /\ s.uid \in 1..lives' /\ s.gen > 0 /\ s.gen \in Nat /\ lives # 0
             /\ \A o \in Copies : Exists(o) => s.gen <= o.gen
  <2>1. CASE s \in Specs
    BY <1>2, <1>6, <2>1 DEF Aged
  <2>2. CASE w.pc \in c.creates /\ s = RequestOf(w.obj)
    BY <1>2, <1>3, <1>4, <2>2 DEF RequestOf, Exists, Aged
  <2> QED
    BY <1>5, <2>1, <2>2
<1>8. ASSUME Exists(apiObj'), ~Exists(apiObj)
      PROVE  lives = 0 /\ \A o \in Copies : ~Exists(o)
  BY <1>1, <1>8, NothingYet
<1>9. ASSUME NEW o \in Copies', Exists(o)
      PROVE  o.gen > 0 /\ \A s \in Specs' : s.gen <= o.gen
  <2>1. o \in Copies \cup {apiObj', w'.obj}
    BY <1>1, NewCopies
  <2>2. CASE o \in Copies
    BY <1>7, <1>9, <2>2 DEF Aged
  <2>3. CASE o = w'.obj
    BY <1>3, <1>7, <1>9, <2>3 DEF Aged, Heir
  <2>4. CASE o = apiObj' /\ Exists(apiObj)
    <3>1. apiObj.gen <= o.gen /\ apiObj.gen \in Nat /\ o.gen \in Nat /\ o.gen > 0
      BY <1>1, <1>2, <1>3, <1>9, <2>4 DEF Heir, BaseInv, BaseTypes, Objects
    <3> QED
      BY <1>3, <1>7, <2>4, <3>1
  <2>5. CASE o = apiObj' /\ ~Exists(apiObj)
    BY <1>7, <1>8, <1>9, <2>5 DEF Heir
  <2> QED
    BY <2>1, <2>2, <2>3, <2>4, <2>5
<1>10. ASSUME NEW k \in 0..Len(watch'), Exists(w'.obj), Exists(Version(k)')
       PROVE  w'.obj.gen <= Version(k)'.gen
  <2>1. PICK o \in {w.obj, cache} : Exists(o) /\ w'.obj.gen = o.gen
    BY <1>10 DEF Heir
  <2>2. \A j \in 0..Len(watch) : Exists(Version(j)) => o.gen <= Version(j).gen
    <3>1. CASE o = w.obj
      BY <2>1, <3>1 DEF Aged
    <3>2. CASE o = cache
      <4>1. o = Version(0) /\ 0 \in 0..Len(watch) /\ o.gen \in Nat
        BY <1>1, <1>2, <1>3, <3>2, LastVersion
      <4> QED
        BY <2>1, <4>1 DEF Aged
    <3> QED
      BY <3>1, <3>2
  <2>3. CASE \E j \in 0..Len(watch) : Version(k)' = Version(j)
    BY <1>10, <2>1, <2>2, <2>3
  <2>4. CASE Version(k)' = apiObj'
    <3>1. Exists(apiObj)
      BY <1>3, <1>8, <1>10, <2>1, <2>4
    <3>2. o.gen <= apiObj.gen /\ o.gen \in Nat /\ apiObj.gen \in Nat
      BY <1>1, <1>2, <1>3, <2>1, <2>2, <3>1, LastVersion
    <3>3. apiObj.gen <= apiObj'.gen /\ apiObj'.gen \in Nat
      BY <1>1, <1>10, <2>4, <3>1 DEF Heir, BaseInv, BaseTypes, Objects
    <3> QED
      BY <2>1, <2>4, <3>2, <3>3
  <2> QED
    BY <1>1, <2>3, <2>4, NewVersions
<1>11. \A j, k \in 0..Len(watch') :
         j < k /\ Exists(Version(j)') /\ Exists(Version(k)') => Version(j)'.gen <= Version(k)'.gen
  BY <1>1, VersionsAge
<1>12. Aged'
  BY <1>7, <1>9, <1>10, <1>11 DEF Aged, Exists
<1> QED
  BY <1>5, <1>12

\* A worker that goes on with a copy it had, or with that of the cache, is an heir.
LEMMA CopyIsHeir ==
  ASSUME BaseInv, Aged, NEW o,
         \/ Exists(w.obj) /\ o.gen = w.obj.gen
         \/ Exists(cache) /\ o.gen = cache.gen,
         w' = Idle \/ w'.obj.gen = o.gen,
         Exists(apiObj') => Exists(apiObj) /\ apiObj'.gen = apiObj.gen
  PROVE  Heir
<1>1. Exists(apiObj) => apiObj.gen > 0 /\ apiObj.gen \in Nat
  BY DEF Aged, Copies, BaseInv, BaseTypes, Objects
<1>2. ~Exists(Idle.obj)
  BY DEF Idle, NoObject, Exists
<1> QED
  BY <1>1, <1>2 DEF Heir

\* One that keeps its copy is, or has none.
LEMMA StayingIsHeir ==
  ASSUME BaseInv, Aged, UNCHANGED w.obj \/ w' = Idle,
         Exists(apiObj') => Exists(apiObj) /\ apiObj'.gen = apiObj.gen
  PROVE  Heir
<1>1. ~Exists(Idle.obj)
  BY DEF Idle, NoObject, Exists
<1> QED
  BY <1>1, CopyIsHeir DEF Aged, Copies, BaseInv, BaseTypes, Objects, Heir

\* Whatever the user does to the resource.
LEMMA UserIsHeir ==
  ASSUME BaseInv, Aged, UNCHANGED w.obj,
         UserDelete \/ \E name, s : UserCreate(name, s) \/ UserEdit(name, s)
  PROVE  Heir
<1>1. apiObj \in Objects /\ (Exists(apiObj) => apiObj.gen > 0)
  BY DEF Aged, Copies, BaseInv, BaseTypes
<1>2. CASE UserDelete
  <2>1. apiObj' = NoObject \/ apiObj' = [apiObj EXCEPT !.deleting = TRUE]
    BY <1>2 DEF UserDelete, Write
  <2> QED
    BY <1>1, <2>1, StayingIsHeir DEF Exists, NoObject, Objects
<1>3. ASSUME NEW name, NEW s, UserCreate(name, s) PROVE Heir
  <2>1. ~Exists(apiObj) /\ apiObj'.gen = 1
    BY <1>3 DEF UserCreate, Write, NoObject
  <2> QED
    BY <2>1 DEF Heir
<1>4. ASSUME NEW name, NEW s, UserEdit(name, s) PROVE Heir
  <2>1. Exists(apiObj) /\ apiObj'.gen = apiObj.gen + 1 /\ apiObj.gen \in Nat
    BY <1>1, <1>4 DEF UserEdit, Write, Objects
  <2> QED
    BY <1>1, <2>1 DEF Heir
<1> QED
  BY <1>2, <1>3, <1>4

\* Whoever adds the finalizer, or takes it away.
LEMMA FinalizerIsHeir ==
  ASSUME BaseInv, Held, Aged, AddFinalizer \/ RemoveFinalizer
  PROVE  Heir
<1>1. /\ apiObj \in Objects /\ cache \in Objects /\ w.obj \in Objects
      /\ w.fresh => w.obj = [apiObj EXCEPT !.status = w.obj.status]
      /\ Exists(w.obj)
      /\ watch = <<>> => cache = apiObj
  BY CacheIsCurrent DEF BaseInv, BaseTypes, Held, AddFinalizer, RemoveFinalizer
<1>2. \A o \in Objects : \A p : Restates(p, o) => p.gen = o.gen
  <2> SUFFICES ASSUME NEW o \in Objects, NEW p, Restates(p, o) PROVE p.gen = o.gen
    OBVIOUS
  <2>1. p = [o EXCEPT !.status = p.status]
    BY DEF Restates
  <2> QED
    BY <2>1 DEF Objects
<1>3. w.fresh => w.obj.gen = apiObj.gen
  BY <1>1 DEF Objects
<1>4. CASE AddFinalizer
  <2>1. CASE w' = Idle /\ UNCHANGED apiObj
    BY <2>1, StayingIsHeir
  <2>2. CASE /\ apiObj' = [apiObj EXCEPT !.finalizer = TRUE] /\ Restates(w'.obj, apiObj') /\ Exists(apiObj)
             /\ w.fresh \/ (Exists(cache) /\ watch = <<>>)
    <3>1. apiObj' \in Objects /\ apiObj'.gen = apiObj.gen
      BY <1>1, <2>2 DEF Objects
    <3> QED
      BY <1>1, <1>2, <1>3, <2>2, <3>1, CopyIsHeir
  <2>3. CASE UNCHANGED apiObj /\ Restates(w'.obj, [w.obj EXCEPT !.finalizer = TRUE])
    <3>1. [w.obj EXCEPT !.finalizer = TRUE] \in Objects
          /\ [w.obj EXCEPT !.finalizer = TRUE].gen = w.obj.gen
      BY <1>1 DEF Objects
    <3> QED
      BY <1>1, <1>2, <2>3, <3>1, CopyIsHeir
  <2> QED
    BY <1>4, <2>1, <2>2, <2>3, AddFinalizerOutcome
<1>5. CASE RemoveFinalizer
  <2>1. Exists(apiObj') => Exists(apiObj) /\ apiObj'.gen = apiObj.gen
    <3>1. Released(apiObj) = NoObject \/ Released(apiObj) = [apiObj EXCEPT !.finalizer = FALSE]
      BY DEF Released
    <3> QED
      BY <1>1, <1>5, <3>1, RemoveFinalizerOutcome DEF Exists, NoObject, Objects
  <2>2. CASE w' = Idle
    BY <2>1, <2>2, StayingIsHeir
  <2>3. ASSUME NEW o \in {w.obj, cache, apiObj}, NEW b \in BOOLEAN, Exists(o),
               w'.obj = ClearOp([o EXCEPT !.finalizer = b]), o = w.obj \/ o = cache \/ w.fresh
        PROVE  Heir
    <3>1. w'.obj.gen = o.gen
      BY <1>1, <2>3 DEF ClearOp, Objects
    <3> QED
      BY <1>1, <1>3, <2>1, <2>3, <3>1, CopyIsHeir
  <2> QED
    BY <1>5, <2>2, <2>3, RemoveFinalizerOutcome
<1> QED
  BY <1>4, <1>5
=============================================================================
