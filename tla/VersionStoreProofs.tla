------------------------- MODULE VersionStoreProofs -------------------------
(***************************************************************************)
(* Proofs about VersionStore, for every finite set of versions, any        *)
(* revisions with any number of deltas, any nesting of guards and any      *)
(* number of writes.                                                       *)
(***************************************************************************)
EXTENDS VersionStore, DataLemmas, FiniteSetTheorems

TableStates == [full : SUBSET Versions, delta : SUBSET (Versions \X Versions)]

(* Every base is stored, and no set of versions is such that each of them  *)
(* is a delta from another: the deltas have no cycle.                      *)
BasesStored(t) == \A d \in t.delta : d[2] \in StoredIn(t)
Acyclic(t) ==
  \A S \in SUBSET Versions :
    S # {} => \E x \in S : \A d \in t.delta : d[1] = x => d[2] \notin S

Sound(t) == t \in TableStates /\ BasesStored(t) /\ Acyclic(t)

(* The inductive invariant.                                                *)
GuardsSound ==
  guards \in Seq(TableStates) /\ \A i \in DOMAIN guards : Sound(guards[i])
Inv == Sound(Tables) /\ GuardsSound

-----------------------------------------------------------------------------
(* What the writes do to the tables.                                       *)

LEMMA StoredTyped ==
  ASSUME NEW t \in TableStates
  PROVE  StoredIn(t) \subseteq Versions
BY DEF TableStates, StoredIn

(* A version that is not stored is no base.                                *)
LEMMA PutSound ==
  ASSUME NEW t, Sound(t), NEW v \in Versions
  PROVE  LET u == [t EXCEPT !.full = @ \cup {v}]
         IN  Sound(u) /\ StoredIn(t) \subseteq StoredIn(u)
<1> DEFINE u == [t EXCEPT !.full = @ \cup {v}]
<1>1. u.full = t.full \cup {v} /\ u.delta = t.delta /\ u \in TableStates
  BY DEF Sound, TableStates
<1>2. StoredIn(t) \subseteq StoredIn(u)
  BY <1>1 DEF StoredIn
<1> QED  BY <1>1, <1>2 DEF Sound, BasesStored, Acyclic

(* put_version of a version without a delta of its own, or for the base    *)
(* of one that is not stored yet (reverse), makes no cycle.                *)
LEMMA WithVersionSound ==
  ASSUME NEW t, t \in TableStates, Acyclic(t), NEW old \in Versions, NEW new \in Versions,
         old # new, \A d \in t.delta : d[1] # new,
         \A d \in t.delta : d[2] \in StoredIn(t) \cup {new}
  PROVE  LET u == WithVersion(t, old, new)
         IN  Sound(u) /\ StoredIn(u) = StoredIn(t) \cup {old, new}
<1> DEFINE u == WithVersion(t, old, new)
<1>1. /\ u.full = (t.full \ {old}) \cup {new}
      /\ u.delta = t.delta \cup {<<old, new>>}
      /\ u \in TableStates
  BY DEF WithVersion, TableStates
<1>2. StoredIn(u) = StoredIn(t) \cup {old, new}
  <2> DEFINE e == <<old, new>>
  <2>0. u.delta = t.delta \cup {e} /\ e[1] = old
    BY <1>1
  <2> HIDE DEF e, u
  <2>1. {d[1] : d \in u.delta} = {d[1] : d \in t.delta} \cup {old}
    BY <2>0
  <2> QED  BY <1>1, <2>1 DEF StoredIn
<1>3. BasesStored(u)
  BY <1>1, <1>2 DEF BasesStored
<1>4. Acyclic(u)
  <2> SUFFICES ASSUME NEW S \in SUBSET Versions, S # {}
               PROVE  \E x \in S : \A d \in u.delta : d[1] = x => d[2] \notin S
    BY DEF Acyclic
  <2>1. CASE new \in S
    <3>1. \A d \in u.delta : d[1] # new
      BY <1>1
    <3> QED  BY <2>1, <3>1
  <2>2. CASE new \notin S
    <3>1. PICK x \in S : \A d \in t.delta : d[1] = x => d[2] \notin S
      BY DEF Acyclic
    <3>2. \A d \in u.delta : d[1] = x => d[2] \notin S
      BY <1>1, <2>2, <3>1
    <3> QED  BY <3>2
  <2> QED  BY <2>1, <2>2
<1> HIDE DEF u
<1> QED  BY <1>1, <1>2, <1>3, <1>4 DEF Sound, u

LEMMA ReverseSound ==
  ASSUME NEW t, Sound(t), NEW old \in Versions, NEW new \in StoredIn(t), old \notin StoredIn(t)
  PROVE  LET u == [t EXCEPT !.delta = @ \cup {<<old, new>>}]
         IN  Sound(u) /\ StoredIn(t) \subseteq StoredIn(u)
<1> DEFINE u == [t EXCEPT !.delta = @ \cup {<<old, new>>}]
<1>1. /\ u.full = t.full /\ u.delta = t.delta \cup {<<old, new>>}
      /\ u \in TableStates /\ new \in Versions /\ old # new
  BY StoredTyped DEF Sound, TableStates
<1>2. StoredIn(t) \subseteq StoredIn(u)
  BY <1>1 DEF StoredIn
<1>3. BasesStored(u)
  <2> SUFFICES ASSUME NEW d \in u.delta PROVE d[2] \in StoredIn(u)
    BY DEF BasesStored
  <2>1. d \in t.delta \/ d[2] = new
    BY <1>1
  <2> HIDE DEF u
  <2> QED  BY <1>2, <2>1 DEF Sound, BasesStored
<1>4. Acyclic(u)
  <2> SUFFICES ASSUME NEW S \in SUBSET Versions, S # {}
               PROVE  \E x \in S : \A d \in u.delta : d[1] = x => d[2] \notin S
    BY DEF Acyclic
  <2>1. \A d \in u.delta : d[2] # old
    BY <1>1 DEF Sound, BasesStored
  <2>2. CASE S = {old}
    BY <2>1, <2>2
  <2>3. CASE S # {old}
    <3> DEFINE R == S \ {old}
    <3>1. R \in SUBSET Versions /\ R # {}
      BY <2>3
    <3>2. PICK x \in R : \A d \in t.delta : d[1] = x => d[2] \notin R
      BY <3>1 DEF Sound, Acyclic
    <3>3. \A d \in u.delta : d[1] = x => d[2] \notin S
      BY <1>1, <2>1, <3>2
    <3> QED  BY <3>2, <3>3
  <2> QED  BY <2>2, <2>3
<1> QED  BY <1>1, <1>2, <1>3, <1>4 DEF Sound

(* deltify_revision, for one delta: the new version loses its own deltas   *)
(* before it becomes the base of the old one.                              *)
LEMMA DeltifiedEdgeSound ==
  ASSUME NEW t, Sound(t), NEW old \in Versions, NEW new \in Versions
  PROVE  /\ Sound(DeltifiedEdge(t, old, new))
         /\ StoredIn(t) \subseteq StoredIn(DeltifiedEdge(t, old, new))
<1>1. CASE old \notin t.full \/ old = new \/ new \notin StoredIn(t)
  BY <1>1 DEF DeltifiedEdge
<1>2. CASE ~(old \notin t.full \/ old = new \/ new \notin StoredIn(t))
  <2> DEFINE w == [full |-> t.full \ {new}, delta |-> {d \in t.delta : d[1] # new}]
  <2>1. w.full = t.full \ {new} /\ w.delta = {d \in t.delta : d[1] # new} /\ w \in TableStates
    BY DEF Sound, TableStates
  <2>2. StoredIn(w) \cup {new} = StoredIn(t) \cup {new}
    BY <2>1 DEF StoredIn
  <2>3. Acyclic(w)
    <3> SUFFICES ASSUME NEW S \in SUBSET Versions, S # {}
                 PROVE  \E x \in S : \A d \in w.delta : d[1] = x => d[2] \notin S
      BY DEF Acyclic
    <3>1. PICK x \in S : \A d \in t.delta : d[1] = x => d[2] \notin S
      BY DEF Sound, Acyclic
    <3>2. \A d \in w.delta : d[1] = x => d[2] \notin S
      BY <2>1, <3>1
    <3> QED  BY <3>2
  <2>4. \A d \in w.delta : d[1] # new /\ d[2] \in StoredIn(w) \cup {new}
    BY <2>1, <2>2 DEF Sound, BasesStored
  <2>5. DeltifiedEdge(t, old, new) = WithVersion(w, old, new)
    BY <1>2 DEF DeltifiedEdge
  <2> HIDE DEF w
  <2>6. Sound(WithVersion(w, old, new)) /\ StoredIn(WithVersion(w, old, new)) = StoredIn(w) \cup {old, new}
    BY <1>2, <2>1, <2>3, <2>4, WithVersionSound
  <2> QED  BY <2>2, <2>5, <2>6
<1> QED  BY <1>1, <1>2

(* All of them: as many steps as the revision has deltas.                  *)
LEMMA DeltifiedSound ==
  ASSUME NEW t, Sound(t), NEW r \in Seq(Versions \X Versions)
  PROVE  Sound(Deltified(t, r)) /\ StoredIn(t) \subseteq StoredIn(Deltified(t, r))
<1> DEFINE N == Len(r)
           U == TableStates
           E(u) == u = [n \in 0..N |->
                          IF n = 0 THEN t ELSE DeltifiedEdge(u[n-1], r[n][1], r[n][2])]
           G == [n \in 1..N |-> [x \in U |-> DeltifiedEdge(x, r[n][1], r[n][2])]]
           u == CHOOSE f : E(f)
<1>1. N \in Nat /\ \A n \in 1..N : r[n][1] \in Versions /\ r[n][2] \in Versions
  OBVIOUS
<1>2. G \in [1..N -> [U -> U]]
  <2> SUFFICES ASSUME NEW x \in U, NEW old \in Versions, NEW new \in Versions
               PROVE  DeltifiedEdge(x, old, new) \in U
    BY <1>1
  <2> QED  BY DEF DeltifiedEdge, WithVersion, TableStates
<1>3. t \in U
  BY DEF Sound
<1>4. \E f : E(f)
  <2>1. PICK f \in [0..N -> U] : Turns(f, N, t, G)
    <3> HIDE DEF G, U, N
    <3> QED  BY <1>1, <1>2, <1>3, TurnsExist
  <2>2. f = [n \in 0..N |-> IF n = 0 THEN t ELSE G[n][f[n-1]]]
    BY <2>1 DEF Turns
  <2>3. \A n \in 0..N : n # 0 => n \in 1..N /\ f[n-1] \in U
    <3> HIDE DEF U, N
    <3> QED  BY <1>1, <2>1
  <2>4. \A n \in 1..N : \A x \in U : G[n][x] = DeltifiedEdge(x, r[n][1], r[n][2])
    <3> HIDE DEF U, N
    <3> QED  OBVIOUS
  <2> HIDE DEF G, U, N
  <2>5. \A n \in 0..N : n # 0 => G[n][f[n-1]] = DeltifiedEdge(f[n-1], r[n][1], r[n][2])
    BY <2>3, <2>4
  <2>6. [n \in 0..N |-> IF n = 0 THEN t ELSE G[n][f[n-1]]]
          = [n \in 0..N |-> IF n = 0 THEN t ELSE DeltifiedEdge(f[n-1], r[n][1], r[n][2])]
    BY <2>5
  <2> QED  BY <2>2, <2>6
<1>5. E(u)
  <2> HIDE DEF E
  <2> QED  BY <1>4
<1>6. Deltified(t, r) = u[N]
  BY DEF Deltified, InTurn
<1> HIDE DEF u, N
<1>7. u[0] = t /\ \A n \in 1..N : u[n] = DeltifiedEdge(u[n-1], r[n][1], r[n][2])
  <2>1. 0 \in 0..N /\ \A n \in 1..N : n \in 0..N /\ n # 0
    BY <1>1
  <2>2. u = [n \in 0..N |-> IF n = 0 THEN t ELSE DeltifiedEdge(u[n-1], r[n][1], r[n][2])]
    BY <1>5
  <2> HIDE DEF E
  <2> QED  BY <2>1, <2>2, Zenon
<1> HIDE DEF E
<1> DEFINE T == {n \in 0..N : Sound(u[n]) /\ StoredIn(t) \subseteq StoredIn(u[n])}
<1>8. 0 \in T
  BY <1>1, <1>7
<1>9. ASSUME NEW n \in 1..N, n - 1 \in T PROVE n \in T
  <2>1. Sound(u[n-1]) /\ StoredIn(t) \subseteq StoredIn(u[n-1])
    BY <1>9
  <2> DEFINE x == u[n-1]
             y == u[n]
  <2>2. y = DeltifiedEdge(x, r[n][1], r[n][2])
    BY <1>7
  <2> HIDE DEF x, y
  <2>3. Sound(x) /\ StoredIn(t) \subseteq StoredIn(x)
    BY <2>1 DEF x
  <2>4. Sound(y) /\ StoredIn(x) \subseteq StoredIn(y)
    BY <1>1, <2>2, <2>3, DeltifiedEdgeSound
  <2> QED  BY <1>1, <2>3, <2>4 DEF y
<1>10. 0..N \subseteq T
  <2> HIDE DEF T
  <2> QED  BY <1>1, <1>8, <1>9, IntervalInduction
<1> QED  BY <1>1, <1>6, <1>10

-----------------------------------------------------------------------------
(* The invariant.                                                          *)

LEMMA InitInv == Init => Inv
<1> SUFFICES ASSUME Init PROVE Inv
  OBVIOUS
<1>1. Tables.full = {} /\ Tables.delta = {} /\ Tables \in TableStates
  BY DEF Init, Tables, TableStates
<1>2. Sound(Tables)
  <2>1. BasesStored(Tables)
    BY <1>1 DEF BasesStored
  <2>2. Acyclic(Tables)
    BY <1>1 DEF Acyclic
  <2> QED  BY <1>1, <2>1, <2>2 DEF Sound
<1>3. GuardsSound
  BY DEF Init, GuardsSound
<1> QED  BY <1>2, <1>3 DEF Inv

(* What a step may do to the versions that are stored.                     *)
Kept == Stored \subseteq StoredIn(Tables') \/ (guards # <<>> /\ Tables' = guards[1])

LEMMA WriteStep ==
  ASSUME Inv, NEW t, Sound(t), Stored \subseteq StoredIn(t), Write(t)
  PROVE  Inv' /\ Kept
<1>1. Tables' = t
  BY DEF Write, Tables, Sound, TableStates
<1>2. GuardsSound'
  BY DEF Inv, GuardsSound, Write
<1> QED  BY <1>1, <1>2 DEF Inv, Kept

LEMMA CloseStep ==
  ASSUME Inv, NEW t, Sound(t), guards # <<>>, Closed(t),
         Stored \subseteq StoredIn(t) \/ t = guards[1]
  PROVE  Inv' /\ Kept
<1>1. Tables' = t
  BY DEF Closed, Tables, Sound, TableStates
<1>2. GuardsSound'
  <2>1. guards \in Seq(TableStates) /\ \A i \in DOMAIN guards : Sound(guards[i])
    BY DEF Inv, GuardsSound
  <2>2. Len(guards) \in Nat \ {0} /\ DOMAIN guards = 1..Len(guards)
    BY <2>1, EmptySeq, LenProperties
  <2>3. guards' = SubSeq(guards, 1, Len(guards) - 1)
    BY DEF Closed, Front
  <2>4. /\ SubSeq(guards, 1, Len(guards) - 1) \in Seq(TableStates)
        /\ Len(SubSeq(guards, 1, Len(guards) - 1)) = Len(guards) - 1
        /\ \A i \in 1..(Len(guards) - 1) : SubSeq(guards, 1, Len(guards) - 1)[i] = guards[i]
    BY <2>1, <2>2
  <2> DEFINE g == SubSeq(guards, 1, Len(guards) - 1)
  <2>5. g \in Seq(TableStates) /\ DOMAIN g = 1..(Len(guards) - 1)
    BY <2>2, <2>4
  <2>6. \A i \in DOMAIN g : Sound(g[i])
    <3> SUFFICES ASSUME NEW i \in DOMAIN g PROVE Sound(g[i])
      OBVIOUS
    <3>1. i \in 1..(Len(guards) - 1) /\ i \in DOMAIN guards
      BY <2>2, <2>5
    <3> QED  BY <2>1, <2>4, <3>1
  <2>7. guards' \in Seq(TableStates) /\ \A i \in DOMAIN guards' : Sound(guards'[i])
    <3> HIDE DEF g
    <3>1. guards' = g
      BY <2>3 DEF g
    <3> QED  BY <2>5, <2>6, <3>1
  <2> QED  BY <2>7 DEF GuardsSound
<1> QED  BY <1>1, <1>2 DEF Inv, Kept

LEMMA FirstGuard ==
  ASSUME Inv, guards # <<>>
  PROVE  Sound(guards[1])
BY EmptySeq, LenProperties DEF Inv, GuardsSound

LEMMA StepInv ==
  ASSUME Inv, [Next]_vars
  PROVE  Inv' /\ Kept
<1>0. Sound(Tables) /\ Tables \in TableStates /\ Stored = StoredIn(Tables) /\ Stored \subseteq Versions
  BY StoredTyped DEF Inv, Sound, Stored
<1>1. ASSUME NEW v \in Versions, Put(v) PROVE Inv' /\ Kept
  <2> DEFINE u == [Tables EXCEPT !.full = @ \cup {v}]
  <2>1. Sound(u) /\ Stored \subseteq StoredIn(u)
    <3> DEFINE t == Tables
    <3> HIDE DEF t
    <3>1. Sound(t)
      BY <1>0 DEF t
    <3>2. Sound([t EXCEPT !.full = @ \cup {v}]) /\ StoredIn(t) \subseteq StoredIn([t EXCEPT !.full = @ \cup {v}])
      BY <3>1, PutSound
    <3> QED  BY <1>0, <3>2 DEF t
  <2>2. Write(u)
    BY <1>1 DEF Put
  <2> HIDE DEF u
  <2> QED  BY <2>1, <2>2, WriteStep
<1>2. ASSUME NEW old \in Versions, NEW new \in Versions, PutVersion(old, new) PROVE Inv' /\ Kept
  <2> DEFINE u == WithVersion(Tables, old, new)
  <2>1. /\ old # new /\ \A d \in Tables.delta : d[1] # new
        /\ \A d \in Tables.delta : d[2] \in StoredIn(Tables) \cup {new}
    <3>1. old \in StoredIn(Tables) /\ new \notin StoredIn(Tables)
      BY <1>0, <1>2 DEF PutVersion
    <3>2. \A d \in Tables.delta : d[1] \in StoredIn(Tables)
      BY DEF StoredIn
    <3> QED  BY <1>0, <3>1, <3>2 DEF Sound, BasesStored
  <2>2. Sound(u) /\ Stored \subseteq StoredIn(u)
    <3> DEFINE t == Tables
    <3> HIDE DEF t
    <3>1. /\ t \in TableStates /\ Acyclic(t) /\ old # new /\ \A d \in t.delta : d[1] # new
          /\ \A d \in t.delta : d[2] \in StoredIn(t) \cup {new}
      BY <1>0, <2>1 DEF t, Sound
    <3>2. Sound(WithVersion(t, old, new))
          /\ StoredIn(WithVersion(t, old, new)) = StoredIn(t) \cup {old, new}
      BY <3>1, WithVersionSound
    <3> QED  BY <1>0, <3>2 DEF t
  <2>3. Write(u)
    BY <1>2 DEF PutVersion
  <2> HIDE DEF u
  <2> QED  BY <2>2, <2>3, WriteStep
<1>3. ASSUME NEW old \in Versions, NEW new \in Versions, PutReverseVersion(new, old)
      PROVE  Inv' /\ Kept
  <2> DEFINE u == [Tables EXCEPT !.delta = @ \cup {<<old, new>>}]
  <2>1. Sound(u) /\ Stored \subseteq StoredIn(u)
    <3> DEFINE t == Tables
    <3> HIDE DEF t
    <3>1. Sound(t) /\ new \in StoredIn(t) /\ old \notin StoredIn(t)
      BY <1>0, <1>3 DEF t, PutReverseVersion
    <3>2. Sound([t EXCEPT !.delta = @ \cup {<<old, new>>}])
          /\ StoredIn(t) \subseteq StoredIn([t EXCEPT !.delta = @ \cup {<<old, new>>}])
      BY <3>1, ReverseSound
    <3> QED  BY <1>0, <3>2 DEF t
  <2>2. Write(u)
    BY <1>3 DEF PutReverseVersion
  <2> HIDE DEF u
  <2> QED  BY <2>1, <2>2, WriteStep
<1>4. ASSUME NEW r \in Revisions, PutRevision(r) PROVE Inv' /\ Kept
  <2> DEFINE t == Tables
             u == Deltified(t, r)
  <2>1. r \in Seq(Versions \X Versions) /\ Sound(t)
    BY <1>0, RevisionsTyped
  <2>2. Write(u)
    BY <1>4 DEF PutRevision
  <2>3. Stored = StoredIn(t)
    BY <1>0
  <2> HIDE DEF t
  <2>4. Sound(u) /\ StoredIn(t) \subseteq StoredIn(u)
    BY <2>1, DeltifiedSound
  <2> HIDE DEF u
  <2> QED  BY <2>2, <2>3, <2>4, WriteStep
<1>5. CASE Begin
  <2>1. Tables' = Tables
    BY <1>5 DEF Begin, Tables
  <2>2. guards' = Append(guards, Tables)
    BY <1>5 DEF Begin
  <2> DEFINE g == Append(guards, Tables)
  <2>3. /\ g \in Seq(TableStates) /\ Len(g) = Len(guards) + 1 /\ Len(guards) \in Nat
        /\ \A i \in 1..Len(guards) : g[i] = guards[i]
        /\ g[Len(guards) + 1] = Tables
    BY <1>0, AppendProperties, LenProperties DEF Inv, GuardsSound
  <2>4. DOMAIN guards = 1..Len(guards) /\ DOMAIN g = 1..(Len(guards) + 1)
    BY <2>3, LenProperties DEF Inv, GuardsSound
  <2> HIDE DEF g
  <2>5. \A i \in DOMAIN g : Sound(g[i])
    <3> SUFFICES ASSUME NEW i \in DOMAIN g PROVE Sound(g[i])
      OBVIOUS
    <3>1. i \in DOMAIN guards \/ i = Len(guards) + 1
      BY <2>3, <2>4
    <3> QED  BY <1>0, <2>3, <2>4, <3>1 DEF Inv, GuardsSound
  <2>6. GuardsSound'
    BY <2>2, <2>3, <2>5 DEF GuardsSound, g
  <2> QED  BY <1>0, <2>1, <2>6 DEF Inv, Kept
<1>6. CASE Commit
  <2>1. Closed(Tables) /\ guards # <<>>
    BY <1>6 DEF Commit
  <2> QED  BY <1>0, <2>1, CloseStep
<1>7. CASE Rollback
  <2>1. guards # <<>> /\ Closed(IF Len(guards) = 1 THEN guards[1] ELSE Tables)
    BY <1>7 DEF Rollback
  <2>2. CASE Len(guards) = 1
    <3>1. Closed(guards[1]) /\ Sound(guards[1])
      BY <2>1, <2>2, FirstGuard
    <3> QED  BY <2>1, <3>1, CloseStep
  <2>3. CASE Len(guards) # 1
    <3>1. Closed(Tables)
      BY <2>1, <2>3
    <3> QED  BY <1>0, <2>1, <3>1, CloseStep
  <2> QED  BY <2>2, <2>3
<1>8. CASE Unwind
  <2>1. guards # <<>> /\ full' = guards[1].full /\ delta' = guards[1].delta /\ guards' = <<>>
    BY <1>8 DEF Unwind
  <2>2. Sound(guards[1])
    BY <2>1, FirstGuard
  <2>3. Tables' = guards[1]
    BY <2>1, <2>2 DEF Tables, Sound, TableStates
  <2>4. GuardsSound'
    BY <2>1 DEF GuardsSound
  <2> QED  BY <2>1, <2>2, <2>3, <2>4 DEF Inv, Kept
<1>9. CASE UNCHANGED vars
  <2>1. Tables' = Tables /\ guards' = guards
    BY <1>9 DEF vars, Tables
  <2>2. GuardsSound'
    BY <2>1 DEF Inv, GuardsSound
  <2> QED  BY <1>0, <2>1, <2>2 DEF Inv, Kept
<1> QED  BY <1>1, <1>2, <1>3, <1>4, <1>5, <1>6, <1>7, <1>8, <1>9 DEF Next

(* Whatever is put, deltified, committed or rolled back: the deltas have   *)
(* no cycle and every base is stored, in the tables and in what each guard *)
(* would give back.                                                        *)
THEOREM Invariant == Spec => []Inv
<1>1. Inv /\ [Next]_vars => Inv'
  BY StepInv
<1> QED  BY InitInv, <1>1, PTL DEF Spec

(* Moving versions between the tables, in any order and for revisions of   *)
(* any size, forgets none; only a rollback takes versions away, and it     *)
(* gives back what the outermost guard has found.                          *)
THEOREM NeverForgets == Spec => NothingForgotten
<1>1. Inv /\ [Next]_vars => Kept
  BY StepInv
<1>2. Kept => (Stored \subseteq StoredIn(Tables') \/ (guards # <<>> /\ Tables' = guards[1]))
  BY DEF Kept
<1>3. Inv /\ [Next]_vars =>
        [Stored \subseteq StoredIn(Tables') \/ (guards # <<>> /\ Tables' = guards[1])]_vars
  BY <1>1, <1>2
<1> QED  BY <1>3, Invariant, PTL DEF Spec, NothingForgotten

-----------------------------------------------------------------------------
(* The search of get_version: its state, and its three loops as functions  *)
(* of the number of turns.                                                 *)

AllExtended(s, p, bs) == InTurn(LAMBDA u, b : Extended(u, p, b), s, bs)
AllTried(s, ps, cache) == InTurn(LAMBDA u, p : PathTried(u, p, cache), s, ps)
Rounds(s, ns, cache) == InTurn(LAMBDA u, n : Round(u, cache), s, ns)

Paths == Seq(Versions) \ {<<>>}
SearchStates ==
  [paths : Seq(Paths), seen : SUBSET Versions,
   result : {"searching", "found", "cycle", "lost"}]

LEMMA LastOf == \A p \in Paths : Len(p) \in Nat \ {0} /\ Last(p) \in Versions
  BY EmptySeq, LenProperties DEF Paths, Last

LEMMA AppendedPath ==
  ASSUME NEW p \in Paths, NEW b \in Versions
  PROVE  /\ Append(p, b) \in Paths /\ Len(Append(p, b)) = Len(p) + 1
         /\ Last(Append(p, b)) = b
         /\ \A i \in 1..Len(p) : Append(p, b)[i] = p[i]
<1>1. p \in Seq(Versions) /\ Len(p) \in Nat
  BY LastOf DEF Paths
<1> DEFINE q == Append(p, b)
<1>2. /\ q \in Seq(Versions) /\ q # <<>> /\ Len(q) = Len(p) + 1 /\ q[Len(p) + 1] = b
      /\ \A i \in 1..Len(p) : q[i] = p[i]
  BY <1>1, AppendProperties
<1> HIDE DEF q
<1>3. Last(q) = b /\ q \in Paths
  BY <1>2 DEF Last, Paths
<1> QED  BY <1>2, <1>3 DEF q

LEMMA ExtendedTyped ==
  ASSUME NEW s \in SearchStates, NEW p \in Paths, NEW b \in Versions
  PROVE  Extended(s, p, b) \in SearchStates
<1>2. Append(s.paths, Append(p, b)) \in Seq(Paths)
  <2> DEFINE q == Append(p, b)
  <2>1. q \in Paths /\ s.paths \in Seq(Paths)
    BY AppendedPath DEF SearchStates
  <2> DEFINE ps == s.paths
  <2>2. ps \in Seq(Paths)
    BY <2>1
  <2> HIDE DEF q, ps
  <2>3. Append(ps, q) \in Seq(Paths)
    BY <2>1, <2>2, AppendProperties
  <2> QED  BY <2>3 DEF q, ps
<1>3. /\ [s EXCEPT !.result = "cycle"] \in SearchStates
      /\ [s EXCEPT !.paths = Append(@, Append(p, b)), !.seen = @ \cup {b}] \in SearchStates
  BY <1>2 DEF SearchStates
<1> QED  BY <1>3 DEF Extended

LEMMA BasesOf ==
  ASSUME Inv, NEW w \in Versions
  PROVE  /\ Bases(w) \in SUBSET Versions
         /\ \A b : b \in Bases(w) <=> <<w, b>> \in delta
         /\ \A b \in Bases(w) : b \in Stored
         /\ w \in Stored \ full => Bases(w) # {}
<1>1. delta \in SUBSET (Versions \X Versions)
  BY DEF Inv, Sound, TableStates, Tables
<1>2. \A b : b \in Bases(w) <=> <<w, b>> \in delta
  <2>1. ASSUME NEW b, b \in Bases(w) PROVE <<w, b>> \in delta
    <3>1. PICK d \in delta : d[1] = w /\ d[2] = b
      BY <2>1 DEF Bases
    <3>2. d = <<w, b>>
      BY <1>1, <3>1
    <3> QED  BY <3>1, <3>2
  <2>2. ASSUME NEW b, <<w, b>> \in delta PROVE b \in Bases(w)
    <3> DEFINE d == <<w, b>>
    <3>1. d \in delta /\ d[1] = w /\ d[2] = b
      BY <2>2
    <3> HIDE DEF d
    <3> QED  BY <3>1 DEF Bases
  <2> QED  BY <2>1, <2>2
<1>3. Bases(w) \in SUBSET Versions
  BY <1>1 DEF Bases
<1>4. ASSUME NEW b \in Bases(w) PROVE b \in Stored
  <2> DEFINE d == <<w, b>>
  <2>1. d \in Tables.delta /\ d[2] = b
    BY <1>2, <1>4 DEF Tables
  <2> HIDE DEF d
  <2> QED  BY <2>1 DEF Inv, Sound, BasesStored, Stored
<1>5. ASSUME w \in Stored \ full PROVE Bases(w) # {}
  <2>1. PICK d \in delta : d[1] = w
    BY <1>5 DEF Stored, StoredIn, Tables
  <2>2. d[2] \in Bases(w)
    BY <2>1 DEF Bases
  <2> QED  BY <2>2
<1> QED  BY <1>2, <1>3, <1>4, <1>5

(* SetToSeq lists the elements of a finite set.                            *)
LEMMA SetListed ==
  ASSUME NEW S \in SUBSET Versions
  PROVE  /\ SetToSeq(S) \in Seq(Versions)
         /\ \A i \in 1..Len(SetToSeq(S)) : SetToSeq(S)[i] \in S
         /\ \A x \in S : \E i \in 1..Len(SetToSeq(S)) : SetToSeq(S)[i] = x
<1> DEFINE n == Cardinality(S)
           l == SetToSeq(S)
<1>1. n \in Nat /\ ExistsBijection(1..n, S) /\ IsFiniteSet(S)
  BY VersionsFinite, FS_Subset, FS_CardinalityType
<1>2. \E f \in [1..n -> S] : IsInjective(f)
  BY <1>1 DEF ExistsBijection, Bijection, Injection
<1>3. l \in [1..n -> S] /\ IsInjective(l)
  BY <1>2 DEF SetToSeq
<1>4. l \in Injection(1..n, S)
  BY <1>3 DEF Injection
<1>5. IsFiniteSet(1..n) /\ Cardinality(1..n) = n
  BY <1>1, FS_Interval
<1>6. l \in Surjection(1..n, S)
  BY <1>1, <1>4, <1>5, FS_Injection
<1> HIDE DEF n, l
<1>7. l \in [1..n -> Versions] /\ \A x \in S : \E i \in 1..n : l[i] = x
  BY <1>3, <1>6 DEF Surjection
<1>8. l \in Seq(Versions) /\ Len(l) = n
  BY <1>1, <1>7
<1> QED  BY <1>3, <1>7, <1>8 DEF l

(* The inner loop: what each of the bases does, one after the other.       *)
LEMMA BasesInTurn ==
  ASSUME NEW s \in SearchStates, NEW p \in Paths, NEW bs \in Seq(Versions)
  PROVE  \E u \in [0..Len(bs) -> SearchStates] :
           /\ u[0] = s /\ AllExtended(s, p, bs) = u[Len(bs)]
           /\ \A n \in 1..Len(bs) : u[n] = Extended(u[n-1], p, bs[n])
<1> DEFINE N == Len(bs)
           E(f) == f = [n \in 0..N |-> IF n = 0 THEN s ELSE Extended(f[n-1], p, bs[n])]
           G == [n \in 1..N |-> [x \in SearchStates |-> Extended(x, p, bs[n])]]
           u == CHOOSE f : E(f)
<1>1. N \in Nat /\ DOMAIN bs = 1..N
  BY LenProperties
<1>2. G \in [1..N -> [SearchStates -> SearchStates]]
  <2>1. ASSUME NEW n \in 1..N, NEW x \in SearchStates PROVE Extended(x, p, bs[n]) \in SearchStates
    BY <1>1, <2>1, ExtendedTyped
  <2> HIDE DEF N
  <2> QED  BY <2>1
<1>4. \E f \in [0..N -> SearchStates] : E(f)
  <2>1. PICK f \in [0..N -> SearchStates] : Turns(f, N, s, G)
    <3> HIDE DEF G, N
    <3> QED  BY <1>1, <1>2, TurnsExist
  <2>2. f = [n \in 0..N |-> IF n = 0 THEN s ELSE G[n][f[n-1]]]
    BY <2>1 DEF Turns
  <2>3. \A n \in 0..N : n # 0 => n \in 1..N /\ f[n-1] \in SearchStates
    <3> HIDE DEF N
    <3> QED  BY <1>1, <2>1
  <2>4. \A n \in 1..N : \A x \in SearchStates : G[n][x] = Extended(x, p, bs[n])
    <3> HIDE DEF N
    <3> QED  OBVIOUS
  <2> HIDE DEF G, N
  <2>5. \A n \in 0..N : n # 0 => G[n][f[n-1]] = Extended(f[n-1], p, bs[n])
    BY <2>3, <2>4
  <2>6. [n \in 0..N |-> IF n = 0 THEN s ELSE G[n][f[n-1]]]
          = [n \in 0..N |-> IF n = 0 THEN s ELSE Extended(f[n-1], p, bs[n])]
    BY <2>5
  <2> QED  BY <2>1, <2>2, <2>6
<1>5. E(u)
  <2> HIDE DEF E
  <2> QED  BY <1>4
<1>6. AllExtended(s, p, bs) = u[N]
  BY DEF InTurn, AllExtended
<1> HIDE DEF u, N
<1>7. /\ u[0] = s /\ DOMAIN u = 0..N
      /\ \A n \in 1..N : u[n] = Extended(u[n-1], p, bs[n])
  <2>1. 0 \in 0..N /\ \A n \in 1..N : n \in 0..N /\ n # 0
    BY <1>1
  <2>2. u = [n \in 0..N |-> IF n = 0 THEN s ELSE Extended(u[n-1], p, bs[n])]
    BY <1>5
  <2> HIDE DEF E
  <2>3. DOMAIN u = 0..N
    BY <2>2
  <2> QED  BY <2>1, <2>2, <2>3, Zenon
<1> HIDE DEF E
<1> DEFINE T == {n \in 0..N : u[n] \in SearchStates}
<1>8. 0 \in T
  BY <1>1, <1>7
<1>9. ASSUME NEW n \in 1..N, n - 1 \in T PROVE n \in T
  <2>1. u[n-1] \in SearchStates /\ n \in 0..N
    BY <1>1, <1>9
  <2>2. G[n][u[n-1]] \in SearchStates
    <3> HIDE DEF G
    <3> QED  BY <1>2, <2>1
  <2>3. G[n][u[n-1]] = Extended(u[n-1], p, bs[n])
    BY <2>1
  <2> QED  BY <1>7, <2>1, <2>2, <2>3
<1>10. 0..N \subseteq T
  <2> HIDE DEF T
  <2> QED  BY <1>1, <1>8, <1>9, IntervalInduction
<1>11. u \in [0..N -> SearchStates]
  <2>1. u = [n \in 0..N |-> u[n]]
    BY <1>5, <1>7 DEF E
  <2>2. \A n \in 0..N : u[n] \in SearchStates
    BY <1>10
  <2> QED  BY <2>1, <2>2
<1> QED  BY <1>6, <1>7, <1>11 DEF N

LEMMA PathTriedTyped ==
  ASSUME Inv, NEW s \in SearchStates, NEW p \in Paths, NEW cache
  PROVE  PathTried(s, p, cache) \in SearchStates
<1> DEFINE bs == SetToSeq(Bases(Last(p)))
<1>1. bs \in Seq(Versions)
  BY LastOf, BasesOf, SetListed
<1>2. [s EXCEPT !.result = "found"] \in SearchStates /\ [s EXCEPT !.result = "lost"] \in SearchStates
  BY DEF SearchStates
<1> HIDE DEF bs
<1>3. PICK u \in [0..Len(bs) -> SearchStates] :
        AllExtended(s, p, bs) = u[Len(bs)]
  BY <1>1, BasesInTurn
<1>4. AllExtended(s, p, bs) \in SearchStates
  <2>1. Len(bs) \in 0..Len(bs)
    BY <1>1, LenProperties
  <2> QED  BY <1>3, <2>1
<1> QED  BY <1>2, <1>4 DEF PathTried, AllExtended, bs

(* A round: what each of the live paths does, one after the other.         *)
LEMMA PathsInTurn ==
  ASSUME Inv, NEW s \in SearchStates, NEW ps \in Seq(Paths), NEW cache
  PROVE  \E u \in [0..Len(ps) -> SearchStates] :
           /\ u[0] = s /\ AllTried(s, ps, cache) = u[Len(ps)]
           /\ \A n \in 1..Len(ps) : u[n] = PathTried(u[n-1], ps[n], cache)
<1> DEFINE N == Len(ps)
           E(f) == f = [n \in 0..N |-> IF n = 0 THEN s ELSE PathTried(f[n-1], ps[n], cache)]
           G == [n \in 1..N |-> [x \in SearchStates |-> PathTried(x, ps[n], cache)]]
           u == CHOOSE f : E(f)
<1>1. N \in Nat /\ DOMAIN ps = 1..N
  BY LenProperties
<1>2. G \in [1..N -> [SearchStates -> SearchStates]]
  <2>1. ASSUME NEW n \in 1..N, NEW x \in SearchStates PROVE PathTried(x, ps[n], cache) \in SearchStates
    BY <1>1, <2>1, PathTriedTyped
  <2> HIDE DEF N
  <2> QED  BY <2>1
<1>4. \E f \in [0..N -> SearchStates] : E(f)
  <2>1. PICK f \in [0..N -> SearchStates] : Turns(f, N, s, G)
    <3> HIDE DEF G, N
    <3> QED  BY <1>1, <1>2, TurnsExist
  <2>2. f = [n \in 0..N |-> IF n = 0 THEN s ELSE G[n][f[n-1]]]
    BY <2>1 DEF Turns
  <2>3. \A n \in 0..N : n # 0 => n \in 1..N /\ f[n-1] \in SearchStates
    <3> HIDE DEF N
    <3> QED  BY <1>1, <2>1
  <2>4. \A n \in 1..N : \A x \in SearchStates : G[n][x] = PathTried(x, ps[n], cache)
    <3> HIDE DEF N
    <3> QED  OBVIOUS
  <2> HIDE DEF G, N
  <2>5. \A n \in 0..N : n # 0 => G[n][f[n-1]] = PathTried(f[n-1], ps[n], cache)
    BY <2>3, <2>4
  <2>6. [n \in 0..N |-> IF n = 0 THEN s ELSE G[n][f[n-1]]]
          = [n \in 0..N |-> IF n = 0 THEN s ELSE PathTried(f[n-1], ps[n], cache)]
    BY <2>5
  <2> QED  BY <2>1, <2>2, <2>6
<1>5. E(u)
  <2> HIDE DEF E
  <2> QED  BY <1>4
<1>6. AllTried(s, ps, cache) = u[N]
  BY DEF InTurn, AllTried
<1> HIDE DEF u, N
<1>7. /\ u[0] = s /\ DOMAIN u = 0..N
      /\ \A n \in 1..N : u[n] = PathTried(u[n-1], ps[n], cache)
  <2>1. 0 \in 0..N /\ \A n \in 1..N : n \in 0..N /\ n # 0
    BY <1>1
  <2>2. u = [n \in 0..N |-> IF n = 0 THEN s ELSE PathTried(u[n-1], ps[n], cache)]
    BY <1>5
  <2> HIDE DEF E
  <2>3. DOMAIN u = 0..N
    BY <2>2
  <2> QED  BY <2>1, <2>2, <2>3, Zenon
<1> HIDE DEF E
<1> DEFINE T == {n \in 0..N : u[n] \in SearchStates}
<1>8. 0 \in T
  BY <1>1, <1>7
<1>9. ASSUME NEW n \in 1..N, n - 1 \in T PROVE n \in T
  <2>1. u[n-1] \in SearchStates /\ n \in 0..N
    BY <1>1, <1>9
  <2>2. G[n][u[n-1]] \in SearchStates
    <3> HIDE DEF G
    <3> QED  BY <1>2, <2>1
  <2>3. G[n][u[n-1]] = PathTried(u[n-1], ps[n], cache)
    BY <2>1
  <2> QED  BY <1>7, <2>1, <2>2, <2>3
<1>10. 0..N \subseteq T
  <2> HIDE DEF T
  <2> QED  BY <1>1, <1>8, <1>9, IntervalInduction
<1>11. u \in [0..N -> SearchStates]
  <2>1. u = [n \in 0..N |-> u[n]]
    BY <1>5, <1>7 DEF E
  <2>2. \A n \in 0..N : u[n] \in SearchStates
    BY <1>10
  <2> QED  BY <2>1, <2>2
<1> QED  BY <1>6, <1>7, <1>11 DEF N

LEMMA RoundTyped ==
  ASSUME Inv, NEW s \in SearchStates, NEW cache
  PROVE  /\ Round(s, cache) \in SearchStates
         /\ [s EXCEPT !.paths = <<>>] \in SearchStates /\ s.paths \in Seq(Paths)
<1> DEFINE t == [s EXCEPT !.paths = <<>>]
           ps == s.paths
<1>1. t \in SearchStates /\ ps \in Seq(Paths)
  <2>1. <<>> \in Seq(Paths)
    BY EmptySeq
  <2> QED  BY <2>1 DEF SearchStates
<1>2. Round(s, cache) = AllTried(t, ps, cache)
  BY DEF Round, AllTried
<1> HIDE DEF t, ps
<1>3. PICK u \in [0..Len(ps) -> SearchStates] :
        /\ u[0] = t /\ AllTried(t, ps, cache) = u[Len(ps)]
        /\ \A n \in 1..Len(ps) : u[n] = PathTried(u[n-1], ps[n], cache)
  BY <1>1, PathsInTurn
<1>4. Len(ps) \in 0..Len(ps)
  BY <1>1, LenProperties
<1> QED  BY <1>1, <1>2, <1>3, <1>4 DEF t, ps

(* The whole search: one round after the other.                            *)
LEMMA RoundsInTurn ==
  ASSUME Inv, NEW s \in SearchStates, NEW ns \in Seq(Nat), NEW cache
  PROVE  \E u \in [0..Len(ns) -> SearchStates] :
           /\ u[0] = s /\ Rounds(s, ns, cache) = u[Len(ns)]
           /\ \A n \in 1..Len(ns) : u[n] = Round(u[n-1], cache)
<1> DEFINE N == Len(ns)
           E(f) == f = [n \in 0..N |-> IF n = 0 THEN s ELSE Round(f[n-1], cache)]
           G == [n \in 1..N |-> [x \in SearchStates |-> Round(x, cache)]]
           u == CHOOSE f : E(f)
<1>1. N \in Nat /\ DOMAIN ns = 1..N
  BY LenProperties
<1>2. G \in [1..N -> [SearchStates -> SearchStates]]
  <2>1. ASSUME NEW n \in 1..N, NEW x \in SearchStates PROVE Round(x, cache) \in SearchStates
    BY <2>1, RoundTyped
  <2> HIDE DEF N
  <2> QED  BY <2>1
<1>4. \E f \in [0..N -> SearchStates] : E(f)
  <2>1. PICK f \in [0..N -> SearchStates] : Turns(f, N, s, G)
    <3> HIDE DEF G, N
    <3> QED  BY <1>1, <1>2, TurnsExist
  <2>2. f = [n \in 0..N |-> IF n = 0 THEN s ELSE G[n][f[n-1]]]
    BY <2>1 DEF Turns
  <2>3. \A n \in 0..N : n # 0 => n \in 1..N /\ f[n-1] \in SearchStates
    <3> HIDE DEF N
    <3> QED  BY <1>1, <2>1
  <2>4. \A n \in 1..N : \A x \in SearchStates : G[n][x] = Round(x, cache)
    <3> HIDE DEF N
    <3> QED  OBVIOUS
  <2> HIDE DEF G, N
  <2>5. \A n \in 0..N : n # 0 => G[n][f[n-1]] = Round(f[n-1], cache)
    BY <2>3, <2>4
  <2>6. [n \in 0..N |-> IF n = 0 THEN s ELSE G[n][f[n-1]]]
          = [n \in 0..N |-> IF n = 0 THEN s ELSE Round(f[n-1], cache)]
    BY <2>5
  <2> QED  BY <2>1, <2>2, <2>6
<1>5. E(u)
  <2> HIDE DEF E
  <2> QED  BY <1>4
<1>6. Rounds(s, ns, cache) = u[N]
  BY DEF InTurn, Rounds
<1> HIDE DEF u, N
<1>7. /\ u[0] = s /\ DOMAIN u = 0..N
      /\ \A n \in 1..N : u[n] = Round(u[n-1], cache)
  <2>1. 0 \in 0..N /\ \A n \in 1..N : n \in 0..N /\ n # 0
    BY <1>1
  <2>2. u = [n \in 0..N |-> IF n = 0 THEN s ELSE Round(u[n-1], cache)]
    BY <1>5
  <2> HIDE DEF E
  <2>3. DOMAIN u = 0..N
    BY <2>2
  <2> QED  BY <2>1, <2>2, <2>3, Zenon
<1> HIDE DEF E
<1> DEFINE T == {n \in 0..N : u[n] \in SearchStates}
<1>8. 0 \in T
  BY <1>1, <1>7
<1>9. ASSUME NEW n \in 1..N, n - 1 \in T PROVE n \in T
  <2>1. u[n-1] \in SearchStates /\ n \in 0..N
    BY <1>1, <1>9
  <2>2. G[n][u[n-1]] \in SearchStates
    <3> HIDE DEF G
    <3> QED  BY <1>2, <2>1
  <2>3. G[n][u[n-1]] = Round(u[n-1], cache)
    BY <2>1
  <2> QED  BY <1>7, <2>1, <2>2, <2>3
<1>10. 0..N \subseteq T
  <2> HIDE DEF T
  <2> QED  BY <1>1, <1>8, <1>9, IntervalInduction
<1>11. u \in [0..N -> SearchStates]
  <2>1. u = [n \in 0..N |-> u[n]]
    BY <1>5, <1>7 DEF E
  <2>2. \A n \in 0..N : u[n] \in SearchStates
    BY <1>10
  <2> QED  BY <2>1, <2>2
<1> QED  BY <1>6, <1>7, <1>11 DEF N

-----------------------------------------------------------------------------
(* What the search has found out at any moment: its paths go from base to  *)
(* base without repetition, and each version it has seen is the tip of a   *)
(* path, or is pending (the tip of a path of this round that has yet to be *)
(* tried), or has all of its bases among those seen.                       *)

Tips(ps) == {Last(ps[i]) : i \in DOMAIN ps}

Chain(p, m) ==
  /\ p \in Paths /\ Len(p) = m
  /\ \A i \in 1..m : p[i] \in Stored
  /\ \A i \in 1..(m - 1) : p[i+1] \in Bases(p[i])
  /\ \A i, j \in 1..m : p[i] = p[j] => i = j

Tried(s, w) == Bases(w) # {} /\ Bases(w) \subseteq s.seen

Covers(s, v, pending) ==
  \A w \in s.seen \cup {v} : w \in pending \cup Tips(s.paths) \/ Tried(s, w)

Sought(s, v, m, pending) ==
  /\ s \in SearchStates
  /\ \/ s.result = "found"
     \/ /\ s.result = "searching"
        /\ \A i \in DOMAIN s.paths : Chain(s.paths[i], m)
        /\ Covers(s, v, pending)

(* Along the deltas the search never comes back to a version of the path.  *)
LEMMA NoCycle ==
  ASSUME Inv, NEW m \in Nat \ {0}, NEW p, Chain(p, m), NEW b \in Bases(Last(p))
  PROVE  b \notin ToSet(p)
<1>0. /\ p \in Seq(Versions) /\ Len(p) = m /\ DOMAIN p = 1..m /\ Last(p) = p[m]
      /\ \A i \in 1..m : p[i] \in Versions
  BY LenProperties, ElementOfSeq DEF Chain, Paths, Last
<1> SUFFICES ASSUME NEW k \in 1..m, p[k] = b PROVE FALSE
  BY <1>0 DEF ToSet
<1> DEFINE S == {p[j] : j \in k..m}
<1>1. S \in SUBSET Versions /\ p[k] \in S
  BY <1>0
<1>2. PICK x \in S : \A d \in delta : d[1] = x => d[2] \notin S
  <2>1. Acyclic(Tables) /\ Tables.delta = delta
    BY DEF Inv, Sound, Tables
  <2> HIDE DEF S
  <2> QED  BY <1>1, <2>1 DEF Acyclic
<1>3. \A y \in Bases(x) : y \notin S
  <2> SUFFICES ASSUME NEW y \in Bases(x) PROVE y \notin S
    OBVIOUS
  <2> DEFINE d == <<x, y>>
  <2>1. d \in delta /\ d[1] = x /\ d[2] = y
    BY <1>1, <1>2, BasesOf
  <2> HIDE DEF d, S
  <2> QED  BY <1>2, <2>1
<1>4. PICK j \in k..m : x = p[j]
  BY <1>2
<1>5. CASE j = m
  BY <1>0, <1>1, <1>3, <1>4, <1>5
<1>6. CASE j # m
  <2>1. j \in 1..(m - 1) /\ j + 1 \in k..m
    BY <1>4, <1>6
  <2>2. p[j+1] \in Bases(x) /\ p[j+1] \in S
    BY <1>4, <2>1 DEF Chain
  <2> QED  BY <1>3, <2>2
<1> QED  BY <1>5, <1>6

LEMMA ChainExtended ==
  ASSUME Inv, NEW m \in Nat \ {0}, NEW p, Chain(p, m), NEW b \in Bases(Last(p))
  PROVE  Chain(Append(p, b), m + 1)
<1>0. /\ p \in Paths /\ Len(p) = m /\ DOMAIN p = 1..m /\ Last(p) = p[m]
      /\ Last(p) \in Versions
  BY LastOf, LenProperties DEF Chain, Paths, Last
<1>1. b \in Versions /\ b \in Stored
  BY <1>0, BasesOf
<1>2. \A i \in 1..m : p[i] # b
  BY <1>0, NoCycle DEF ToSet
<1> DEFINE q == Append(p, b)
<1>3. /\ q \in Paths /\ Len(q) = m + 1 /\ Last(q) = b
      /\ \A i \in 1..m : q[i] = p[i]
  BY <1>0, <1>1, AppendedPath
<1> HIDE DEF q
<1>4. q[m+1] = b
  BY <1>3 DEF Last
<1>5. \A i \in 1..(m+1) : i \in 1..m \/ i = m + 1
  OBVIOUS
<1>6. \A i \in 1..(m+1) : q[i] \in Stored
  BY <1>1, <1>3, <1>4, <1>5 DEF Chain
<1>7. \A i \in 1..((m + 1) - 1) : q[i+1] \in Bases(q[i])
  <2> SUFFICES ASSUME NEW i \in 1..m PROVE q[i+1] \in Bases(q[i])
    OBVIOUS
  <2>1. CASE i = m
    BY <1>0, <1>3, <1>4, <2>1
  <2>2. CASE i # m
    <3>1. i \in 1..(m - 1) /\ i + 1 \in 1..m
      BY <2>2
    <3> QED  BY <1>3, <3>1 DEF Chain
  <2> QED  BY <2>1, <2>2
<1>8. \A i, j \in 1..(m+1) : q[i] = q[j] => i = j
  BY <1>2, <1>3, <1>4, <1>5 DEF Chain
<1> QED  BY <1>3, <1>6, <1>7, <1>8 DEF Chain, q

LEMMA TipsAppended ==
  ASSUME NEW ps \in Seq(Paths), NEW q \in Paths
  PROVE  /\ Append(ps, q) \in Seq(Paths)
         /\ Tips(Append(ps, q)) = Tips(ps) \cup {Last(q)}
         /\ \A i \in DOMAIN Append(ps, q) :
              \/ i \in DOMAIN ps /\ Append(ps, q)[i] = ps[i]
              \/ Append(ps, q)[i] = q
<1> DEFINE l == Append(ps, q)
           n == Len(ps)
<1>1. /\ n \in Nat /\ DOMAIN ps = 1..n /\ l \in Seq(Paths) /\ Len(l) = n + 1
      /\ \A i \in 1..n : l[i] = ps[i]
      /\ l[n+1] = q
  BY AppendProperties, LenProperties
<1>2. DOMAIN l = 1..(n + 1)
  BY <1>1, LenProperties
<1> HIDE DEF l, n
<1>3. \A i \in 1..(n + 1) : i \in 1..n \/ i = n + 1
  BY <1>1
<1>4. \A i \in 1..n : i \in 1..(n + 1)
  BY <1>1
<1>5. n + 1 \in 1..(n + 1)
  BY <1>1
<1>6. Tips(l) = Tips(ps) \cup {Last(q)}
  <2>1. Tips(l) \subseteq Tips(ps) \cup {Last(q)}
    <3> SUFFICES ASSUME NEW i \in DOMAIN l PROVE Last(l[i]) \in Tips(ps) \cup {Last(q)}
      BY DEF Tips
    <3> QED  BY <1>1, <1>2, <1>3 DEF Tips
  <2>2. Tips(ps) \subseteq Tips(l)
    <3> SUFFICES ASSUME NEW i \in DOMAIN ps PROVE Last(ps[i]) \in Tips(l)
      BY DEF Tips
    <3>1. i \in DOMAIN l /\ l[i] = ps[i]
      BY <1>1, <1>2, <1>4
    <3> QED  BY <3>1 DEF Tips
  <2>3. Last(q) \in Tips(l)
    <3>1. n + 1 \in DOMAIN l /\ l[n + 1] = q
      BY <1>1, <1>2, <1>5
    <3> QED  BY <3>1 DEF Tips
  <2> QED  BY <2>1, <2>2, <2>3
<1> QED  BY <1>1, <1>2, <1>3, <1>6 DEF l

(* extend_path_if_not_cycle.                                               *)
LEMMA ExtendedStep ==
  ASSUME Inv, NEW v, NEW m \in Nat \ {0}, NEW p, Chain(p, m), NEW b \in Bases(Last(p)),
         NEW pending, NEW s, Sought(s, v, m + 1, pending)
  PROVE  /\ Sought(Extended(s, p, b), v, m + 1, pending)
         /\ s.seen \cup {b} \subseteq Extended(s, p, b).seen
<1> DEFINE t == Extended(s, p, b)
           q == Append(p, b)
<1>0. /\ p \in Paths /\ b \in Versions /\ s \in SearchStates /\ s.paths \in Seq(Paths)
      /\ s.seen \in SUBSET Versions
  <2>1. p \in Paths /\ s \in SearchStates
    BY DEF Chain, Sought
  <2>2. b \in Versions
    BY <2>1, LastOf, BasesOf
  <2> QED  BY <2>1, <2>2 DEF SearchStates
<1>1. b \notin ToSet(p)
  BY NoCycle
<1>2. CASE b \in s.seen
  <2>1. t = s
    BY <1>1, <1>2 DEF Extended
  <2> HIDE DEF t
  <2> QED  BY <1>2, <2>1 DEF t
<1>3. CASE b \notin s.seen
  <2>1. t \in SearchStates
    BY <1>0, ExtendedTyped
  <2>2. t = [s EXCEPT !.paths = Append(@, q), !.seen = @ \cup {b}]
    BY <1>1, <1>3 DEF Extended
  <2> DEFINE l == Append(s.paths, q)
  <2>3. t.paths = l /\ t.seen = s.seen \cup {b} /\ t.result = s.result
    BY <1>0, <2>2 DEF SearchStates
  <2>4. q \in Paths /\ Last(q) = b
    BY <1>0, AppendedPath
  <2>5. Chain(q, m + 1)
    BY ChainExtended
  <2>6. /\ Tips(l) = Tips(s.paths) \cup {b}
        /\ \A i \in DOMAIN l : (i \in DOMAIN s.paths /\ l[i] = s.paths[i]) \/ l[i] = q
    <3> DEFINE ps == s.paths
    <3>1. ps \in Seq(Paths)
      BY <1>0
    <3> HIDE DEF ps, q
    <3>2. /\ Tips(Append(ps, q)) = Tips(ps) \cup {Last(q)}
          /\ \A i \in DOMAIN Append(ps, q) :
               (i \in DOMAIN ps /\ Append(ps, q)[i] = ps[i]) \/ Append(ps, q)[i] = q
      BY <2>4, <3>1, TipsAppended
    <3> QED  BY <2>4, <3>2 DEF ps
  <2> HIDE DEF t, q, l
  <2>7. ASSUME s.result = "searching" /\ \A i \in DOMAIN s.paths : Chain(s.paths[i], m + 1)
        PROVE  \A i \in DOMAIN t.paths : Chain(t.paths[i], m + 1)
    BY <2>3, <2>5, <2>6, <2>7
  <2>8. ASSUME Covers(s, v, pending) PROVE Covers(t, v, pending)
    BY <2>3, <2>6, <2>8 DEF Covers, Tried
  <2>9. Sought(t, v, m + 1, pending)
    BY <2>1, <2>3, <2>7, <2>8 DEF Sought
  <2> QED  BY <2>3, <2>9 DEF t
<1> QED  BY <1>2, <1>3

(* Once every base of a tip has had its turn, the tip is tried.            *)
LEMMA BasesTried ==
  ASSUME Inv, NEW v, NEW m \in Nat \ {0}, NEW p, Chain(p, m), Bases(Last(p)) # {},
         NEW pending, NEW s, Sought(s, v, m + 1, pending \cup {Last(p)})
  PROVE  Sought(AllExtended(s, p, SetToSeq(Bases(Last(p)))), v, m + 1, pending)
<1> DEFINE B == Bases(Last(p))
           bs == SetToSeq(B)
           N == Len(bs)
           P == pending \cup {Last(p)}
<1>0. p \in Paths /\ Last(p) \in Versions /\ B \in SUBSET Versions /\ s \in SearchStates
  BY LastOf, BasesOf DEF Chain, Sought
<1>1. /\ bs \in Seq(Versions) /\ N \in Nat
      /\ \A i \in 1..N : bs[i] \in B
      /\ \A x \in B : \E i \in 1..N : bs[i] = x
  <2> HIDE DEF B
  <2> QED  BY <1>0, SetListed, LenProperties
<1> HIDE DEF bs
<1>2. PICK u \in [0..N -> SearchStates] :
        /\ u[0] = s /\ AllExtended(s, p, bs) = u[N]
        /\ \A n \in 1..N : u[n] = Extended(u[n-1], p, bs[n])
  <2>1. s \in SearchStates /\ p \in Paths /\ bs \in Seq(Versions)
    BY <1>0, <1>1
  <2> QED  BY <2>1, BasesInTurn
<1> HIDE DEF N, P
<1> DEFINE T == {n \in 0..N : /\ Sought(u[n], v, m + 1, P)
                              /\ \A j \in 1..n : bs[j] \in u[n].seen}
<1>3. 0 \in T
  BY <1>1, <1>2 DEF P
<1>4. ASSUME NEW n \in 1..N, n - 1 \in T PROVE n \in T
  <2> DEFINE x == u[n-1]
             y == u[n]
  <2>1. Sought(x, v, m + 1, P) /\ (\A j \in 1..(n-1) : bs[j] \in x.seen) /\ bs[n] \in B
        /\ y = Extended(x, p, bs[n])
    BY <1>1, <1>2, <1>4
  <2> HIDE DEF x, y
  <2>2. Sought(y, v, m + 1, P) /\ x.seen \cup {bs[n]} \subseteq y.seen
    BY <2>1, ExtendedStep
  <2>3. \A j \in 1..n : j \in 1..(n-1) \/ j = n
    BY <1>1
  <2>4. \A j \in 1..n : bs[j] \in y.seen
    BY <2>1, <2>2, <2>3
  <2>5. n \in 0..N
    BY <1>1
  <2> QED  BY <2>2, <2>4, <2>5 DEF y
<1>5. 0..N \subseteq T
  <2> HIDE DEF T
  <2> QED  BY <1>1, <1>3, <1>4, IntervalInduction
<1>6. Sought(u[N], v, m + 1, P) /\ \A j \in 1..N : bs[j] \in u[N].seen
  BY <1>1, <1>5
<1> DEFINE t == u[N]
<1>7. B \subseteq t.seen
  BY <1>1, <1>6
<1> HIDE DEF t
<1>8. ASSUME Covers(t, v, P) PROVE Covers(t, v, pending)
  BY <1>7, <1>8 DEF Covers, Tried, P
<1>9. Sought(t, v, m + 1, pending)
  BY <1>6, <1>8 DEF Sought, t
<1> QED  BY <1>2, <1>9 DEF t, bs

(* A path of a round.                                                      *)
LEMMA PathTriedStep ==
  ASSUME Inv, NEW v, NEW m \in Nat \ {0}, NEW p, Chain(p, m), NEW cache,
         NEW pending, NEW s, Sought(s, v, m + 1, pending \cup {Last(p)})
  PROVE  Sought(PathTried(s, p, cache), v, m + 1, pending)
<1>0. /\ p \in Paths /\ Last(p) \in Versions /\ Last(p) \in Stored
      /\ s \in SearchStates /\ s.result \in {"found", "searching"}
  <2>1. p \in Paths /\ s \in SearchStates /\ s.result \in {"found", "searching"}
    BY DEF Chain, Sought
  <2>2. Last(p) = p[m] /\ m \in 1..m
    BY DEF Chain, Last
  <2> QED  BY <2>1, <2>2, LastOf DEF Chain
<1>1. CASE s.result # "searching"
  <2>1. PathTried(s, p, cache) = s /\ s.result = "found"
    BY <1>0, <1>1 DEF PathTried
  <2> QED  BY <1>0, <2>1 DEF Sought
<1>2. CASE s.result = "searching" /\ Last(p) \in cache \cup full
  <2> DEFINE t == [s EXCEPT !.result = "found"]
  <2>1. PathTried(s, p, cache) = t
    BY <1>2 DEF PathTried
  <2>2. t \in SearchStates /\ t.result = "found"
    BY <1>0 DEF SearchStates
  <2> HIDE DEF t
  <2> QED  BY <2>1, <2>2 DEF Sought
<1>3. CASE s.result = "searching" /\ ~(Last(p) \in cache \cup full)
  <2>1. Bases(Last(p)) # {}
    BY <1>0, <1>3, BasesOf
  <2>2. PathTried(s, p, cache) = AllExtended(s, p, SetToSeq(Bases(Last(p))))
    BY <1>3, <2>1 DEF PathTried, AllExtended
  <2> QED  BY <2>1, <2>2, BasesTried
<1> QED  BY <1>1, <1>2, <1>3

(* A round: at its beginning all tips are pending, at its end none.        *)
LEMMA RoundStep ==
  ASSUME Inv, NEW v, NEW m \in Nat \ {0}, NEW cache, NEW s, Sought(s, v, m, {})
  PROVE  Sought(Round(s, cache), v, m + 1, {})
<1> DEFINE t == [s EXCEPT !.paths = <<>>]
           ps == s.paths
           N == Len(ps)
           Left(n) == {Last(ps[i]) : i \in (n+1)..N}
<1>1. /\ s \in SearchStates /\ t \in SearchStates /\ ps \in Seq(Paths)
      /\ N \in Nat /\ DOMAIN ps = 1..N
      /\ t.paths = <<>> /\ t.seen = s.seen /\ t.result = s.result
  <2>1. s \in SearchStates
    BY DEF Sought
  <2>2. t \in SearchStates /\ ps \in Seq(Paths)
    BY <2>1, RoundTyped
  <2>3. t.paths = <<>> /\ t.seen = s.seen /\ t.result = s.result
    BY <2>1 DEF SearchStates
  <2> HIDE DEF t, ps
  <2> QED  BY <2>1, <2>2, <2>3, LenProperties
<1>2. Round(s, cache) = AllTried(t, ps, cache)
  BY DEF Round, AllTried
<1>3. s.result = "searching" =>
        (\A i \in 1..N : Chain(ps[i], m)) /\ Covers(s, v, {})
  BY <1>1 DEF Sought
<1>4. s.result \in {"searching", "found"}
  BY DEF Sought
<1>5. Left(0) = Tips(ps)
  BY <1>1 DEF Tips
<1>6. Sought(t, v, m + 1, Left(0))
  <2>1. CASE s.result = "found"
    BY <1>1, <2>1 DEF Sought
  <2>2. CASE s.result = "searching"
    <3>1. Covers(t, v, Tips(ps))
      <4>1. Covers(s, v, {})
        BY <1>3, <2>2
      <4> HIDE DEF t
      <4> QED  BY <1>1, <4>1 DEF Covers, Tried
    <3>2. \A i \in DOMAIN t.paths : Chain(t.paths[i], m + 1)
      BY <1>1
    <3> HIDE DEF t, Left
    <3> QED  BY <1>1, <1>5, <2>2, <3>1, <3>2 DEF Sought
  <2> QED  BY <1>4, <2>1, <2>2
<1> HIDE DEF t, ps
<1>7. PICK u \in [0..N -> SearchStates] :
        /\ u[0] = t /\ AllTried(t, ps, cache) = u[N]
        /\ \A n \in 1..N : u[n] = PathTried(u[n-1], ps[n], cache)
  <2>1. t \in SearchStates /\ ps \in Seq(Paths)
    BY <1>1
  <2> QED  BY <2>1, PathsInTurn
<1>8. \A n \in 1..N : Left(n-1) = Left(n) \cup {Last(ps[n])}
  <2> SUFFICES ASSUME NEW n \in 1..N PROVE Left(n-1) = Left(n) \cup {Last(ps[n])}
    OBVIOUS
  <2>1. ((n-1)+1)..N = ((n+1)..N) \cup {n}
    BY <1>1
  <2> HIDE DEF N
  <2> QED  BY <2>1, Zenon
<1>9. Left(N) = {}
  <2>1. (N+1)..N = {}
    BY <1>1
  <2> HIDE DEF N
  <2> QED  BY <2>1, Zenon
<1>10. CASE s.result = "searching"
  <2> HIDE DEF Left, N
  <2> DEFINE T == {n \in 0..N : Sought(u[n], v, m + 1, Left(n))}
  <2>1. 0 \in T
    BY <1>1, <1>6, <1>7
  <2>2. ASSUME NEW n \in 1..N, n - 1 \in T PROVE n \in T
    <3> DEFINE x == u[n-1]
               y == u[n]
               p == ps[n]
               pending == Left(n)
    <3>1. Sought(x, v, m + 1, Left(n-1)) /\ Left(n-1) = pending \cup {Last(p)}
          /\ Chain(p, m) /\ y = PathTried(x, p, cache)
      BY <1>3, <1>7, <1>8, <1>10, <2>2
    <3> HIDE DEF x, y, p, pending
    <3>2. Sought(x, v, m + 1, pending \cup {Last(p)})
      BY <3>1
    <3>3. Sought(y, v, m + 1, pending)
      BY <3>1, <3>2, PathTriedStep
    <3>4. n \in 0..N
      BY <1>1
    <3> QED  BY <3>3, <3>4 DEF y, pending
  <2>3. 0..N \subseteq T
    <3> HIDE DEF T
    <3> QED  BY <1>1, <2>1, <2>2, IntervalInduction
  <2>4. Sought(u[N], v, m + 1, Left(N))
    BY <1>1, <2>3
  <2> QED  BY <1>2, <1>7, <1>9, <2>4
<1>11. CASE s.result = "found"
  <2> HIDE DEF N
  <2> DEFINE T == {n \in 0..N : u[n] = t}
  <2>1. 0 \in T
    BY <1>1, <1>7
  <2>2. ASSUME NEW n \in 1..N, n - 1 \in T PROVE n \in T
    <3>1. u[n-1] = t /\ u[n] = PathTried(u[n-1], ps[n], cache) /\ n \in 0..N
      BY <1>1, <1>7, <2>2
    <3>2. PathTried(t, ps[n], cache) = t
      BY <1>1, <1>11 DEF PathTried
    <3> QED  BY <3>1, <3>2
  <2>3. 0..N \subseteq T
    <3> HIDE DEF T
    <3> QED  BY <1>1, <2>1, <2>2, IntervalInduction
  <2>4. u[N] = t
    BY <1>1, <2>3
  <2>5. Sought(t, v, m + 1, {})
    BY <1>1, <1>11 DEF Sought
  <2> QED  BY <1>2, <1>7, <2>4, <2>5
<1> QED  BY <1>4, <1>10, <1>11

(* No chain is longer than there are versions.                             *)
LEMMA ChainBounded ==
  ASSUME NEW p, Chain(p, Cardinality(Versions) + 1)
  PROVE  FALSE
<1> DEFINE N == Cardinality(Versions)
<1>1. N \in Nat /\ IsFiniteSet(1..(N+1)) /\ Cardinality(1..(N+1)) = N + 1
  BY VersionsFinite, FS_CardinalityType, FS_Interval
<1>2. p \in [1..(N+1) -> Versions]
  BY LenProperties DEF Chain, Paths
<1>3. \A i, j \in 1..(N+1) : p[i] = p[j] => i = j
  BY DEF Chain
<1>4. Cardinality(Versions) < Cardinality(1..(N+1))
  BY <1>1
<1> DEFINE I == 1..(N+1)
<1> HIDE DEF I
<1>5. \E x, y \in I : x # y /\ p[x] = p[y]
  BY <1>1, <1>2, <1>4, VersionsFinite, FS_PigeonHole DEF I
<1> QED  BY <1>3, <1>5 DEF I

(* A search that has no path left has found what it looks for: otherwise   *)
(* the versions it has seen would all be deltas from each other.           *)
LEMMA SearchFinds ==
  ASSUME Inv, NEW v \in Stored, NEW cache
  PROVE  Search(v, cache) = "found"
<1> DEFINE N == Cardinality(Versions)
           s == [paths |-> <<<<v>>>>, seen |-> {}, result |-> "searching"]
           ns == [i \in 1..N |-> i]
<1>0. v \in Versions
  BY StoredTyped DEF Inv, Sound, Stored
<1>1. N \in Nat /\ ns \in Seq(Nat) /\ Len(ns) = N
  BY VersionsFinite, FS_CardinalityType
<1>2. Search(v, cache) = Rounds(s, ns, cache).result
  BY DEF Search, Rounds
<1>3. Sought(s, v, 1, {})
  <2> DEFINE p == <<v>>
             ps == <<p>>
  <2>1. p \in Paths /\ Len(p) = 1 /\ p[1] = v /\ Last(p) = v
    BY <1>0 DEF Paths, Last
  <2>2. Chain(p, 1)
    BY <2>1 DEF Chain
  <2> HIDE DEF p
  <2>3. ps \in Seq(Paths) /\ DOMAIN ps = {1} /\ ps[1] = p
    BY <2>1
  <2>4. s.paths = ps /\ s.seen = {} /\ s.result = "searching"
    BY DEF p
  <2> HIDE DEF ps
  <2>5. s \in SearchStates
    BY <2>3 DEF SearchStates, ps, p
  <2> HIDE DEF s
  <2>6. v \in Tips(s.paths)
    BY <2>1, <2>3, <2>4 DEF Tips
  <2>7. Covers(s, v, {})
    BY <2>4, <2>6 DEF Covers
  <2>8. \A i \in DOMAIN s.paths : Chain(s.paths[i], 1)
    BY <2>2, <2>3, <2>4
  <2> QED  BY <2>4, <2>5, <2>7, <2>8 DEF Sought
<1> HIDE DEF ns, s
<1>4. PICK u \in [0..Len(ns) -> SearchStates] :
        /\ u[0] = s /\ Rounds(s, ns, cache) = u[Len(ns)]
        /\ \A n \in 1..Len(ns) : u[n] = Round(u[n-1], cache)
  <2>1. s \in SearchStates /\ ns \in Seq(Nat)
    BY <1>1, <1>3 DEF Sought
  <2> QED  BY <2>1, RoundsInTurn
<1> HIDE DEF N
<1> DEFINE T == {n \in 0..N : Sought(u[n], v, n + 1, {})}
<1>5. 0 \in T
  BY <1>1, <1>3, <1>4
<1>6. ASSUME NEW n \in 1..N, n - 1 \in T PROVE n \in T
  <2> DEFINE x == u[n-1]
             y == u[n]
  <2>1. Sought(x, v, (n - 1) + 1, {}) /\ (n - 1) + 1 = n /\ n \in Nat \ {0} /\ n \in 0..N
        /\ y = Round(x, cache)
    BY <1>1, <1>4, <1>6
  <2> HIDE DEF x, y
  <2>2. Sought(x, v, n, {})
    BY <2>1
  <2>3. Sought(y, v, n + 1, {})
    BY <2>1, <2>2, RoundStep
  <2> QED  BY <2>1, <2>3 DEF y
<1>7. 0..N \subseteq T
  <2> HIDE DEF T
  <2> QED  BY <1>1, <1>5, <1>6, IntervalInduction
<1> DEFINE z == u[N]
<1>8. Sought(z, v, N + 1, {})
  BY <1>1, <1>7
<1> HIDE DEF z
<1>9. ASSUME z.result # "found" PROVE FALSE
  <2>1. /\ z \in SearchStates
        /\ \A i \in DOMAIN z.paths : Chain(z.paths[i], N + 1)
        /\ Covers(z, v, {})
    BY <1>8, <1>9 DEF Sought
  <2>2. DOMAIN z.paths = {}
    BY <2>1, ChainBounded DEF N
  <2>3. Tips(z.paths) = {}
    BY <2>2 DEF Tips
  <2> DEFINE S == z.seen \cup {v}
  <2>4. S \in SUBSET Versions /\ S # {}
    BY <1>0, <2>1 DEF SearchStates
  <2>5. \A w \in S : Bases(w) # {} /\ Bases(w) \subseteq S
    BY <2>1, <2>3 DEF Covers, Tried
  <2> HIDE DEF S
  <2>6. PICK x \in S : \A d \in delta : d[1] = x => d[2] \notin S
    <3>1. Acyclic(Tables) /\ Tables.delta = delta
      BY DEF Inv, Sound, Tables
    <3> QED  BY <2>4, <3>1 DEF Acyclic
  <2>7. PICK b : b \in Bases(x) /\ b \in S
    BY <2>5
  <2> DEFINE d == <<x, b>>
  <2>8. d \in delta /\ d[1] = x /\ d[2] = b
    BY <2>4, <2>7, BasesOf
  <2> HIDE DEF d
  <2> QED  BY <2>6, <2>7, <2>8
<1>10. z = Rounds(s, ns, cache)
  BY <1>1, <1>4 DEF z
<1> QED  BY <1>2, <1>9, <1>10

(* Every version that is stored can be read, however the versions were put *)
(* and deltified: for any number of versions, any order of the bases and   *)
(* any cache get_version finds a way, in a round per version at most.      *)
THEOREM EveryVersionReadable == Spec => []Readable
<1>1. Inv => Readable
  BY SearchFinds DEF Readable
<1> QED  BY <1>1, Invariant, PTL
=============================================================================
