----------------------- MODULE AncestryFetcherProofs ------------------------
(***************************************************************************)
(* What is proved of the analysis of an ancestry, for any finite acyclic   *)
(* history, any part of it in the database and any versions in it:         *)
(* exactly the missing versions are asked for, each once, what is asked    *)
(* for can be put together, and where no wanted revision is only the       *)
(* parent of unwanted ones, the heads and the certs kept are right.        *)
(***************************************************************************)
EXTENDS AncestryFetcher, DataLemmas

-----------------------------------------------------------------------------
(* The inductive invariant.                                                *)

Ids == Revs \cup {NullRev}
VerIds == Versions \cup {NullVer}

Types ==
  /\ conf \in Configs
  /\ phase \in {"heads", "ancestry", "requests", "done"}
  /\ heads \subseteq Ancestry /\ certs \subseteq Ancestry /\ tmp \in Seq(Ids)
  /\ frontier \in Seq(Ancestry) /\ seen_revs \subseteq Ids /\ passed \subseteq Ids
  /\ consumed \in Seq(Ancestry)
  /\ deltas \in [fwd : SUBSET (VerIds \X Versions), rev : SUBSET (Versions \X Versions),
                seen : SUBSET VerIds]
  /\ todo \subseteq deltas.fwd
  /\ stack \in Seq(Versions) /\ done_items \subseteq Versions
  /\ requests \subseteq VerIds \X Versions

(* Nothing of a phase is there before it.                                  *)
InPhase ==
  /\ phase \in {"heads", "ancestry"} =>
       requests = {} /\ stack = <<>> /\ todo = {} /\ done_items = {}
  /\ phase = "heads" =>
       /\ frontier = <<>> /\ seen_revs = {} /\ passed = {} /\ consumed = <<>>
       /\ deltas.fwd = {} /\ deltas.rev = {} /\ deltas.seen = {}
  /\ phase \in {"requests", "done"} => frontier = <<>>
  /\ phase = "done" => stack = <<>> /\ todo = {}

(* traverse_ancestry: the revisions seen so far are above the heads, and   *)
(* the new ones of them have been consumed or wait.                        *)
Traversed ==
  phase # "heads" =>
    /\ heads \subseteq seen_revs
    /\ seen_revs \cap Revs \subseteq Ancestors(heads)
    /\ seen_revs \cap Ancestry = Elems(consumed) \cup Elems(frontier)
    /\ \A r \in Elems(consumed) : Parents(r) \subseteq seen_revs
    /\ passed \subseteq seen_revs
    /\ passed \subseteq IF frontier = <<>> THEN {} ELSE Parents(Head(frontier))

(* The edges that have been followed.                                      *)
Followed(p, r) ==
  \/ r \in Elems(consumed) /\ p \in Parents(r)
  \/ frontier # <<>> /\ r = Head(frontier) /\ p \in passed

Source(p) == IF p = NullRev THEN NullVer ELSE conf.ver[p]

(* The versions that revisions above the heads name.                       *)
Named == {conf.ver[r] : r \in Ancestors(heads)}

(* The versions that a set of deltas leads to.                             *)
Targets(F) == {d[2] : d \in F}

(* C holds the targets of forward deltas and what reverse deltas lead to   *)
(* from its members.                                                       *)
Reached(C) ==
  /\ Targets(deltas.fwd) \subseteq C
  /\ \A d \in deltas.rev : d[1] \in C => d[2] \in C

(* The maps of deltas: they lead to every version seen.                    *)
Mapped ==
  phase # "heads" =>
    /\ Targets(deltas.fwd) \subseteq Named
    /\ \A d \in deltas.rev : d[2] \in Named
    /\ conf.kind = "manifest" =>
         /\ \A h \in heads : conf.ver[h] \in Targets(deltas.fwd)
         /\ \A r \in Revs, p \in Revs : Followed(p, r) => <<conf.ver[r], conf.ver[p]>> \in deltas.rev
    /\ conf.kind = "file" =>
         /\ \A r \in Revs, p \in Ids :
              Followed(p, r) /\ Source(p) # conf.ver[r] => {Source(p), conf.ver[r]} \subseteq deltas.seen
         /\ \A C \in SUBSET Versions : Reached(C) => deltas.seen \subseteq C \cup {NullVer}

(* What request_files and request_rev_file_deltas have gone through.       *)
Asked == done_items \cup Targets(deltas.fwd \ todo)

Requesting ==
  phase \in {"requests", "done"} =>
    /\ Requested = Asked \ conf.stored
    /\ \A q1, q2 \in requests : q1[2] = q2[2] => q1 = q2
    /\ Asked \subseteq Named
    /\ Elems(stack) \subseteq Asked
    /\ \A v \in Asked : v \in Elems(stack) \/ \A d \in deltas.rev : d[1] = v => d[2] \in done_items

(* The versions that can be put together from what is stored and asked.    *)
Built ==
  {v \in Versions :
     \A C \in SUBSET Versions :
       conf.stored \subseteq C /\ (\A q \in requests : q[1] \in C \cup {NullVer} => q[2] \in C)
         => v \in C}

Buildable == Requested \cup Elems(stack) \subseteq Built

Inv == Types /\ InPhase /\ Traversed /\ Mapped /\ Requesting /\ Buildable

(* get_heads_and_consume_certs.  A revision is dropped after its children; *)
(* one of which all children are dropped and unwanted is dropped or waits  *)
(* for it.  What the database has, and the null id, may wait as well.      *)
Dropped == Ancestry \ certs

HeadsInv ==
  /\ WantedTips \subseteq heads /\ heads \subseteq Ancestry \cap conf.wanted
  /\ heads \subseteq WantedTips \cup Dropped
  /\ \A r \in Dropped : r \notin WantedTips /\ Kids(r) \subseteq Dropped
  /\ \A r \in Ancestry \ WantedTips :
       Kids(r) \subseteq Dropped \ conf.wanted => r \in Dropped \cup Elems(tmp)
  /\ phase = "heads" =>
       /\ chld_num \in [Ids -> Nat]
       /\ \A p \in Ids : chld_num[p] = Cardinality(Kids(p) \ Dropped)
       /\ \A r \in Elems(tmp) :
            Kids(r) \subseteq Dropped /\ r \notin Dropped /\ r \notin WantedTips
       /\ NoDuplicates(tmp)
  /\ phase # "heads" => tmp = <<>>

-----------------------------------------------------------------------------
(* Histories.                                                              *)

LEMMA ConfFacts ==
  ASSUME conf \in Configs
  PROVE  /\ conf.kind \in {"file", "manifest"}
         /\ \A r \in Revs : Parents(r) \subseteq Ids /\ Parents(r) # {} /\ conf.ver[r] \in Versions
         /\ conf.known \subseteq Revs /\ conf.wanted \subseteq Revs /\ conf.stored \subseteq Versions
         /\ \A r \in conf.known : Parents(r) \subseteq conf.known \cup {NullRev}
         /\ \A r \in conf.known : conf.ver[r] \in conf.stored
         /\ Ancestry \subseteq Revs /\ Ancestry = Revs \ conf.known
         /\ NullRev \notin Revs /\ NullVer \notin Versions
  BY ConfigsTyped, NullsApart DEF Parents, Ancestry, Ids

(* Every set of revisions has one without a parent in it.                  *)
LEMMA Oldest ==
  ASSUME conf \in Configs, NEW S \in SUBSET Revs, S # {}
  PROVE  \E m \in S : Parents(m) \cap S = {}
  BY ConfigsAcyclic, ZenonT(30) DEF Parents

LEMMA AncestorsHold ==
  ASSUME NEW S \in SUBSET Revs
  PROVE  /\ S \subseteq Ancestors(S) /\ Ancestors(S) \subseteq Revs
         /\ \A r \in Ancestors(S) : Parents(r) \cap Revs \subseteq Ancestors(S)
<1>1. S \subseteq Ancestors(S) /\ Ancestors(S) \subseteq Revs
  BY DEF Ancestors
<1>2. ASSUME NEW r \in Ancestors(S), NEW p \in Parents(r) \cap Revs PROVE p \in Ancestors(S)
  <2> SUFFICES ASSUME NEW C \in SUBSET Revs, S \subseteq C,
                      \A c \in C : Parents(c) \subseteq C \cup {NullRev}
               PROVE  p \in C
    BY DEF Ancestors
  <2>1. r \in C
    BY DEF Ancestors
  <2> QED  BY <2>1, NullsApart
<1> QED  BY <1>1, <1>2

LEMMA AncestorsLeast ==
  ASSUME NEW S \in SUBSET Revs, NEW C \in SUBSET Revs, S \subseteq C,
         \A c \in C : Parents(c) \subseteq C \cup {NullRev}
  PROVE  Ancestors(S) \subseteq C
  BY DEF Ancestors

LEMMA SameConf ==
  ASSUME conf' = conf
  PROVE  /\ Ancestry' = Ancestry
         /\ \A r : Parents(r)' = Parents(r)
         /\ \A p : Source(p)' = Source(p)
         /\ heads' = heads => Ancestors(heads)' = Ancestors(heads) /\ Named' = Named
  BY DEF Ancestry, Parents, Source, Named, Ancestors

(* What a step does that leaves the maps of deltas and the traversal.      *)
LEMMA TraversalKept ==
  ASSUME Inv, phase # "heads", phase' # "heads",
         UNCHANGED <<conf, heads, frontier, seen_revs, passed, consumed, deltas>>
  PROVE  Traversed' /\ Mapped'
<1>1. /\ Ancestry' = Ancestry /\ Ancestors(heads)' = Ancestors(heads) /\ Named' = Named
      /\ \A r : Parents(r)' = Parents(r)
      /\ \A p : Source(p)' = Source(p)
  BY SameConf
<1>2. Traversed'
  BY <1>1 DEF Inv, Traversed, Elems
<1>3. \A p, r : Followed(p, r)' <=> Followed(p, r)
  BY <1>1 DEF Followed, Elems
<1>4. \A C : Reached(C)' <=> Reached(C)
  BY DEF Reached
<1>5. Mapped'
  BY <1>1, <1>3, <1>4 DEF Inv, Mapped
<1> QED  BY <1>2, <1>5

-----------------------------------------------------------------------------
(* get_heads_and_consume_certs, as far as what follows needs it.           *)

LEMMA InitInv == ASSUME Init PROVE Inv
<1>1. /\ conf \in Configs /\ phase = "heads" /\ certs = Ancestry
      /\ heads \subseteq Ancestry
      /\ frontier = <<>> /\ seen_revs = {} /\ passed = {} /\ consumed = <<>>
      /\ deltas = [fwd |-> {}, rev |-> {}, seen |-> {}]
      /\ todo = {} /\ stack = <<>> /\ done_items = {} /\ requests = {}
  BY DEF Init, Ancestry
<1>2. tmp \in Seq(Ids)
  <2> DEFINE T == (Ancestry \ UNION {conf.parents[r] : r \in Ancestry}) \ conf.wanted
  <2>1. tmp \in SetToSeqs(T)
    BY DEF Init, Ancestry, Orders
  <2>2. IsFiniteSet(T) /\ T \subseteq Ids
    <3>1. T \subseteq Revs
      BY DEF Ancestry
    <3> HIDE DEF T
    <3> QED  BY <3>1, RevsFinite, FS_Subset DEF Ids
  <2> HIDE DEF T
  <2>3. tmp \in Seq(T)
    BY <2>1, <2>2, SetOrders
  <2> QED  BY <2>2, <2>3
<1>3. Types
  <2>1. frontier \in Seq(Ancestry) /\ consumed \in Seq(Ancestry) /\ stack \in Seq(Versions)
    BY <1>1, EmptySeq
  <2>2. deltas \in [fwd : SUBSET (VerIds \X Versions), rev : SUBSET (Versions \X Versions),
                    seen : SUBSET VerIds]
    BY <1>1
  <2> QED  BY <1>1, <1>2, <2>1, <2>2 DEF Types
<1>4. InPhase
  BY <1>1 DEF InPhase
<1>5. Traversed /\ Mapped /\ Requesting
  BY <1>1 DEF Traversed, Mapped, Requesting
<1>6. Buildable
  BY <1>1, EmptyMap DEF Buildable, Requested
<1> QED  BY <1>3, <1>4, <1>5, <1>6 DEF Inv

LEMMA DropHeadInv == ASSUME Inv, DropHead PROVE Inv'
<1>1. /\ phase = "heads" /\ phase' = "heads" /\ tmp # <<>> /\ conf' = conf
      /\ UNCHANGED <<frontier, seen_revs, passed, consumed, deltas, todo, stack, done_items, requests>>
  BY DEF DropHead
<1>2. Types
  BY DEF Inv
<1>3. /\ Tail(tmp) \in Seq(Ids) /\ Head(tmp) \in Ids
  BY <1>1, <1>2, ElemsTail DEF Types
<1>4. heads' \subseteq Ancestry /\ certs' \subseteq Ancestry
  BY <1>2 DEF DropHead, Types
<1>5. tmp' \in Seq(Ids)
  <2> DEFINE r == Head(tmp)
             E == IF HasBranchCert(r) THEN {} ELSE {p \in Parents(r) : chld_num[p] = 1}
  <2>1. CASE r \notin Ancestry
    BY <1>3, <2>1 DEF DropHead
  <2>2. CASE r \in Ancestry
    <3>1. PICK q \in SetToSeqs(E) : tmp' = Tail(tmp) \o q
      BY <2>2 DEF DropHead, Orders
    <3>2. E \subseteq Ids /\ IsFiniteSet(E)
      <4>1. Parents(r) \subseteq Ids /\ E \subseteq Parents(r)
        BY <1>2, <2>2, ConfFacts DEF Types
      <4>2. IsFiniteSet(Ids)
        BY RevsFinite, FS_AddElement DEF Ids
      <4> HIDE DEF E
      <4> QED  BY <4>1, <4>2, FS_Subset
    <3> HIDE DEF E
    <3>3. q \in Seq(E)
      BY <3>1, <3>2, SetOrders
    <3>4. q \in Seq(Ids)
      BY <3>2, <3>3
    <3> QED  BY <1>3, <3>1, <3>4, ElemsConcat
  <2> QED  BY <2>1, <2>2
<1>6. Ancestry' = Ancestry
  BY <1>1, SameConf
<1>7. Types'
  BY <1>1, <1>2, <1>4, <1>5, <1>6 DEF Types
<1>8. InPhase'
  BY <1>1 DEF Inv, InPhase
<1>9. Traversed' /\ Mapped' /\ Requesting'
  BY <1>1 DEF Traversed, Mapped, Requesting
<1>10. Buildable'
  <2>1. requests' = {} /\ stack' = <<>>
    BY <1>1 DEF Inv, InPhase
  <2> QED  BY <2>1, EmptyMap DEF Buildable, Requested
<1> QED  BY <1>7, <1>8, <1>9, <1>10 DEF Inv

LEMMA StartAncestryInv == ASSUME Inv, StartAncestry PROVE Inv'
<1>1. /\ phase = "heads" /\ phase' = "ancestry" /\ conf' = conf /\ heads' = heads /\ certs' = certs
      /\ tmp' = tmp /\ consumed' = consumed /\ passed' = passed /\ seen_revs' = heads
      /\ UNCHANGED <<todo, stack, done_items, requests>>
      /\ deltas' = [deltas EXCEPT !.fwd = IF conf.kind = "manifest"
                                         THEN {<<conf.ver[h], conf.ver[h]>> : h \in heads} ELSE {}]
  BY DEF StartAncestry
<1>2. Types /\ Ancestry \subseteq Revs /\ heads \subseteq Revs
      /\ \A r \in Revs : conf.ver[r] \in Versions
  BY ConfFacts DEF Inv, Types
<1>3. /\ deltas.fwd = {} /\ deltas.rev = {} /\ deltas.seen = {} /\ consumed = <<>> /\ passed = {}
      /\ requests = {} /\ stack = <<>> /\ todo = {} /\ done_items = {}
  BY <1>1 DEF Inv, InPhase
<1>4. /\ deltas' \in [fwd : SUBSET (VerIds \X Versions), rev : SUBSET (Versions \X Versions),
                      seen : SUBSET VerIds]
      /\ deltas'.fwd = IF conf.kind = "manifest" THEN {<<conf.ver[h], conf.ver[h]>> : h \in heads} ELSE {}
      /\ deltas'.rev = {} /\ deltas'.seen = {}
  <2> DEFINE F == IF conf.kind = "manifest" THEN {<<conf.ver[h], conf.ver[h]>> : h \in heads} ELSE {}
  <2>1. F \in SUBSET (VerIds \X Versions)
    BY <1>2 DEF VerIds
  <2>2. deltas' = [deltas EXCEPT !.fwd = F]
    BY <1>1
  <2> HIDE DEF F
  <2>3. deltas' = [fwd |-> F, rev |-> {}, seen |-> {}]
    BY <1>2, <1>3, <2>2 DEF Types
  <2>4. deltas' \in [fwd : SUBSET (VerIds \X Versions), rev : SUBSET (Versions \X Versions),
                     seen : SUBSET VerIds]
    BY <2>1, <2>3
  <2> QED  BY <2>3, <2>4 DEF F
<1>5. frontier' \in Seq(Ancestry) /\ Elems(frontier') = heads
  <2>1. PICK q \in SetToSeqs(heads) : frontier' = q
    BY DEF StartAncestry, Orders
  <2>2. IsFiniteSet(heads) /\ heads \subseteq Ancestry
    BY <1>2, RevsFinite, FS_Subset DEF Types
  <2>3. q \in Seq(heads) /\ Elems(q) = heads
    BY <2>1, <2>2, SetOrders
  <2> QED  BY <2>1, <2>2, <2>3
<1>6. /\ Ancestry' = Ancestry /\ Ancestors(heads)' = Ancestors(heads) /\ Named' = Named
      /\ heads \subseteq Ancestors(heads)
  BY <1>1, <1>2, SameConf, AncestorsHold
<1>7. Types'
  BY <1>1, <1>2, <1>3, <1>4, <1>5, <1>6 DEF Types, Ids
<1>8. InPhase'
  BY <1>1, <1>3 DEF InPhase
<1>9. Traversed'
  <2>1. Elems(consumed') = {}
    BY <1>1, <1>3, EmptyMap
  <2>2. heads \subseteq Ancestry /\ heads \cap Ancestry = heads
    BY <1>2 DEF Types
  <2>3. Elems(consumed)' = {} /\ Elems(frontier)' = heads
    BY <1>5, <2>1 DEF Elems
  <2> QED  BY <1>1, <1>3, <1>6, <2>2, <2>3 DEF Traversed
<1>10. Mapped'
  <2>1. \A p, r : ~Followed(p, r)'
    <3>1. Elems(consumed)' = {} /\ passed' = {}
      BY <1>1, <1>3, EmptyMap DEF Elems
    <3> QED  BY <3>1 DEF Followed
  <2>2. \A h \in heads : conf.ver[h] \in Named
    BY <1>6 DEF Named
  <2>3. \A d \in deltas'.fwd : conf.kind = "manifest" /\ \E h \in heads : d[2] = conf.ver[h]
    BY <1>4
  <2>4. Targets(deltas'.fwd) \subseteq Named
    BY <2>2, <2>3 DEF Targets
  <2>5. conf.kind = "manifest" => \A h \in heads : conf.ver[h] \in Targets(deltas'.fwd)
    <3> SUFFICES ASSUME conf.kind = "manifest", NEW h \in heads
                 PROVE  \E d \in deltas'.fwd : d[2] = conf.ver[h]
      BY DEF Targets
    <3>1. <<conf.ver[h], conf.ver[h]>> \in deltas'.fwd
      BY <1>4
    <3> QED  BY <3>1
  <2> QED  BY <1>1, <1>4, <1>6, <2>1, <2>4, <2>5 DEF Mapped, Targets
<1>11. Requesting' /\ Buildable'
  <2>1. requests' = {} /\ stack' = <<>>
    BY <1>1, <1>3
  <2> QED  BY <1>1, <2>1, EmptyMap DEF Requesting, Buildable, Requested
<1> QED  BY <1>7, <1>8, <1>9, <1>10, <1>11 DEF Inv

-----------------------------------------------------------------------------
(* traverse_files and traverse_manifest.                                   *)

Deltas == [fwd : SUBSET (VerIds \X Versions), rev : SUBSET (Versions \X Versions),
           seen : SUBSET VerIds]

(* A forward delta that starts elsewhere still leads to the same version.  *)
LEMMA MovedTargets ==
  ASSUME NEW F \in SUBSET (VerIds \X Versions), NEW src \in VerIds, NEW dst
  PROVE  Moved(F, src, dst) \subseteq VerIds \X Versions /\ Targets(Moved(F, src, dst)) = Targets(F)
<1> DEFINE A == {d \in F : d[1] # dst}
           B == {e \in F : e[1] = dst}
           G == {<<src, d[2]>> : d \in B}
<1>1. Moved(F, src, dst) = A \cup G
  BY DEF Moved
<1>2. \A d \in F : d[2] \in Versions
  OBVIOUS
<1>3. G \subseteq VerIds \X Versions
  <2> SUFFICES ASSUME NEW e \in B PROVE <<src, e[2]>> \in VerIds \X Versions
    OBVIOUS
  <2> QED  BY <1>2
<1>4. Targets(G) = Targets(B)
  <2>1. \A e \in B : <<src, e[2]>>[2] = e[2]
    OBVIOUS
  <2>2. \A x \in Targets(B) : x \in Targets(G)
    <3> SUFFICES ASSUME NEW e \in B PROVE e[2] \in Targets(G)
      BY DEF Targets
    <3>1. <<src, e[2]>> \in G /\ <<src, e[2]>>[2] = e[2]
      OBVIOUS
    <3> HIDE DEF G
    <3> QED  BY <3>1, Zenon DEF Targets
  <2>3. \A x \in Targets(G) : x \in Targets(B)
    <3> SUFFICES ASSUME NEW e \in B PROVE e[2] \in Targets(B)
      BY <2>1 DEF Targets
    <3> QED  BY DEF Targets
  <2> QED  BY <2>2, <2>3
<1>5. F = A \cup B
  OBVIOUS
<1> HIDE DEF A, B, G
<1>6. Targets(A \cup G) = Targets(A) \cup Targets(G) /\ Targets(A \cup B) = Targets(A) \cup Targets(B)
  BY DEF Targets
<1>7. A \subseteq VerIds \X Versions
  BY <1>5
<1> QED  BY <1>1, <1>3, <1>4, <1>5, <1>6, <1>7

LEMMA ReversedTyped ==
  ASSUME NEW R \in SUBSET (Versions \X Versions), NEW src \in VerIds, NEW dst \in Versions
  PROVE  /\ Reversed(R, src, dst) \subseteq Versions \X Versions
         /\ Reversed(R, src, dst) = R \cup {d \in {<<dst, src>>} : src # NullVer}
<1>1. src # NullVer => src \in Versions
  BY DEF VerIds
<1> QED  BY <1>1 DEF Reversed

LEMMA FileStep ==
  ASSUME NEW g \in Deltas, NEW src \in VerIds, NEW dst \in Versions
  PROVE  /\ TraverseFile(g, src, dst) \in Deltas
         /\ TraverseFile(g, src, dst).seen = g.seen \cup {src, dst}
         /\ TraverseFile(g, src, dst).rev = g.rev \cup {d \in {<<dst, src>>} : src # NullVer}
         /\ Targets(TraverseFile(g, src, dst).fwd)
              = Targets(g.fwd) \cup {v \in {dst} : v \notin g.seen}
<1> DEFINE new == g.fwd \cup IF dst \in g.seen THEN {} ELSE {<<src, dst>>}
           F == IF src = NullVer THEN new ELSE Moved(new, src, dst)
           R == Reversed(g.rev, src, dst)
<1>1. TraverseFile(g, src, dst) = [fwd |-> F, rev |-> R, seen |-> g.seen \cup {src, dst}]
  BY DEF TraverseFile
<1>2. g.fwd \subseteq VerIds \X Versions /\ g.rev \subseteq Versions \X Versions /\ g.seen \subseteq VerIds
  BY DEF Deltas
<1>3. new \subseteq VerIds \X Versions /\ Targets(new) = Targets(g.fwd) \cup {v \in {dst} : v \notin g.seen}
  <2>1. CASE dst \in g.seen
    BY <1>2, <2>1
  <2>2. CASE dst \notin g.seen
    <3>1. <<src, dst>> \in VerIds \X Versions /\ <<src, dst>>[2] = dst
      OBVIOUS
    <3> DEFINE N == {<<src, dst>>}
    <3>2. Targets(N) = {dst} /\ N \subseteq VerIds \X Versions
      BY <3>1 DEF Targets
    <3>3. new = g.fwd \cup N
      BY <2>2
    <3> HIDE DEF N, new
    <3>4. Targets(g.fwd \cup N) = Targets(g.fwd) \cup Targets(N)
      BY DEF Targets
    <3> QED  BY <1>2, <2>2, <3>2, <3>3, <3>4
  <2> QED  BY <2>1, <2>2
<1>4. F \subseteq VerIds \X Versions /\ Targets(F) = Targets(new)
  <2> HIDE DEF new
  <2> QED  BY <1>3, MovedTargets
<1>5. R \subseteq Versions \X Versions /\ R = g.rev \cup {d \in {<<dst, src>>} : src # NullVer}
  BY <1>2, ReversedTyped
<1>6. g.seen \cup {src, dst} \subseteq VerIds
  BY <1>2 DEF VerIds
<1> HIDE DEF new, F, R
<1>7. [fwd |-> F, rev |-> R, seen |-> g.seen \cup {src, dst}] \in Deltas
  BY <1>4, <1>5, <1>6 DEF Deltas
<1> QED  BY <1>1, <1>3, <1>4, <1>5, <1>7

LEMMA ManifestStep ==
  ASSUME NEW g \in Deltas, NEW src \in VerIds, NEW dst \in Versions
  PROVE  /\ TraverseManifest(g, src, dst) \in Deltas
         /\ TraverseManifest(g, src, dst).seen = g.seen
         /\ TraverseManifest(g, src, dst).rev = g.rev \cup {d \in {<<dst, src>>} : src # NullVer}
         /\ Targets(TraverseManifest(g, src, dst).fwd) = Targets(g.fwd)
<1> DEFINE F == IF src \in {NullVer, dst} THEN g.fwd ELSE Moved(g.fwd, src, dst)
           R == Reversed(g.rev, src, dst)
<1>1. TraverseManifest(g, src, dst) = [fwd |-> F, rev |-> R, seen |-> g.seen]
  BY DEF TraverseManifest
<1>2. g.fwd \subseteq VerIds \X Versions /\ g.rev \subseteq Versions \X Versions /\ g.seen \subseteq VerIds
  BY DEF Deltas
<1>3. F \subseteq VerIds \X Versions /\ Targets(F) = Targets(g.fwd)
  BY <1>2, MovedTargets
<1>4. R \subseteq Versions \X Versions /\ R = g.rev \cup {d \in {<<dst, src>>} : src # NullVer}
  BY <1>2, ReversedTyped
<1> HIDE DEF F, R
<1>5. [fwd |-> F, rev |-> R, seen |-> g.seen] \in Deltas
  BY <1>2, <1>3, <1>4 DEF Deltas
<1> QED  BY <1>1, <1>3, <1>4, <1>5

(* What the edge from p to r does to the maps.                             *)
LEMMA EdgeStep ==
  ASSUME NEW g \in Deltas, conf \in Configs, NEW r \in Revs, NEW p \in Ids
  PROVE  /\ TraverseEdge(g, p, r) \in Deltas
         /\ conf.kind = "manifest" =>
              /\ TraverseEdge(g, p, r).seen = g.seen
              /\ TraverseEdge(g, p, r).rev = g.rev \cup {d \in {<<conf.ver[r], Source(p)>>} : Source(p) # NullVer}
              /\ Targets(TraverseEdge(g, p, r).fwd) = Targets(g.fwd)
         /\ conf.kind = "file" /\ Source(p) = conf.ver[r] => TraverseEdge(g, p, r) = g
         /\ conf.kind = "file" /\ Source(p) # conf.ver[r] =>
              /\ TraverseEdge(g, p, r).seen = g.seen \cup {Source(p), conf.ver[r]}
              /\ TraverseEdge(g, p, r).rev = g.rev \cup {d \in {<<conf.ver[r], Source(p)>>} : Source(p) # NullVer}
              /\ Targets(TraverseEdge(g, p, r).fwd)
                   = Targets(g.fwd) \cup {v \in {conf.ver[r]} : v \notin g.seen}
<1> DEFINE src == Source(p)
           dst == conf.ver[r]
<1>1. src \in VerIds /\ dst \in Versions
  BY ConfFacts DEF Source, Ids, VerIds
<1>2. TraverseEdge(g, p, r) = IF conf.kind = "manifest" THEN TraverseManifest(g, src, dst)
                              ELSE IF src = dst THEN g ELSE TraverseFile(g, src, dst)
  BY DEF TraverseEdge, Source
<1> HIDE DEF src, dst
<1>3. conf.kind \in {"file", "manifest"}
  BY ConfFacts
<1>4. CASE conf.kind = "manifest"
  BY <1>1, <1>2, <1>4, ManifestStep DEF src, dst
<1>5. CASE conf.kind = "file" /\ src = dst
  BY <1>2, <1>5 DEF src, dst
<1>6. CASE conf.kind = "file" /\ src # dst
  <2>1. TraverseEdge(g, p, r) = TraverseFile(g, src, dst)
    BY <1>2, <1>6
  <2> QED  BY <1>1, <1>6, <2>1, FileStep DEF src, dst
<1> QED  BY <1>3, <1>4, <1>5, <1>6

(* An edge: its parent is seen and waits if it is new, and the maps lead   *)
(* to the versions of both its ends.                                       *)
LEMMA FollowEdgeInv == ASSUME Inv, FollowEdge PROVE Inv'
<1> DEFINE r == Head(frontier)
<1>1. /\ phase = "ancestry" /\ frontier # <<>> /\ phase' = phase /\ conf' = conf /\ heads' = heads
      /\ UNCHANGED <<certs, tmp, consumed, todo, stack, done_items, requests>>
  BY DEF FollowEdge
<1>2. PICK p \in Parents(r) \ passed :
        /\ passed' = passed \cup {p}
        /\ seen_revs' = seen_revs \cup {p}
        /\ frontier' = IF p \in Ancestry \ seen_revs THEN Append(frontier, p) ELSE frontier
        /\ deltas' = TraverseEdge(deltas, p, r)
  BY DEF FollowEdge
<1>3. Types
  BY DEF Inv
<1>4. /\ heads \subseteq seen_revs
      /\ seen_revs \cap Revs \subseteq Ancestors(heads)
      /\ seen_revs \cap Ancestry = Elems(consumed) \cup Elems(frontier)
      /\ \A q \in Elems(consumed) : Parents(q) \subseteq seen_revs
      /\ passed \subseteq seen_revs /\ passed \subseteq Parents(r)
  BY <1>1 DEF Inv, Traversed
<1>5. /\ r \in Ancestry /\ r \in Elems(frontier)
  BY <1>1, <1>3, ElemsTail DEF Types
<1>6. /\ r \in Revs /\ p \in Parents(r) /\ p \in Ids /\ r \in Ancestors(heads)
      /\ Ancestry \subseteq Revs /\ heads \subseteq Revs
      /\ p # NullRev => p \in Revs /\ p \in Ancestors(heads)
  <2>1. r \in Revs /\ Parents(r) \subseteq Ids /\ Ancestry \subseteq Revs
    BY <1>3, <1>5, ConfFacts DEF Types
  <2>2. r \in Ancestors(heads) /\ heads \subseteq Revs
    BY <1>3, <1>4, <1>5, <2>1 DEF Types
  <2>3. Parents(r) \cap Revs \subseteq Ancestors(heads)
    BY <2>2, AncestorsHold
  <2> QED  BY <1>2, <2>1, <2>2, <2>3 DEF Ids
<1>7. /\ frontier' \in Seq(Ancestry) /\ frontier' # <<>> /\ Head(frontier') = r
      /\ Elems(frontier') = Elems(frontier) \cup {q \in {p} : q \in Ancestry \ seen_revs}
  <2>1. CASE p \in Ancestry \ seen_revs
    <3>1. /\ frontier \in Seq(Ancestry) /\ frontier' = Append(frontier, p) /\ frontier # <<>>
      BY <1>1, <1>2, <1>3, <2>1 DEF Types
    <3>2. /\ frontier' \in Seq(Ancestry) /\ frontier' # <<>> /\ Head(frontier') = Head(frontier)
          /\ Elems(frontier') = Elems(frontier) \cup {p}
      BY <2>1, <3>1, ElemsAppend
    <3> QED  BY <2>1, <3>2
  <2>2. CASE p \notin Ancestry \ seen_revs
    BY <1>1, <1>2, <1>3, <2>2 DEF Types
  <2> QED  BY <2>1, <2>2
<1>8. /\ Ancestry' = Ancestry /\ Ancestors(heads)' = Ancestors(heads) /\ Named' = Named
      /\ \A q : Parents(q)' = Parents(q)
      /\ \A q : Source(q)' = Source(q)
  BY <1>1, SameConf
<1>9. deltas \in Deltas /\ deltas' \in Deltas
  BY <1>2, <1>3, <1>6, EdgeStep DEF Types, Deltas
<1>10. Types'
  <2>1. todo' = {}
    BY <1>1 DEF Inv, InPhase
  <2>2. seen_revs' \subseteq Ids /\ passed' \subseteq Ids
    BY <1>2, <1>3, <1>6 DEF Types
  <2>3. deltas' \in [fwd : SUBSET (VerIds \X Versions), rev : SUBSET (Versions \X Versions),
                     seen : SUBSET VerIds]
    BY <1>9 DEF Deltas
  <2>4. conf' \in Configs /\ phase' \in {"heads", "ancestry", "requests", "done"}
        /\ heads' \subseteq Ancestry' /\ certs' \subseteq Ancestry' /\ tmp' \in Seq(Ids)
        /\ consumed' \in Seq(Ancestry')
        /\ stack' \in Seq(Versions) /\ done_items' \subseteq Versions
        /\ requests' \subseteq VerIds \X Versions
    BY <1>1, <1>3, <1>8 DEF Types
  <2> QED  BY <1>7, <1>8, <2>1, <2>2, <2>3, <2>4 DEF Types
<1>11. InPhase'
  BY <1>1 DEF Inv, InPhase
<1>12. Traversed'
  <2>1. Elems(consumed)' = Elems(consumed) /\ Elems(frontier)' = Elems(frontier')
    BY <1>1 DEF Elems
  <2>2. heads \subseteq seen_revs' /\ seen_revs' \cap Revs \subseteq Ancestors(heads)
    BY <1>2, <1>4, <1>6, NullsApart
  <2>3. seen_revs' \cap Ancestry = Elems(consumed) \cup Elems(frontier')
    BY <1>2, <1>4, <1>7
  <2>4. \A q \in Elems(consumed) : Parents(q) \subseteq seen_revs'
    BY <1>2, <1>4
  <2>5. passed' \subseteq seen_revs' /\ passed' \subseteq Parents(r)
    BY <1>2, <1>4
  <2> QED  BY <1>1, <1>7, <1>8, <2>1, <2>2, <2>3, <2>4, <2>5 DEF Traversed
<1>13. \A x, q : Followed(x, q)' <=> Followed(x, q) \/ (q = r /\ x = p)
  <2>1. Elems(consumed)' = Elems(consumed)
    BY <1>1 DEF Elems
  <2> QED  BY <1>1, <1>2, <1>7, <1>8, <2>1 DEF Followed
<1> DEFINE src == Source(p)
           dst == conf.ver[r]
           g == deltas
           h == deltas'
<1>14. /\ conf.kind = "manifest" =>
            /\ h.seen = g.seen
            /\ h.rev = g.rev \cup {d \in {<<dst, src>>} : src # NullVer}
            /\ Targets(h.fwd) = Targets(g.fwd)
       /\ conf.kind = "file" /\ src = dst => h = g
       /\ conf.kind = "file" /\ src # dst =>
            /\ h.seen = g.seen \cup {src, dst}
            /\ h.rev = g.rev \cup {d \in {<<dst, src>>} : src # NullVer}
            /\ Targets(h.fwd) = Targets(g.fwd) \cup {v \in {dst} : v \notin g.seen}
  <2> HIDE DEF r, g, h
  <2>1. g \in Deltas /\ conf \in Configs /\ r \in Revs /\ p \in Ids
    BY <1>3, <1>6, <1>9 DEF Types, g
  <2>2. h = TraverseEdge(g, p, r)
    BY <1>2 DEF g, h
  <2>3. conf.kind = "manifest" =>
          /\ h.seen = g.seen
          /\ h.rev = g.rev \cup {d \in {<<dst, src>>} : src # NullVer}
          /\ Targets(h.fwd) = Targets(g.fwd)
    BY <2>1, <2>2, EdgeStep
  <2>4. conf.kind = "file" /\ src = dst => h = g
    BY <2>1, <2>2, EdgeStep
  <2>5. conf.kind = "file" /\ src # dst =>
          /\ h.seen = g.seen \cup {src, dst}
          /\ h.rev = g.rev \cup {d \in {<<dst, src>>} : src # NullVer}
          /\ Targets(h.fwd) = Targets(g.fwd) \cup {v \in {dst} : v \notin g.seen}
    BY <2>1, <2>2, EdgeStep
  <2> QED  BY <2>3, <2>4, <2>5
<1>15. /\ dst \in Named /\ dst \in Versions
       /\ src # NullVer => src \in Named /\ src \in Versions
       /\ \A q \in Revs : q = p => src = conf.ver[q] /\ src # NullVer
  <2>1. /\ \A q \in Revs : conf.ver[q] \in Versions
        /\ NullRev \notin Revs /\ NullVer \notin Versions
    BY <1>3, ConfFacts DEF Types
  <2>2. \A q \in Ancestors(heads) : conf.ver[q] \in Named
    BY DEF Named
  <2> QED  BY <1>6, <2>1, <2>2 DEF Source
<1> HIDE DEF src, dst, r
<1>16. /\ Targets(g.fwd) \subseteq Named
       /\ \A d \in g.rev : d[2] \in Named
       /\ conf.kind = "manifest" =>
            /\ \A x \in heads : conf.ver[x] \in Targets(g.fwd)
            /\ \A q \in Revs, x \in Revs : Followed(x, q) => <<conf.ver[q], conf.ver[x]>> \in g.rev
       /\ conf.kind = "file" =>
            /\ \A q \in Revs, x \in Ids :
                 Followed(x, q) /\ Source(x) # conf.ver[q] => {Source(x), conf.ver[q]} \subseteq g.seen
            /\ \A C \in SUBSET Versions : Reached(C) => g.seen \subseteq C \cup {NullVer}
  BY <1>1 DEF Inv, Mapped
<1>17. \A C : Reached(C)' <=> Targets(h.fwd) \subseteq C /\ \A d \in h.rev : d[1] \in C => d[2] \in C
  BY DEF Reached, Targets
<1>18. conf.kind \in {"file", "manifest"}
  BY <1>3, ConfFacts DEF Types
<1>19. Mapped'
  <2>1. /\ Targets(h.fwd) \subseteq Named /\ \A d \in h.rev : d[2] \in Named
    <3>1. src # NullVer => <<dst, src>>[2] \in Named
      BY <1>15
    <3> HIDE DEF g, h
    <3>2. Targets(h.fwd) \subseteq Named
      BY <1>14, <1>15, <1>16, <1>18
    <3>3. \A d \in h.rev : d \in g.rev \/ (d = <<dst, src>> /\ src # NullVer)
      BY <1>14, <1>18
    <3> QED  BY <1>16, <3>1, <3>2, <3>3
  <2>2. CASE conf.kind = "manifest"
    <3> HIDE DEF g, h
    <3>1. \A x \in heads : conf.ver[x] \in Targets(h.fwd)
      BY <1>14, <1>16, <2>2
    <3>2. ASSUME NEW q \in Revs, NEW x \in Revs, Followed(x, q)'
          PROVE  <<conf.ver[q], conf.ver[x]>> \in h.rev
      <4>1. CASE Followed(x, q)
        BY <1>14, <1>16, <2>2, <4>1
      <4>2. CASE q = r /\ x = p
        <5>1. conf.ver[q] = dst /\ conf.ver[x] = src /\ src # NullVer
          BY <1>15, <4>2 DEF dst
        <5> QED  BY <1>14, <2>2, <5>1
      <4> QED  BY <1>13, <3>2, <4>1, <4>2
    <3> QED  BY <1>1, <1>8, <2>1, <2>2, <3>1, <3>2 DEF Mapped, Targets, h
  <2>3. CASE conf.kind = "file"
    <3> HIDE DEF g, h
    <3>1. ASSUME NEW q \in Revs, NEW x \in Ids, Followed(x, q)', Source(x) # conf.ver[q]
          PROVE  {Source(x), conf.ver[q]} \subseteq h.seen
      <4>1. CASE Followed(x, q)
        <5>1. {Source(x), conf.ver[q]} \subseteq g.seen
          BY <1>16, <2>3, <3>1, <4>1
        <5> QED  BY <1>14, <2>3, <5>1
      <4>2. CASE q = r /\ x = p
        BY <1>14, <2>3, <3>1, <4>2 DEF src, dst
      <4> QED  BY <1>13, <3>1, <4>1, <4>2
    <3>2. ASSUME NEW C \in SUBSET Versions, Reached(C)' PROVE h.seen \subseteq C \cup {NullVer}
      <4>1. CASE src = dst
        <5>1. h = g
          BY <1>14, <2>3, <4>1
        <5>2. Reached(C)
          BY <1>17, <3>2, <5>1 DEF Reached, g
        <5> QED  BY <1>16, <2>3, <5>1, <5>2
      <4>2. CASE src # dst
        <5>1. /\ h.seen = g.seen \cup {src, dst}
              /\ h.rev = g.rev \cup {d \in {<<dst, src>>} : src # NullVer}
              /\ Targets(h.fwd) = Targets(g.fwd) \cup {v \in {dst} : v \notin g.seen}
          BY <1>14, <2>3, <4>2
        <5>2. Reached(C)
          BY <1>17, <3>2, <5>1 DEF Reached, g
        <5>3. g.seen \subseteq C \cup {NullVer}
          BY <1>16, <2>3, <5>2
        <5>4. dst \in C
          BY <1>15, <1>17, <3>2, <5>1, <5>3, NullsApart
        <5>5. src # NullVer => src \in C
          <6>1. src # NullVer => <<dst, src>> \in h.rev
            BY <5>1
          <6> DEFINE e == <<dst, src>>
          <6>2. e[1] = dst /\ e[2] = src
            OBVIOUS
          <6> HIDE DEF e
          <6>3. src # NullVer => e \in h.rev
            BY <6>1 DEF e
          <6> QED  BY <1>17, <3>2, <5>4, <6>2, <6>3
        <5> QED  BY <5>1, <5>3, <5>4, <5>5
      <4> QED  BY <4>1, <4>2
    <3> QED  BY <1>1, <1>8, <2>1, <2>3, <3>1, <3>2 DEF Mapped, Targets, h
  <2> QED  BY <1>18, <2>2, <2>3
<1>20. Requesting' /\ Buildable'
  <2>1. requests' = {} /\ stack' = <<>>
    BY <1>1 DEF Inv, InPhase
  <2> QED  BY <1>1, <2>1, EmptyMap DEF Requesting, Buildable, Requested
<1> QED  BY <1>10, <1>11, <1>12, <1>19, <1>20 DEF Inv

LEMMA PassRevisionInv == ASSUME Inv, PassRevision PROVE Inv'
<1> DEFINE r == Head(frontier)
<1>1. /\ phase = "ancestry" /\ frontier # <<>> /\ phase' = phase /\ conf' = conf /\ heads' = heads
      /\ UNCHANGED <<certs, tmp, seen_revs, deltas, todo, stack, done_items, requests>>
      /\ Parents(r) \subseteq passed /\ passed' = {}
      /\ consumed' = Append(consumed, r) /\ frontier' = Tail(frontier)
  BY DEF PassRevision
<1>2. Types
  BY DEF Inv
<1>3. /\ heads \subseteq seen_revs
      /\ seen_revs \cap Revs \subseteq Ancestors(heads)
      /\ seen_revs \cap Ancestry = Elems(consumed) \cup Elems(frontier)
      /\ \A q \in Elems(consumed) : Parents(q) \subseteq seen_revs
      /\ passed \subseteq seen_revs
  BY <1>1 DEF Inv, Traversed
<1>4. /\ r \in Ancestry /\ frontier' \in Seq(Ancestry)
      /\ Elems(frontier) = {r} \cup Elems(frontier')
  <2>1. frontier \in Seq(Ancestry) /\ frontier # <<>>
    BY <1>1, <1>2 DEF Types
  <2>2. /\ Tail(frontier) \in Seq(Ancestry) /\ Head(frontier) \in Ancestry
        /\ Elems(frontier) \subseteq {Head(frontier)} \cup Elems(Tail(frontier))
        /\ Elems(Tail(frontier)) \subseteq Elems(frontier) /\ Head(frontier) \in Elems(frontier)
    BY <2>1, ElemsTail
  <2> QED  BY <1>1, <2>2
<1>5. consumed' \in Seq(Ancestry) /\ Elems(consumed') = Elems(consumed) \cup {r}
  <2>1. consumed \in Seq(Ancestry)
    BY <1>2 DEF Types
  <2> HIDE DEF r
  <2> QED  BY <1>1, <1>4, <2>1, ElemsAppend
<1>6. /\ Ancestry' = Ancestry /\ Ancestors(heads)' = Ancestors(heads) /\ Named' = Named
      /\ \A q : Parents(q)' = Parents(q)
      /\ \A q : Source(q)' = Source(q)
  BY <1>1, SameConf
<1>7. Elems(consumed)' = Elems(consumed') /\ Elems(frontier)' = Elems(frontier')
  BY DEF Elems
<1>8. Types'
  BY <1>1, <1>2, <1>4, <1>5, <1>6 DEF Types
<1>9. InPhase'
  BY <1>1 DEF Inv, InPhase
<1>10. Traversed'
  <2>1. seen_revs \cap Ancestry = Elems(consumed') \cup Elems(frontier')
    BY <1>3, <1>4, <1>5
  <2>2. \A q \in Elems(consumed') : Parents(q) \subseteq seen_revs
    BY <1>1, <1>3, <1>5
  <2> QED  BY <1>1, <1>3, <1>6, <1>7, <2>1, <2>2 DEF Traversed
<1>11. \A x, q : Followed(x, q)' => Followed(x, q)
  BY <1>1, <1>5, <1>6, <1>7 DEF Followed
<1>12. \A C : Reached(C)' <=> Reached(C)
  BY <1>1 DEF Reached
<1>13. Mapped'
  BY <1>1, <1>6, <1>11, <1>12 DEF Inv, Mapped
<1>14. Requesting' /\ Buildable'
  <2>1. requests' = {} /\ stack' = <<>>
    BY <1>1 DEF Inv, InPhase
  <2> QED  BY <1>1, <2>1, EmptyMap DEF Requesting, Buildable, Requested
<1> QED  BY <1>8, <1>9, <1>10, <1>13, <1>14 DEF Inv

LEMMA StartRequestsInv == ASSUME Inv, StartRequests PROVE Inv'
<1>1. /\ phase = "ancestry" /\ frontier = <<>> /\ phase' = "requests" /\ conf' = conf
      /\ UNCHANGED <<heads, certs, tmp, frontier, seen_revs, passed, consumed, deltas,
                     stack, done_items, requests>>
      /\ todo' = deltas.fwd
  BY DEF StartRequests
<1>2. Types
  BY DEF Inv
<1>3. requests = {} /\ stack = <<>> /\ done_items = {}
  BY <1>1 DEF Inv, InPhase
<1>4. Types'
  <2>1. Ancestry' = Ancestry
    BY <1>1, SameConf
  <2> QED  BY <1>1, <1>2, <2>1 DEF Types
<1>5. InPhase'
  BY <1>1 DEF InPhase
<1>6. Traversed' /\ Mapped'
  BY <1>1, TraversalKept
<1>7. Requesting'
  <2>1. Asked' = {}
    BY <1>1, <1>3 DEF Asked, Targets
  <2>2. Elems(stack)' = {} /\ requests' = {} /\ Requested' = {}
    BY <1>1, <1>3, EmptyMap DEF Elems, Requested
  <2> QED  BY <2>1, <2>2 DEF Requesting
<1>8. Buildable'
  <2>1. requests' = {} /\ stack' = <<>>
    BY <1>1, <1>3
  <2> QED  BY <2>1, EmptyMap DEF Buildable, Requested
<1> QED  BY <1>4, <1>5, <1>6, <1>7, <1>8 DEF Inv

LEMMA FinishInv == ASSUME Inv, Finish PROVE Inv'
<1>1. /\ phase = "requests" /\ stack = <<>> /\ todo = {} /\ phase' = "done" /\ conf' = conf
      /\ UNCHANGED <<heads, certs, tmp, frontier, seen_revs, passed, consumed, deltas,
                     todo, stack, done_items, requests>>
  BY DEF Finish
<1>2. Types'
  <2>1. Ancestry' = Ancestry
    BY <1>1, SameConf
  <2> QED  BY <1>1, <2>1 DEF Inv, Types
<1>3. InPhase'
  BY <1>1 DEF Inv, InPhase
<1>4. Traversed' /\ Mapped'
  BY <1>1, TraversalKept
<1>5. Asked' = Asked /\ Requested' = Requested /\ Elems(stack)' = Elems(stack) /\ Named' = Named
      /\ Built' = Built
  BY <1>1, SameConf DEF Asked, Targets, Requested, Elems, Built
<1>6. Requesting' /\ Buildable'
  BY <1>1, <1>5 DEF Inv, Requesting, Buildable
<1> QED  BY <1>2, <1>3, <1>4, <1>6 DEF Inv

LEMMA BuiltNext ==
  ASSUME conf \in Configs, conf' = conf, requests \subseteq requests',
         requests' \subseteq VerIds \X Versions
  PROVE  /\ Built \subseteq Built' /\ conf.stored \subseteq Built'
         /\ \A q \in requests' : q[1] \in Built' \cup {NullVer} => q[2] \in Built'
<1> DEFINE Closed(C) == conf.stored \subseteq C
                        /\ (\A q \in requests' : q[1] \in C \cup {NullVer} => q[2] \in C)
<1>1. \A v : v \in Built' <=> v \in Versions /\ \A C \in SUBSET Versions : Closed(C) => v \in C
  BY DEF Built
<1>2. ASSUME NEW v \in Built PROVE v \in Built'
  <2>1. v \in Versions /\ \A C \in SUBSET Versions : Closed(C) => v \in C
    BY DEF Built
  <2> QED  BY <1>1, <2>1
<1>3. conf.stored \subseteq Built'
  <2>1. conf.stored \subseteq Versions
    BY ConfFacts
  <2> QED  BY <1>1, <2>1
<1>4. ASSUME NEW q \in requests', q[1] \in Built' \cup {NullVer} PROVE q[2] \in Built'
  <2>1. q[2] \in Versions
    OBVIOUS
  <2>2. ASSUME NEW C \in SUBSET Versions, Closed(C) PROVE q[2] \in C
    <3>1. q[1] \in C \cup {NullVer}
      BY <1>1, <1>4, <2>2
    <3> QED  BY <2>2, <3>1
  <2> HIDE DEF Closed
  <2> QED  BY <1>1, <2>1, <2>2
<1> QED  BY <1>2, <1>3, <1>4

(* A forward delta: its target is asked for unless it is there.            *)
LEMMA RequestForwardInv == ASSUME Inv, RequestForward PROVE Inv'
<1>1. /\ phase = "requests" /\ stack = <<>> /\ phase' = phase /\ conf' = conf
      /\ UNCHANGED <<heads, certs, tmp, frontier, seen_revs, passed, consumed, deltas, done_items>>
  BY DEF RequestForward
<1>2. PICK d \in todo : /\ requests' = ForwardRequest(d) /\ stack' = <<d[2]>>
                        /\ todo' = todo \ {d}
  BY DEF RequestForward
<1>3. Types
  BY DEF Inv
<1> DEFINE v == d[2]
           base == IF d[1] \in conf.stored THEN d[1] ELSE NullVer
           fresh == v \notin conf.stored /\ v \notin Requested
<1>4. /\ d \in deltas.fwd /\ v \in Versions /\ base \in conf.stored \cup {NullVer}
      /\ base \in VerIds /\ conf.stored \subseteq Versions
  <2>1. conf.stored \subseteq Versions
    BY <1>3, ConfFacts DEF Types
  <2>2. d \in VerIds \X Versions /\ d \in deltas.fwd
    BY <1>3 DEF Types
  <2> QED  BY <2>1, <2>2 DEF VerIds
<1>5. /\ ~fresh => requests' = requests
      /\ fresh => requests' = requests \cup {<<base, v>>}
  BY <1>2 DEF ForwardRequest, WithRequest
<1> DEFINE e == <<base, v>>
<1>6. e[1] = base /\ e[2] = v /\ e \in VerIds \X Versions
  BY <1>4
<1> HIDE DEF e, v, base
<1>7. /\ requests \subseteq requests' /\ requests' \subseteq VerIds \X Versions
      /\ \A q \in requests' : q \in requests \/ (fresh /\ q = e)
      /\ fresh => e \in requests'
  BY <1>3, <1>5, <1>6 DEF Types, e
<1>8. Requested' = Requested \cup {x \in {v} : x \notin conf.stored}
  <2>1. Requested' = {q[2] : q \in requests'}
    BY DEF Requested
  <2>2. Requested \subseteq Requested'
    BY <1>7, <2>1 DEF Requested
  <2>3. \A x \in Requested' : x \in Requested \/ (fresh /\ x = v)
    BY <1>6, <1>7, <2>1 DEF Requested
  <2>4. fresh => v \in Requested'
    BY <1>6, <1>7, <2>1
  <2> QED  BY <2>2, <2>3, <2>4
<1>9. Asked' = Asked \cup {v}
  <2>1. deltas.fwd \ todo' = (deltas.fwd \ todo) \cup {d}
    BY <1>2, <1>4
  <2>2. Targets((deltas.fwd \ todo) \cup {d}) = Targets(deltas.fwd \ todo) \cup {v}
    BY DEF Targets, v
  <2>3. Asked' = done_items \cup Targets(deltas.fwd \ todo')
    BY <1>1 DEF Asked, Targets
  <2> QED  BY <2>1, <2>2, <2>3 DEF Asked
<1>10. stack' \in Seq(Versions) /\ Elems(stack') = {v} /\ Elems(stack)' = {v} /\ Elems(stack) = {}
  <2>1. stack' = <<v>>
    BY <1>2 DEF v
  <2> QED  BY <1>1, <1>4, <2>1, EmptyMap DEF Elems
<1>11. Types'
  <2>1. Ancestry' = Ancestry
    BY <1>1, SameConf
  <2> QED  BY <1>1, <1>2, <1>3, <1>7, <1>10, <2>1 DEF Types
<1>12. InPhase'
  BY <1>1 DEF Inv, InPhase
<1>13. Traversed' /\ Mapped'
  BY <1>1, TraversalKept
<1>14. /\ Requested = Asked \ conf.stored
       /\ \A q1, q2 \in requests : q1[2] = q2[2] => q1 = q2
       /\ Asked \subseteq Named
       /\ \A x \in Asked : x \in Elems(stack) \/ \A c \in deltas.rev : c[1] = x => c[2] \in done_items
  BY <1>1 DEF Inv, Requesting
<1>15. Requesting'
  <2>1. Requested' = Asked' \ conf.stored
    BY <1>8, <1>9, <1>14
  <2>2. ASSUME NEW q1 \in requests', NEW q2 \in requests', q1[2] = q2[2] PROVE q1 = q2
    <3>1. \A q \in requests : q[2] \in Requested
      BY DEF Requested
    <3> QED  BY <1>6, <1>7, <1>14, <2>2, <3>1
  <2>3. v \in Named
    BY <1>1, <1>4 DEF Inv, Mapped, Targets, v
  <2>4. Named' = Named
    BY <1>1, SameConf
  <2>5. \A x \in Asked' : x \in Elems(stack') \/ \A c \in deltas.rev : c[1] = x => c[2] \in done_items
    BY <1>9, <1>10, <1>14
  <2> QED  BY <1>1, <1>9, <1>10, <1>14, <2>1, <2>2, <2>3, <2>4, <2>5 DEF Requesting
<1>16. Buildable'
  <2>1. /\ Built \subseteq Built' /\ conf.stored \subseteq Built'
        /\ \A q \in requests' : q[1] \in Built' \cup {NullVer} => q[2] \in Built'
    BY <1>1, <1>3, <1>7, BuiltNext DEF Types
  <2>2. Requested \subseteq Built
    BY DEF Inv, Buildable
  <2>3. v \in Built'
    BY <1>4, <1>6, <1>7, <2>1, <2>2
  <2> QED  BY <1>8, <1>10, <2>1, <2>2, <2>3 DEF Buildable
<1> QED  BY <1>11, <1>12, <1>13, <1>15, <1>16 DEF Inv

(* A turn over the reverse deltas: what they lead to from the version at   *)
(* the end of the stack is asked for, and waits.                           *)
LEMMA RequestReverseInv == ASSUME Inv, RequestReverse PROVE Inv'
<1> DEFINE child == Last(stack)
           new == NewParents(child)
           missing == (new \ conf.stored) \ Requested
<1>1. /\ phase = "requests" /\ stack # <<>> /\ phase' = phase /\ conf' = conf
      /\ UNCHANGED <<heads, certs, tmp, frontier, seen_revs, passed, consumed, deltas, todo>>
      /\ requests' = requests \cup {<<child, x>> : x \in missing}
      /\ done_items' = done_items \cup new
  BY DEF RequestReverse
<1>2. PICK o \in SetToSeqs(new) : stack' = Front(stack) \o o
  BY DEF RequestReverse, Orders
<1>3. Types
  BY DEF Inv
<1>4. /\ \A c \in deltas.rev : c[2] \in Named /\ c[2] \in Versions
      /\ \A c \in deltas.rev : c[1] = child => c[2] \in done_items \cup new
      /\ new \subseteq Named /\ new \subseteq Versions
  <2>1. \A c \in deltas.rev : c[2] \in Named /\ c[2] \in Versions
    BY <1>1, <1>3 DEF Inv, Mapped, Types
  <2>2. \A c \in deltas.rev : c[1] = child => c[2] \in done_items \cup new
    BY DEF NewParents
  <2>3. \A x \in new : \E c \in deltas.rev : x = c[2]
    BY DEF NewParents
  <2> QED  BY <2>1, <2>2, <2>3
<1> HIDE DEF child, new
<1>5. IsFiniteSet(new)
  <2>1. Ancestors(heads) \subseteq Revs
    BY DEF Ancestors
  <2>2. IsFiniteSet(Ancestors(heads))
    BY <2>1, RevsFinite, FS_Subset
  <2>3. IsFiniteSet(Named)
    BY <2>2, ImageFinite DEF Named
  <2> QED  BY <1>4, <2>3, FS_Subset
<1>6. /\ child \in Versions /\ child \in Elems(stack)
      /\ stack' \in Seq(Versions)
      /\ \A x \in Elems(stack) : x = child \/ x \in Elems(stack')
      /\ new \subseteq Elems(stack')
      /\ \A x \in Elems(stack') : x \in Elems(stack) \/ x \in new
  <2>1. stack \in Seq(Versions) /\ stack # <<>>
    BY <1>1, <1>3 DEF Types
  <2>2. child = stack[Len(stack)] /\ Front(stack) = SubSeq(stack, 1, Len(stack) - 1)
    BY DEF child, Last, Front
  <2>3. /\ Front(stack) \in Seq(Versions) /\ child \in Versions
        /\ Elems(stack) = Elems(Front(stack)) \cup {child}
    BY <2>1, <2>2, WithoutLast
  <2>4. o \in Seq(new) /\ Elems(o) = new
    BY <1>2, <1>5, SetOrders
  <2>5. o \in Seq(Versions)
    BY <1>4, <2>4
  <2>6. stack' \in Seq(Versions) /\ Elems(stack') = Elems(Front(stack)) \cup Elems(o)
    BY <1>2, <2>3, <2>5, ElemsConcat
  <2> QED  BY <2>3, <2>4, <2>6
<1>7. /\ requests \subseteq requests'
      /\ \A q \in requests' : q \in requests \/ (q[2] \in missing /\ q = <<child, q[2]>>)
      /\ \A x \in missing : \E q \in requests' : q[1] = child /\ q[2] = x
  <2> DEFINE D == {<<child, x>> : x \in missing}
  <2>1. \A q \in D : q[2] \in missing /\ q = <<child, q[2]>>
    OBVIOUS
  <2>2. ASSUME NEW x \in missing PROVE \E q \in D : q[1] = child /\ q[2] = x
    <3>1. <<child, x>> \in D /\ <<child, x>>[1] = child /\ <<child, x>>[2] = x
      OBVIOUS
    <3> HIDE DEF D
    <3> QED  BY <3>1
  <2>3. requests' = requests \cup D
    BY <1>1
  <2> HIDE DEF D, missing
  <2> QED  BY <2>1, <2>2, <2>3
<1>8. requests' \subseteq VerIds \X Versions
  <2>1. \A q \in requests' : q \in requests \/ (q[2] \in Versions /\ q = <<child, q[2]>>)
    BY <1>4, <1>7
  <2> QED  BY <1>3, <1>6, <2>1 DEF Types, VerIds
<1>9. Requested' = Requested \cup (new \ conf.stored)
  <2>1. Requested' = {q[2] : q \in requests'}
    BY DEF Requested
  <2>2. Requested \subseteq Requested'
    BY <1>7, <2>1 DEF Requested
  <2>3. \A x \in Requested' : x \in Requested \/ x \in missing
    BY <1>7, <2>1 DEF Requested
  <2>4. \A x \in missing : x \in Requested'
    BY <1>7, <2>1
  <2> QED  BY <2>2, <2>3, <2>4
<1>10. Asked' = Asked \cup new
  <2>1. Asked' = done_items' \cup Targets(deltas.fwd \ todo)
    BY <1>1 DEF Asked, Targets
  <2> QED  BY <1>1, <2>1 DEF Asked
<1>11. Elems(stack)' = Elems(stack')
  BY DEF Elems
<1>12. Types'
  <2>1. Ancestry' = Ancestry
    BY <1>1, SameConf
  <2> QED  BY <1>1, <1>3, <1>4, <1>6, <1>8, <2>1 DEF Types
<1>13. InPhase'
  BY <1>1 DEF Inv, InPhase
<1>14. Traversed' /\ Mapped'
  BY <1>1, TraversalKept
<1>15. /\ Requested = Asked \ conf.stored
       /\ \A q1, q2 \in requests : q1[2] = q2[2] => q1 = q2
       /\ Asked \subseteq Named
       /\ Elems(stack) \subseteq Asked
       /\ \A x \in Asked : x \in Elems(stack) \/ \A c \in deltas.rev : c[1] = x => c[2] \in done_items
  BY <1>1 DEF Inv, Requesting
<1>16. Requesting'
  <2>1. Requested' = Asked' \ conf.stored
    BY <1>9, <1>10, <1>15
  <2>2. ASSUME NEW q1 \in requests', NEW q2 \in requests', q1[2] = q2[2] PROVE q1 = q2
    <3>1. \A q \in requests : q[2] \in Requested
      BY DEF Requested
    <3> QED  BY <1>7, <1>15, <2>2, <3>1
  <2>3. Named' = Named
    BY <1>1, SameConf
  <2>4. \A x \in Asked' : x \in Elems(stack') \/ \A c \in deltas.rev : c[1] = x => c[2] \in done_items'
    BY <1>1, <1>4, <1>6, <1>10, <1>15
  <2>5. Asked' \subseteq Named /\ Elems(stack') \subseteq Asked'
    BY <1>4, <1>6, <1>10, <1>15
  <2> QED  BY <1>1, <1>11, <2>1, <2>2, <2>3, <2>4, <2>5 DEF Requesting
<1>17. Buildable'
  <2>1. /\ Built \subseteq Built' /\ conf.stored \subseteq Built'
        /\ \A q \in requests' : q[1] \in Built' \cup {NullVer} => q[2] \in Built'
    BY <1>1, <1>3, <1>7, <1>8, BuiltNext DEF Types
  <2>2. Requested \cup Elems(stack) \subseteq Built
    BY DEF Inv, Buildable
  <2>3. \A x \in missing : x \in Built'
    BY <1>6, <1>7, <2>1, <2>2
  <2>4. new \subseteq Built'
    BY <2>1, <2>2, <2>3
  <2> QED  BY <1>6, <1>9, <1>11, <2>1, <2>2, <2>4 DEF Buildable
<1> QED  BY <1>12, <1>13, <1>14, <1>16, <1>17 DEF Inv

-----------------------------------------------------------------------------
(* The invariant, and what is asked for.                                   *)

LEMMA NextInv == ASSUME Inv, [Next]_vars PROVE Inv'
<1>1. CASE DropHead
  BY <1>1, DropHeadInv
<1>2. CASE StartAncestry
  BY <1>2, StartAncestryInv
<1>3. CASE FollowEdge
  BY <1>3, FollowEdgeInv
<1>4. CASE PassRevision
  BY <1>4, PassRevisionInv
<1>5. CASE StartRequests
  BY <1>5, StartRequestsInv
<1>6. CASE RequestForward
  BY <1>6, RequestForwardInv
<1>7. CASE RequestReverse
  BY <1>7, RequestReverseInv
<1>8. CASE Finish
  BY <1>8, FinishInv
<1>9. CASE UNCHANGED vars
  <2>1. /\ conf' = conf /\ phase' = phase
        /\ UNCHANGED <<heads, certs, tmp, frontier, seen_revs, passed, consumed, deltas,
                       todo, stack, done_items, requests>>
    BY <1>9 DEF vars
  <2>2. Ancestry' = Ancestry /\ Named' = Named
    BY <2>1, SameConf
  <2>3. Types' /\ InPhase'
    BY <2>1, <2>2 DEF Inv, Types, InPhase
  <2>4. Traversed' /\ Mapped'
    <3>1. CASE phase = "heads"
      BY <2>1, <3>1 DEF Traversed, Mapped
    <3>2. CASE phase # "heads"
      BY <2>1, <3>2, TraversalKept
    <3> QED  BY <3>1, <3>2
  <2>5. Asked' = Asked /\ Requested' = Requested /\ Elems(stack)' = Elems(stack) /\ Built' = Built
    BY <2>1 DEF Asked, Targets, Requested, Elems, Built
  <2>6. Requesting' /\ Buildable'
    BY <2>1, <2>2, <2>5 DEF Inv, Requesting, Buildable
  <2> QED  BY <2>3, <2>4, <2>6 DEF Inv
<1> QED  BY <1>1, <1>2, <1>3, <1>4, <1>5, <1>6, <1>7, <1>8, <1>9 DEF Next, Step

(* The analysis keeps to its types, and in every state what it has seen of *)
(* the history, the deltas it has mapped and the requests it has made fit. *)
THEOREM Invariant == Spec => []Inv
<1>1. Init => Inv
  BY InitInv
<1>2. Inv /\ [Next]_vars => Inv'
  BY NextInv
<1> QED  BY <1>1, <1>2, PTL DEF Spec

(* When the traversal has ended, what it has consumed is what is needed.   *)
LEMMA NeededConsumed ==
  ASSUME Inv, phase # "heads", frontier = <<>>
  PROVE  /\ Needed = Elems(consumed)
         /\ heads \subseteq Elems(consumed)
         /\ \A r \in Elems(consumed) : \A p \in Parents(r) \cap Revs :
              p \in conf.known \/ p \in Elems(consumed)
<1>1. /\ heads \subseteq seen_revs
      /\ seen_revs \cap Revs \subseteq Ancestors(heads)
      /\ seen_revs \cap Ancestry = Elems(consumed) \cup Elems(frontier)
      /\ \A r \in Elems(consumed) : Parents(r) \subseteq seen_revs
  BY DEF Inv, Traversed
<1>2. Elems(frontier) = {}
  BY EmptyMap
<1>3. /\ conf.known \subseteq Revs /\ Ancestry = Revs \ conf.known /\ heads \subseteq Ancestry
      /\ \A r \in Revs : Parents(r) \subseteq Ids
      /\ \A r \in conf.known : Parents(r) \subseteq conf.known \cup {NullRev}
  BY ConfFacts DEF Inv, Types
<1> DEFINE K == conf.known \cup Elems(consumed)
<1>4. \A r \in Elems(consumed) : \A p \in Parents(r) \cap Revs : p \in K
  BY <1>1, <1>2, <1>3
<1>5. K \subseteq Revs /\ heads \subseteq K /\ heads \subseteq Revs
  BY <1>1, <1>2, <1>3
<1>6. \A c \in K : Parents(c) \subseteq K \cup {NullRev}
  BY <1>3, <1>4, <1>5 DEF Ids
<1>7. Ancestors(heads) \subseteq K
  <2> HIDE DEF K
  <2> QED  BY <1>5, <1>6, AncestorsLeast
<1>8. Needed = Elems(consumed)
  BY <1>1, <1>2, <1>3, <1>7 DEF Needed
<1> QED  BY <1>1, <1>2, <1>3, <1>4, <1>8

(* The deltas lead to every version needed that is not there.              *)
LEMMA AllReached ==
  ASSUME Inv, phase # "heads", frontier = <<>>, NEW C \in SUBSET Versions, Reached(C)
  PROVE  \A r \in Needed : conf.ver[r] \in C \cup conf.stored
<1>1. /\ Needed = Elems(consumed)
      /\ heads \subseteq Elems(consumed)
      /\ \A r \in Elems(consumed) : \A p \in Parents(r) \cap Revs :
           p \in conf.known \/ p \in Elems(consumed)
  BY NeededConsumed
<1>2. /\ conf.kind \in {"file", "manifest"} /\ conf \in Configs
      /\ \A r \in Revs : Parents(r) \subseteq Ids /\ Parents(r) # {} /\ conf.ver[r] \in Versions
      /\ conf.known \subseteq Revs
      /\ \A r \in conf.known : Parents(r) \subseteq conf.known \cup {NullRev}
      /\ \A r \in conf.known : conf.ver[r] \in conf.stored
      /\ Ancestry = Revs \ conf.known /\ NullVer \notin Versions
  BY ConfFacts DEF Inv, Types
<1>3. Elems(consumed) \subseteq Ancestry /\ Needed \subseteq Ancestors(heads)
  BY <1>1 DEF Needed
<1>4. \A r \in Elems(consumed) : \A p \in Parents(r) : Followed(p, r)
  BY DEF Followed
<1>5. Targets(deltas.fwd) \subseteq C /\ \A d \in deltas.rev : d[1] \in C => d[2] \in C
  BY DEF Reached
<1>6. CASE conf.kind = "manifest"
  <2> DEFINE G == conf.known \cup {r \in Elems(consumed) : conf.ver[r] \in C}
  <2>1. /\ \A h \in heads : conf.ver[h] \in Targets(deltas.fwd)
        /\ \A r \in Revs, p \in Revs : Followed(p, r) => <<conf.ver[r], conf.ver[p]>> \in deltas.rev
    BY <1>6 DEF Inv, Mapped
  <2>2. heads \subseteq G /\ G \subseteq Revs /\ heads \subseteq Revs
    BY <1>1, <1>2, <1>3, <1>5, <2>1
  <2>3. ASSUME NEW c \in Elems(consumed), conf.ver[c] \in C, NEW p \in Parents(c) \cap Revs
        PROVE  p \in G
    <3>1. <<conf.ver[c], conf.ver[p]>> \in deltas.rev
      BY <1>2, <1>3, <1>4, <2>1, <2>3
    <3> DEFINE d == <<conf.ver[c], conf.ver[p]>>
    <3>2. d[1] = conf.ver[c] /\ d[2] = conf.ver[p] /\ d \in deltas.rev
      BY <3>1
    <3> HIDE DEF d
    <3>3. conf.ver[p] \in C
      BY <1>5, <2>3, <3>2
    <3> QED  BY <1>1, <3>3
  <2>4. \A c \in G : Parents(c) \subseteq G \cup {NullRev}
    BY <1>2, <2>2, <2>3 DEF Ids
  <2>5. Ancestors(heads) \subseteq G
    <3> HIDE DEF G
    <3> QED  BY <2>2, <2>4, AncestorsLeast
  <2> QED  BY <1>1, <1>2, <1>3, <2>5
<1>7. CASE conf.kind = "file"
  <2> DEFINE S == {r \in Elems(consumed) : conf.ver[r] \notin C \cup conf.stored}
  <2>1. /\ \A r \in Revs, p \in Ids :
             Followed(p, r) /\ Source(p) # conf.ver[r] => {Source(p), conf.ver[r]} \subseteq deltas.seen
        /\ deltas.seen \subseteq C \cup {NullVer}
    BY <1>7 DEF Inv, Mapped
  <2> SUFFICES ASSUME S # {} PROVE FALSE
    BY <1>1
  <2>2. PICK m \in S : Parents(m) \cap S = {}
    <3>1. S \in SUBSET Revs
      BY <1>2, <1>3
    <3> HIDE DEF S
    <3> QED  BY <1>2, <3>1, Oldest
  <2>3. m \in Revs /\ m \in Elems(consumed) /\ conf.ver[m] \in Versions /\ conf.ver[m] \notin C \cup conf.stored
    BY <1>2, <1>3
  <2>4. PICK p \in Parents(m) : p \in Ids
    BY <1>2, <2>3
  <2>5. Source(p) = conf.ver[m]
    BY <1>2, <1>4, <2>1, <2>3, <2>4
  <2>6. p \in Revs /\ conf.ver[p] = conf.ver[m]
    BY <1>2, <2>3, <2>4, <2>5 DEF Source, Ids
  <2>7. p \in Elems(consumed)
    BY <1>1, <1>2, <2>3, <2>6
  <2> QED  BY <2>2, <2>3, <2>6, <2>7
<1> QED  BY <1>2, <1>6, <1>7

LEMMA DoneAsks == ASSUME Inv, phase = "done" PROVE EveryVersionAsked
<1>1. stack = <<>> /\ todo = {} /\ frontier = <<>>
  BY DEF Inv, InPhase
<1>2. /\ Requested = Asked \ conf.stored
      /\ \A q1, q2 \in requests : q1[2] = q2[2] => q1 = q2
      /\ Asked \subseteq Named
      /\ \A v \in Asked : v \in Elems(stack) \/ \A d \in deltas.rev : d[1] = v => d[2] \in done_items
  BY DEF Inv, Requesting
<1>3. /\ \A r \in Revs : conf.ver[r] \in Versions
      /\ \A r \in conf.known : conf.ver[r] \in conf.stored
      /\ Ancestry = Revs \ conf.known
  BY ConfFacts DEF Inv, Types
<1>4. /\ heads \subseteq Revs /\ Ancestors(heads) \subseteq Revs
      /\ Needed = Ancestors(heads) \cap Ancestry
  BY <1>3 DEF Inv, Types, Needed, Ancestors
<1>5. Reached(Asked)
  <2>1. Elems(stack) = {}
    BY <1>1, EmptyMap
  <2> QED  BY <1>1, <1>2, <2>1 DEF Reached, Asked
<1>6. Named \subseteq Versions
  BY <1>3, <1>4 DEF Named
<1>7. \A r \in Needed : conf.ver[r] \in Asked \cup conf.stored
  <2>1. Asked \in SUBSET Versions
    BY <1>2, <1>6
  <2> QED  BY <1>1, <1>5, <2>1, AllReached
<1>8. Requested = {conf.ver[r] : r \in Needed} \ conf.stored
  <2>1. ASSUME NEW v \in Named, v \notin conf.stored PROVE \E r \in Needed : v = conf.ver[r]
    <3>1. PICK r \in Ancestors(heads) : v = conf.ver[r]
      BY DEF Named
    <3>2. r \in Needed
      BY <1>3, <1>4, <2>1, <3>1
    <3> QED  BY <3>1, <3>2
  <2> QED  BY <1>2, <1>7, <2>1
<1>9. Cardinality(requests) = Cardinality(Requested)
  <2>1. IsFiniteSet(Requested)
    <3>1. IsFiniteSet(Needed)
      BY <1>4, RevsFinite, FS_Subset
    <3>2. IsFiniteSet({conf.ver[r] : r \in Needed})
      BY <3>1, ImageFinite
    <3> QED  BY <1>8, <3>2, FS_Subset
  <2> DEFINE f == [v \in Requested |-> CHOOSE q \in requests : q[2] = v]
  <2>2. \A v \in Requested : f[v] \in requests /\ f[v][2] = v
    <3>1. \A v \in Requested : \E q \in requests : q[2] = v
      BY DEF Requested
    <3> QED  BY <3>1
  <2>3. \A q \in requests : q[2] \in Requested
    BY DEF Requested
  <2> HIDE DEF f
  <2>4. {f[v] : v \in Requested} = requests
    <3>1. \A q \in requests : q = f[q[2]]
      BY <1>2, <2>2, <2>3
    <3> QED  BY <2>2, <2>3, <3>1
  <2>5. \A v, w \in Requested : f[v] = f[w] => v = w
    BY <2>2
  <2> QED  BY <2>1, <2>4, <2>5, ImageFinite
<1> QED  BY <1>8, <1>9 DEF EveryVersionAsked

(* request_files and request_manifests: when they are through, exactly the *)
(* versions that the revisions to come name and that are not there have    *)
(* been asked for, each of them once.                                      *)
THEOREM AsksExactly == Spec => []EveryVersionAsked
<1>1. Inv => EveryVersionAsked
  BY DoneAsks DEF EveryVersionAsked
<1> QED  BY <1>1, Invariant, PTL

(* queue_send_delta_cmd: at any time, a delta asked for leads back, over   *)
(* other requests, to full data or to a version that is stored.            *)
THEOREM RequestsBuildable == Spec => []Constructible
<1>1. ASSUME Inv PROVE Constructible
  <2>1. Requested \subseteq Built
    BY <1>1 DEF Inv, Buildable
  <2> QED  BY <2>1 DEF Constructible, Built
<1> QED  BY <1>1, Invariant, PTL

-----------------------------------------------------------------------------
(* The heads.                                                              *)

(* Every finite set of revisions has one that is no parent in it.          *)
LEMMA Newest ==
  ASSUME conf \in Configs, NEW S \in SUBSET Revs, S # {}
  PROVE  \E m \in S : \A k \in S : m \notin Parents(k)
<1> DEFINE Bad == {T \in SUBSET Revs : T # {} /\ \A m \in T : \E k \in T : m \in Parents(k)}
           Sizes == {Cardinality(T) : T \in Bad}
<1> SUFFICES ASSUME S \in Bad PROVE FALSE
  OBVIOUS
<1>1. \A T \in Bad : T \in SUBSET Revs /\ T # {} /\ \A m \in T : \E k \in T : m \in Parents(k)
  OBVIOUS
<1>2. \A T \in SUBSET Revs : T # {} /\ (\A m \in T : \E k \in T : m \in Parents(k)) => T \in Bad
  OBVIOUS
<1> HIDE DEF Bad
<1>3. \A T \in Bad : IsFiniteSet(T) /\ Cardinality(T) \in Nat
  BY <1>1, RevsFinite, FS_Subset, FS_CardinalityType
<1>4. PICK n \in Sizes : \A o \in Sizes : n <= o
  <2>1. Sizes \in SUBSET Nat /\ Sizes # {}
    BY <1>3
  <2> HIDE DEF Sizes
  <2> QED  BY <2>1, LeastNat
<1>5. PICK T \in Bad : n = Cardinality(T)
  OBVIOUS
<1>6. PICK m \in T : Parents(m) \cap T = {}
  BY <1>1, <1>5, Oldest
<1> DEFINE U == T \ {m}
<1>7. \A x \in U : \E k \in U : x \in Parents(k)
  BY <1>1, <1>6
<1>8. U # {}
  <2>1. PICK k \in T : m \in Parents(k)
    BY <1>1, <1>5
  <2> QED  BY <1>6, <2>1
<1>9. U \in Bad
  <2>1. U \in SUBSET Revs
    BY <1>1
  <2> HIDE DEF U
  <2> QED  BY <1>2, <1>7, <1>8, <2>1
<1>10. Cardinality(U) = n - 1 /\ n \in Nat
  BY <1>3, <1>5, <1>6, FS_RemoveElement
<1> QED  BY <1>4, <1>9, <1>10

LEMMA KidsFinite == IsFiniteSet(Ancestry) /\ \A p : IsFiniteSet(Kids(p))
<1>1. IsFiniteSet(Ancestry)
  BY RevsFinite, FS_Subset DEF Ancestry
<1>2. \A p : Kids(p) \subseteq Ancestry
  BY DEF Kids
<1> QED  BY <1>1, <1>2, FS_Subset

LEMMA InitHeads == ASSUME Init PROVE HeadsInv
<1> DEFINE old == UNION {conf.parents[r] : r \in Ancestry}
           T == (Ancestry \ old) \ conf.wanted
<1>1. /\ conf \in Configs /\ phase = "heads" /\ certs = Ancestry
      /\ heads = (Ancestry \ old) \cap conf.wanted
      /\ tmp \in SetToSeqs(T)
      /\ chld_num = [r \in Ids |-> Cardinality({c \in Ancestry : r \in conf.parents[c]})]
  BY DEF Init, Ancestry, Orders, Ids
<1>2. \A r : Kids(r) = {c \in Ancestry : r \in conf.parents[c]}
  BY DEF Kids, Parents
<1>3. \A r : r \in old <=> Kids(r) # {}
  BY <1>2
<1>4. Dropped = {}
  BY <1>1 DEF Dropped
<1>5. Elems(tmp) = T /\ NoDuplicates(tmp)
  <2>1. IsFiniteSet(T)
    BY RevsFinite, FS_Subset DEF Ancestry
  <2> HIDE DEF T
  <2> QED  BY <1>1, <2>1, SetOrders
<1> HIDE DEF old
<1>6. chld_num \in [Ids -> Nat] /\ \A p \in Ids : chld_num[p] = Cardinality(Kids(p))
  <2>1. \A p : Cardinality(Kids(p)) \in Nat
    BY KidsFinite, FS_CardinalityType
  <2>2. chld_num = [p \in Ids |-> Cardinality(Kids(p))]
    BY <1>1, <1>2
  <2> QED  BY <2>1, <2>2
<1>7. \A r : r \in T <=> r \in Ancestry /\ r \notin conf.wanted /\ Kids(r) = {}
  BY <1>3
<1>8. heads = WantedTips
  BY <1>1, <1>3 DEF WantedTips
<1>10. \A r \in Ancestry \ WantedTips : Kids(r) = {} => r \in T
  BY <1>7 DEF WantedTips
<1>11. \A r \in T : r \notin WantedTips /\ Kids(r) = {}
  BY <1>7 DEF WantedTips
<1>12. WantedTips \subseteq Ancestry \cap conf.wanted
  BY DEF WantedTips
<1> HIDE DEF T
<1>9. \A p : Kids(p) \ Dropped = Kids(p)
  BY <1>4
<1> QED  BY <1>1, <1>4, <1>5, <1>6, <1>8, <1>9, <1>10, <1>11, <1>12 DEF HeadsInv

LEMMA DropHeadHeads == ASSUME Inv, HeadsInv, DropHead PROVE HeadsInv'
<1> DEFINE r == Head(tmp)
           exposed == {p \in Parents(r) : chld_num[p] = 1}
<1>1. phase = "heads" /\ phase' = "heads" /\ tmp # <<>> /\ conf' = conf
  BY DEF DropHead
<1>2. /\ WantedTips \subseteq heads /\ heads \subseteq Ancestry \cap conf.wanted
      /\ heads \subseteq WantedTips \cup Dropped
      /\ \A x \in Dropped : x \notin WantedTips /\ Kids(x) \subseteq Dropped
      /\ \A x \in Ancestry \ WantedTips :
           Kids(x) \subseteq Dropped \ conf.wanted => x \in Dropped \cup Elems(tmp)
      /\ chld_num \in [Ids -> Nat]
      /\ \A p \in Ids : chld_num[p] = Cardinality(Kids(p) \ Dropped)
      /\ \A x \in Elems(tmp) :
           Kids(x) \subseteq Dropped /\ x \notin Dropped /\ x \notin WantedTips
      /\ NoDuplicates(tmp)
  BY <1>1 DEF HeadsInv
<1>3. conf \in Configs /\ certs \subseteq Ancestry /\ tmp \in Seq(Ids)
  BY DEF Inv, Types
<1>4. /\ Tail(tmp) \in Seq(Ids) /\ r \in Elems(tmp) /\ r \in Ids
      /\ Elems(tmp) \subseteq {r} \cup Elems(Tail(tmp))
      /\ Elems(Tail(tmp)) \subseteq Elems(tmp)
      /\ NoDuplicates(Tail(tmp)) /\ r \notin Elems(Tail(tmp))
  BY <1>1, <1>2, <1>3, ElemsTail, DistinctTail
<1>5. /\ Ancestry' = Ancestry /\ \A p : Parents(p)' = Parents(p)
  BY <1>1, SameConf
<1>6. (\A p : Kids(p)' = Kids(p)) /\ WantedTips' = WantedTips
  <2>1. \A p : Kids(p)' = Kids(p)
    BY <1>5 DEF Kids
  <2> QED  BY <1>1, <1>5, <2>1 DEF WantedTips
<1>7. CASE r \notin Ancestry
  <2>1. tmp' = Tail(tmp) /\ UNCHANGED <<heads, certs, chld_num>>
    BY <1>7 DEF DropHead
  <2>2. Dropped' = Dropped
    BY <1>5, <2>1 DEF Dropped
  <2>3. Elems(tmp)' = Elems(Tail(tmp)) /\ NoDuplicates(tmp)'
    BY <1>4, <2>1 DEF Elems, NoDuplicates
  <2>4. \A x \in Ancestry \ WantedTips :
          Kids(x) \subseteq Dropped \ conf.wanted => x \in Dropped \cup Elems(Tail(tmp))
    BY <1>2, <1>4, <1>7
  <2>5. \A p \in Ids : chld_num'[p] = Cardinality(Kids(p) \ Dropped)
    BY <1>2, <2>1
  <2>6. (\A p \in Ids : chld_num[p] = Cardinality(Kids(p) \ Dropped))'
    BY <1>6, <2>2, <2>5
  <2> QED  BY <1>1, <1>2, <1>4, <1>5, <1>6, <2>1, <2>2, <2>3, <2>4, <2>6 DEF HeadsInv
<1>8. CASE r \in Ancestry
  <2> DEFINE pushed == IF r \in conf.wanted THEN {} ELSE exposed
  <2>1. r \notin WantedTips /\ Kids(r) \subseteq Dropped /\ r \notin Dropped
    BY <1>2, <1>4, <1>8
  <2>2. HasBranchCert(r) <=> r \in conf.wanted
    BY <1>8, <2>1 DEF HasBranchCert, Dropped
  <2>3. PICK q \in SetToSeqs(pushed) : tmp' = Tail(tmp) \o q
    BY <1>8, <2>2 DEF DropHead, Orders
  <2>4. /\ chld_num' = [p \in DOMAIN chld_num |->
                         IF p \in Parents(r) THEN chld_num[p] - 1 ELSE chld_num[p]]
        /\ heads \subseteq heads' /\ heads' \subseteq heads \cup ({r} \cap conf.wanted)
        /\ certs' = certs \ {r}
    BY <1>8, <2>2 DEF DropHead
  <2>5. Dropped' = Dropped \cup {r}
    BY <1>5, <1>8, <2>4 DEF Dropped
  <2>6. r \in Revs /\ Parents(r) \subseteq Ids /\ r \notin Parents(r)
    <3>1. r \in Revs /\ Parents(r) \subseteq Ids
      BY <1>3, <1>8, ConfFacts
    <3>2. {r} \in SUBSET Revs
      BY <3>1
    <3> HIDE DEF r
    <3>3. r \notin Parents(r)
      BY <1>3, <3>2, Oldest
    <3> QED  BY <3>1, <3>3
  <2> HIDE DEF r, exposed
  <2>7. \A p : p \in Parents(r) <=> r \in Kids(p)
    BY <1>8 DEF Kids
  <2>8. /\ IsFiniteSet(Dropped') /\ \A p : IsFiniteSet(Kids(p) \ Dropped)
    BY <1>5, KidsFinite, FS_Subset DEF Dropped
  <2>9. \A p : Kids(p) \ Dropped' = (Kids(p) \ Dropped) \ {r}
    BY <2>5
  <2>10. \A p \in Ids : /\ chld_num'[p] \in Nat
                        /\ chld_num'[p] = Cardinality(Kids(p) \ Dropped')
    <3> SUFFICES ASSUME NEW p \in Ids
                 PROVE  chld_num'[p] \in Nat /\ chld_num'[p] = Cardinality(Kids(p) \ Dropped')
      OBVIOUS
    <3> DEFINE K == Kids(p) \ Dropped
    <3>1. IsFiniteSet(K) /\ chld_num[p] = Cardinality(K) /\ Kids(p) \ Dropped' = K \ {r}
      BY <1>2, <2>8, <2>9
    <3>2. p \in Parents(r) <=> r \in K
      BY <2>1, <2>7
    <3> HIDE DEF K
    <3>3. /\ IsFiniteSet(K \ {r})
          /\ Cardinality(K \ {r}) = IF r \in K THEN Cardinality(K) - 1 ELSE Cardinality(K)
      BY <3>1, FS_RemoveElement
    <3>4. Cardinality(K \ {r}) \in Nat
      BY <3>3, FS_CardinalityType
    <3>5. chld_num'[p] = IF p \in Parents(r) THEN chld_num[p] - 1 ELSE chld_num[p]
      BY <1>2, <2>4
    <3> QED  BY <3>1, <3>2, <3>3, <3>4, <3>5
  <2>11. \A p \in Parents(r) : p \in exposed <=> Kids(p) \ Dropped = {r}
    <3> SUFFICES ASSUME NEW p \in Parents(r) PROVE p \in exposed <=> Kids(p) \ Dropped = {r}
      OBVIOUS
    <3> DEFINE K == Kids(p) \ Dropped
    <3>1. IsFiniteSet(K) /\ r \in K /\ (p \in exposed <=> Cardinality(K) = 1)
      BY <1>2, <2>1, <2>6, <2>7, <2>8 DEF exposed
    <3> HIDE DEF K
    <3>2. Cardinality({r}) = 1
      BY FS_Singleton
    <3>3. Cardinality(K) = Cardinality({r}) => K = {r}
      BY <3>1, FS_Subset
    <3> QED  BY <3>1, <3>2, <3>3 DEF K
  <2>12. /\ exposed \subseteq Parents(r) /\ exposed \subseteq Ids
         /\ pushed \subseteq exposed /\ (r \notin conf.wanted => pushed = exposed)
    BY <2>6 DEF exposed
  <2> HIDE DEF pushed
  <2>13. q \in Seq(Ids) /\ Elems(q) = pushed /\ NoDuplicates(q)
    <3>1. IsFiniteSet(Ids)
      BY RevsFinite, FS_AddElement DEF Ids
    <3>2. IsFiniteSet(pushed)
      <4>1. pushed \subseteq Ids
        BY <2>12
      <4> QED  BY <3>1, <4>1, FS_Subset
    <3>3. q \in Seq(pushed) /\ Elems(q) = pushed /\ NoDuplicates(q)
      BY <2>3, <3>2, SetOrders
    <3> QED  BY <2>12, <3>3
  <2>14. Elems(tmp') = Elems(Tail(tmp)) \cup pushed
    <3> DEFINE left == Tail(tmp)
    <3>1. left \in Seq(Ids) /\ q \in Seq(Ids)
      BY <1>4, <2>13
    <3> HIDE DEF left
    <3>2. Elems(left \o q) = Elems(left) \cup Elems(q)
      BY <3>1, ElemsConcat
    <3> QED  BY <2>3, <2>13, <3>2 DEF left
  <2>15. NoDuplicates(tmp')
    <3>1. Elems(Tail(tmp)) \cap Elems(q) = {}
      BY <1>2, <1>4, <2>11, <2>12, <2>13
    <3> QED  BY <1>4, <2>3, <2>13, <3>1, DistinctConcat
  <2>16. ASSUME NEW x \in Ancestry \ WantedTips, Kids(x) \subseteq Dropped' \ conf.wanted
         PROVE  x \in Dropped' \cup Elems(tmp')
    <3>1. CASE Kids(x) \subseteq Dropped
      BY <1>2, <1>4, <2>5, <2>14, <2>16, <3>1
    <3>2. CASE ~(Kids(x) \subseteq Dropped)
      <4>1. r \in Kids(x) /\ Kids(x) \ Dropped = {r} /\ r \notin conf.wanted
        BY <2>5, <2>16, <3>2
      <4> QED  BY <2>7, <2>11, <2>12, <2>14, <4>1
    <3> QED  BY <3>1, <3>2
  <2>17. ASSUME NEW x \in Elems(tmp')
         PROVE  Kids(x) \subseteq Dropped' /\ x \notin Dropped' /\ x \notin WantedTips
    <3>1. CASE x \in Elems(Tail(tmp))
      BY <1>2, <1>4, <2>5, <3>1
    <3>2. CASE x \in exposed
      <4>1. r \in Kids(x) /\ Kids(x) \subseteq Dropped' /\ x # r
        BY <2>5, <2>6, <2>7, <2>11, <2>12, <3>2
      <4>2. x \notin Dropped
        BY <1>2, <2>1, <4>1
      <4> QED  BY <2>5, <4>1, <4>2 DEF WantedTips
    <3> QED  BY <2>12, <2>14, <3>1, <3>2
  <2>18. \A x \in Dropped' : x \notin WantedTips /\ Kids(x) \subseteq Dropped'
    BY <1>2, <2>1, <2>5
  <2>19. chld_num' \in [Ids -> Nat]
    <3>1. DOMAIN chld_num = Ids
      BY <1>2
    <3> QED  BY <2>4, <2>10, <3>1
  <2>20. Elems(tmp)' = Elems(tmp') /\ NoDuplicates(tmp)' = NoDuplicates(tmp')
    BY DEF Elems, NoDuplicates
  <2>21. /\ WantedTips \subseteq heads' /\ heads' \subseteq Ancestry \cap conf.wanted
         /\ heads' \subseteq WantedTips \cup Dropped'
    BY <1>2, <1>8, <2>4, <2>5
  <2> QED  BY <1>1, <1>5, <1>6, <2>10, <2>15, <2>16, <2>17, <2>18, <2>19, <2>20, <2>21 DEF HeadsInv
<1> QED  BY <1>7, <1>8

(* Nothing after get_heads_and_consume_certs touches heads and certs.      *)
LEMMA HeadsKept ==
  ASSUME HeadsInv, UNCHANGED <<conf, heads, certs, chld_num, tmp>>,
         phase' = phase \/ (phase = "heads" /\ tmp = <<>>) \/ (phase # "heads" /\ phase' # "heads")
  PROVE  HeadsInv'
<1>1. Ancestry' = Ancestry /\ \A p : Parents(p)' = Parents(p)
  BY SameConf
<1>2. (\A p : Kids(p)' = Kids(p)) /\ WantedTips' = WantedTips
  <2>1. \A p : Kids(p)' = Kids(p)
    BY <1>1 DEF Kids
  <2> QED  BY <1>1, <2>1 DEF WantedTips
<1>3. Dropped' = Dropped
  BY <1>1 DEF Dropped
<1>4. Elems(tmp)' = Elems(tmp) /\ (NoDuplicates(tmp)' <=> NoDuplicates(tmp))
  BY DEF Elems, NoDuplicates
<1>5. phase' = "heads" => phase = "heads"
  OBVIOUS
<1>6. phase' # "heads" => tmp = <<>>
  BY DEF HeadsInv
<1>7. phase' = "heads" =>
        /\ chld_num \in [Ids -> Nat]
        /\ \A p \in Ids : chld_num[p] = Cardinality(Kids(p) \ Dropped)
        /\ \A r \in Elems(tmp) :
             Kids(r) \subseteq Dropped /\ r \notin Dropped /\ r \notin WantedTips
        /\ NoDuplicates(tmp)
  BY <1>5 DEF HeadsInv
<1>8. /\ WantedTips \subseteq heads /\ heads \subseteq Ancestry \cap conf.wanted
      /\ heads \subseteq WantedTips \cup Dropped
      /\ \A r \in Dropped : r \notin WantedTips /\ Kids(r) \subseteq Dropped
      /\ \A r \in Ancestry \ WantedTips :
           Kids(r) \subseteq Dropped \ conf.wanted => r \in Dropped \cup Elems(tmp)
  BY DEF HeadsInv
<1>9. (\A p \in Ids : chld_num[p] = Cardinality(Kids(p) \ Dropped)) =>
        (\A p \in Ids : chld_num[p] = Cardinality(Kids(p) \ Dropped))'
  BY <1>2, <1>3
<1> QED  BY <1>1, <1>2, <1>3, <1>4, <1>6, <1>7, <1>8, <1>9 DEF HeadsInv

LEMMA NextHeads == ASSUME Inv, HeadsInv, [Next]_vars PROVE HeadsInv'
<1>1. CASE DropHead
  BY <1>1, DropHeadHeads
<1>2. CASE StartAncestry
  BY <1>2, HeadsKept DEF StartAncestry
<1>3. CASE FollowEdge
  BY <1>3, HeadsKept DEF FollowEdge
<1>4. CASE PassRevision
  BY <1>4, HeadsKept DEF PassRevision
<1>5. CASE StartRequests
  BY <1>5, HeadsKept DEF StartRequests
<1>6. CASE RequestForward
  BY <1>6, HeadsKept DEF RequestForward
<1>7. CASE RequestReverse
  BY <1>7, HeadsKept DEF RequestReverse
<1>8. CASE Finish
  BY <1>8, HeadsKept DEF Finish
<1>9. CASE UNCHANGED vars
  BY <1>9, HeadsKept DEF vars
<1> QED  BY <1>1, <1>2, <1>3, <1>4, <1>5, <1>6, <1>7, <1>8, <1>9 DEF Next, Step

(* What holds the children of all that it holds has no ancestor of S, when *)
(* it has nothing of S.                                                    *)
LEMMA NotAbove ==
  ASSUME conf \in Configs, NEW D \in SUBSET Ancestry, NEW S \in SUBSET Revs, S \cap D = {},
         \A x \in D : Kids(x) \subseteq D
  PROVE  D \cap Ancestors(S) = {}
<1>1. /\ Ancestry = Revs \ conf.known /\ conf.known \subseteq Revs
      /\ \A r \in Revs : Parents(r) \subseteq Ids
      /\ \A r \in conf.known : Parents(r) \subseteq conf.known \cup {NullRev}
      /\ NullRev \notin Revs
  BY ConfFacts
<1> DEFINE C == Revs \ D
<1>2. ASSUME NEW c \in C, NEW p \in Parents(c), p # NullRev PROVE p \in C
  <2>1. p \in Revs
    BY <1>1, <1>2 DEF Ids
  <2>2. ASSUME p \in D PROVE FALSE
    <3>1. c \in Ancestry
      BY <1>1, <1>2, <2>2
    <3>2. c \in Kids(p)
      BY <1>2, <3>1 DEF Kids
    <3> QED  BY <2>2, <3>2
  <2> QED  BY <2>1, <2>2
<1>3. C \in SUBSET Revs /\ S \subseteq C
  OBVIOUS
<1>4. \A c \in C : Parents(c) \subseteq C \cup {NullRev}
  BY <1>2
<1> HIDE DEF C
<1>5. Ancestors(S) \subseteq C
  BY <1>3, <1>4, AncestorsLeast
<1> QED  BY <1>5 DEF C

LEMMA KidAbove ==
  ASSUME conf \in Configs, NEW r \in Ancestry, NEW k \in Kids(r)
  PROVE  /\ k \in Ancestry /\ k \in Revs /\ k # r
         /\ \A d \in Revs : k \in Ancestors({d}) => r \in Ancestors({d})
         /\ r \in Ancestors({k})
<1>1. k \in Ancestry /\ k \in Revs /\ r \in Revs /\ r \in Parents(k)
  BY ConfFacts DEF Kids
<1>2. k # r
  <2>1. {k} \in SUBSET Revs
    BY <1>1
  <2>2. k \notin Parents(k)
    BY <2>1, Oldest
  <2> QED  BY <1>1, <2>2
<1>3. \A d \in Revs : k \in Ancestors({d}) => r \in Ancestors({d})
  <2> SUFFICES ASSUME NEW d \in Revs, k \in Ancestors({d}) PROVE r \in Ancestors({d})
    OBVIOUS
  <2>1. {d} \in SUBSET Revs
    OBVIOUS
  <2> QED  BY <1>1, <2>1, AncestorsHold
<1>4. k \in Ancestors({k})
  <2>1. {k} \in SUBSET Revs
    BY <1>1
  <2> QED  BY <2>1, AncestorsHold
<1> QED  BY <1>1, <1>2, <1>3, <1>4

(* No revision descends from a child of its own: the newest of what x      *)
(* descends from is x.                                                     *)
LEMMA NoLoop ==
  ASSUME conf \in Configs, NEW x \in Revs, NEW k \in Revs, x \in Parents(k)
  PROVE  k \notin Ancestors({x})
<1> DEFINE T == Ancestors({x})
<1>1. T \in SUBSET Revs /\ x \in T /\ \A r \in T : Parents(r) \cap Revs \subseteq T
  <2>1. {x} \in SUBSET Revs
    OBVIOUS
  <2> QED  BY <2>1, AncestorsHold
<1> HIDE DEF T
<1>2. PICK m \in T : \A c \in T : m \notin Parents(c)
  BY <1>1, Newest
<1>3. ASSUME m # x PROVE FALSE
  <2> DEFINE C == T \ {m}
  <2>1. C \in SUBSET Revs /\ {x} \in SUBSET Revs /\ {x} \subseteq C
    BY <1>1, <1>3
  <2>2. \A c \in C : Parents(c) \subseteq C \cup {NullRev}
    <3>1. \A r \in Revs : Parents(r) \subseteq Revs \cup {NullRev}
      BY ConfFacts DEF Ids
    <3> QED  BY <1>1, <1>2, <3>1
  <2> HIDE DEF C
  <2>3. T \subseteq C
    BY <2>1, <2>2, AncestorsLeast DEF T
  <2> QED  BY <1>2, <2>3 DEF C
<1> QED  BY <1>2, <1>3 DEF T

(* Where nothing is left to drop: what has lost its certs.                 *)
LEMMA DroppedAtEnd ==
  ASSUME Inv, HeadsInv, phase # "heads"
  PROVE  /\ WantedTips \subseteq heads /\ heads \subseteq Ancestry \cap conf.wanted
         /\ heads \subseteq WantedTips \cup Dropped
         /\ Dropped \cap Ancestors(WantedTips) = {}
         /\ {r \in Ancestry \ WantedTips : WantedAbove(r) = {}} \subseteq Dropped
<1>1. /\ \A r \in Dropped : r \notin WantedTips /\ Kids(r) \subseteq Dropped
      /\ \A r \in Ancestry \ WantedTips : Kids(r) \subseteq Dropped \ conf.wanted => r \in Dropped
      /\ Dropped \subseteq Ancestry
  <2>1. tmp = <<>>
    BY DEF HeadsInv
  <2>2. Elems(tmp) = {}
    BY <2>1, EmptyMap
  <2> QED  BY <2>2 DEF HeadsInv, Dropped
<1>2. conf \in Configs /\ Ancestry \subseteq Revs
  BY ConfFacts DEF Inv, Types
<1>3. \A r, d : d \in WantedAbove(r) <=>
        d \in Ancestry /\ d \in conf.wanted /\ d # r /\ r \in Ancestors({d})
  BY DEF WantedAbove
<1>4. Dropped \cap Ancestors(WantedTips) = {}
  <2>1. WantedTips \in SUBSET Revs /\ WantedTips \cap Dropped = {}
    BY <1>1, <1>2 DEF WantedTips
  <2> QED  BY <1>1, <1>2, <2>1, NotAbove
<1>5. ASSUME NEW r \in Ancestry \ WantedTips, WantedAbove(r) = {} PROVE r \in Dropped
  <2> DEFINE S == {x \in Ancestry \ WantedTips : x \notin Dropped /\ WantedAbove(x) = {}}
  <2>1. ASSUME NEW x \in S PROVE \E k \in S : x \in Parents(k)
    <3>1. PICK k \in Kids(x) : k \notin Dropped \/ k \in conf.wanted
      BY <1>1
    <3>2. /\ k \in Ancestry /\ k # x /\ x \in Ancestors({k}) /\ x \in Parents(k)
          /\ \A d \in Revs : k \in Ancestors({d}) => x \in Ancestors({d})
      BY <1>2, KidAbove DEF Kids
    <3>3. k \notin conf.wanted /\ k \notin WantedTips
      BY <1>3, <3>2 DEF WantedTips
    <3>4. ASSUME NEW d \in WantedAbove(k) PROVE FALSE
      <4>1. d \in Ancestry /\ d \in conf.wanted /\ k \in Ancestors({d})
        BY <1>3, <3>4
      <4>2. x \in Ancestors({d})
        BY <1>2, <3>2, <4>1
      <4>3. d # x
        <5>1. k \in Kids(x) /\ {k} \in SUBSET Revs /\ k \in Revs /\ x \in Revs
          BY <1>2, <3>2
        <5> QED  BY <1>2, <3>2, <4>1, <5>1, NoLoop
      <4> QED  BY <1>3, <4>1, <4>2, <4>3
    <3> QED  BY <3>1, <3>2, <3>3, <3>4
  <2>2. S = {}
    <3>1. S \in SUBSET Revs
      BY <1>2
    <3> HIDE DEF S
    <3> QED  BY <1>2, <2>1, <3>1, Newest
  <2> QED  BY <1>5, <2>2
<1> QED  BY <1>4, <1>5 DEF HeadsInv

LEMMA HeadsAtEnd == ASSUME Inv, HeadsInv, phase # "heads" PROVE HeadsRight
<1>1. /\ WantedTips \subseteq heads /\ heads \subseteq Ancestry \cap conf.wanted
      /\ heads \subseteq WantedTips \cup Dropped
      /\ Dropped \cap Ancestors(WantedTips) = {}
      /\ {r \in Ancestry \ WantedTips : WantedAbove(r) = {}} \subseteq Dropped
  BY DroppedAtEnd
<1>2. WantedTips \subseteq Ancestors(WantedTips)
  <2>1. WantedTips \in SUBSET Revs
    BY ConfFacts DEF WantedTips, Inv, Types
  <2> QED  BY <2>1, AncestorsHold
<1>3. heads \cap Ancestors(WantedTips) = WantedTips
  BY <1>1, <1>2
<1>4. Ancestry \cap Ancestors(WantedTips) \subseteq certs
  BY <1>1 DEF Dropped
<1>5. {r \in Ancestry \ conf.wanted : WantedAbove(r) = {}} \cap certs = {}
  BY <1>1 DEF Dropped, WantedTips
<1> QED  BY <1>1, <1>3, <1>4, <1>5 DEF HeadsRight

(* get_heads_and_consume_certs, for every history and every order of       *)
(* hashes: the wanted tips are heads, nothing they descend from is one or  *)
(* loses its certs, no unwanted revision is a head, and unwanted ones that *)
(* nothing wanted descends from lose their certs.                          *)
THEOREM HeadsAreRight == Spec => []HeadsRight
<1>1. Init => HeadsInv
  BY InitHeads
<1>2. Inv /\ HeadsInv /\ [Next]_vars => HeadsInv'
  BY NextHeads
<1>3. Inv /\ HeadsInv => HeadsRight
  BY HeadsAtEnd DEF HeadsRight
<1> QED  BY <1>1, <1>2, <1>3, Invariant, PTL DEF Spec

(* And what step 3 makes of the heads that it exposes, again for every     *)
(* history: a head with children has lost its certs, and so has every      *)
(* newest wanted revision with children.                                   *)
THEOREM ExposedLoseCerts ==
  Spec => [](phase # "heads" =>
               /\ (heads \ WantedTips) \cap certs = {}
               /\ \A r \in (Ancestry \cap conf.wanted) \ WantedTips :
                    WantedAbove(r) = {} => r \notin certs)
<1> DEFINE Lost == phase # "heads" =>
                     /\ (heads \ WantedTips) \cap certs = {}
                     /\ \A r \in (Ancestry \cap conf.wanted) \ WantedTips :
                          WantedAbove(r) = {} => r \notin certs
<1>1. Init => HeadsInv
  BY InitHeads
<1>2. Inv /\ HeadsInv /\ [Next]_vars => HeadsInv'
  BY NextHeads
<1>3. Inv /\ HeadsInv => Lost
  BY DroppedAtEnd DEF Dropped
<1> HIDE DEF Lost
<1>4. Spec => []Lost
  BY <1>1, <1>2, <1>3, Invariant, PTL DEF Spec
<1> QED  BY <1>4 DEF Lost
=============================================================================
