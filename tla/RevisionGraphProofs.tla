------------------------ MODULE RevisionGraphProofs -------------------------
(***************************************************************************)
(* What is proved of the search for an ancestor, of the walks over the     *)
(* ancestry graph and of the commands that combine them, for every finite  *)
(* set of revisions, every acyclic ancestry and every order of numbers,    *)
(* passes, hashes and rows: what a search returns is an ancestor as asked  *)
(* for, and it gives up only when there is none or when both sides of a    *)
(* merge are one revision; update targets, heads, differences and orders   *)
(* are those of the definitions; change sets are composed along whole      *)
(* paths.                                                                  *)
(***************************************************************************)
EXTENDS RevisionGraph, DataLemmas

-----------------------------------------------------------------------------
(* The reference definitions.                                              *)

LEMMA SelfAncestor ==
  ASSUME NEW n \in Revisions PROVE n \in Ancestors(n)
  BY DEF Ancestors

LEMMA ParentAncestors ==
  ASSUME NEW n \in Revisions, NEW p \in parents[n] PROVE Ancestors(p) \subseteq Ancestors(n)
  BY DEF Ancestors, UpClosed

LEMMA SelfDominator ==
  ASSUME NEW n \in Revisions PROVE n \in Dominators(n)
<1>. DEFINE X == Revisions \ {n}
<1>1. X \in SUBSET Revisions /\ n \notin X /\ ReachesAvoiding(n, X)  BY DEF ReachesAvoiding
<1>. QED  BY <1>1 DEF Dominators

(* What dominates all parents of a revision dominates it: what the roots   *)
(* reach without passing through d holds none of the parents.              *)
LEMMA SharedDominator ==
  ASSUME NEW n \in Revisions, NEW d \in Revisions,
         parents[n] \subseteq Revisions, parents[n] # {},
         \A p \in parents[n] : d \in Dominators(p)
  PROVE  d \in Dominators(n)
<1>. DEFINE R == {c \in Revisions : \A X \in SUBSET Revisions : ReachesAvoiding(d, X) => c \in X}
            Y == R \ {n}
<1>1. \A p \in parents[n] : p \notin R  BY DEF Dominators
<1>2. ReachesAvoiding(d, R)
  <2>1. SUFFICES ASSUME NEW c \in Revisions \ {d}, parents[c] = {} \/ parents[c] \cap R # {},
                        NEW X \in SUBSET Revisions, ReachesAvoiding(d, X)
                 PROVE  c \in X
    BY DEF ReachesAvoiding
  <2>2. R \subseteq X  BY <2>1
  <2>. QED  BY <2>1, <2>2 DEF ReachesAvoiding
<1>3. ReachesAvoiding(d, Y)
  <2>1. SUFFICES ASSUME NEW c \in Revisions \ {d}, parents[c] = {} \/ parents[c] \cap Y # {}
                 PROVE  c \in Y
    BY DEF ReachesAvoiding
  <2>2. c \in R  BY <1>2, <2>1 DEF ReachesAvoiding
  <2>3. c # n  BY <1>1, <2>1
  <2>. QED  BY <2>2, <2>3
<1>. QED  BY <1>3 DEF Dominators

-----------------------------------------------------------------------------
(* Maps whose sets no longer grow hold everything.                         *)

AncSettled(n) == n \in anc[n] /\ \A p \in parents[n] : p \in DOMAIN anc /\ anc[p] \subseteq anc[n]

DomSettled(n) ==
  /\ n \in dom[n] /\ parents[n] \subseteq DOMAIN dom
  /\ parents[n] # {} => \A d \in Revisions : (\A p \in parents[n] : d \in dom[p]) => d \in dom[n]

LEMMA AncestorsReached ==
  ASSUME DOMAIN anc \subseteq Revisions, \A m \in DOMAIN anc : AncSettled(m), NEW n \in DOMAIN anc
  PROVE  Ancestors(n) \subseteq anc[n]
<1>. DEFINE C == {c \in DOMAIN anc : anc[c] \subseteq anc[n]}
<1>1. n \in C /\ C \in SUBSET Revisions  OBVIOUS
<1>2. UpClosed(C)  BY DEF UpClosed, AncSettled
<1>3. Ancestors(n) \subseteq C  BY <1>1, <1>2 DEF Ancestors
<1>. QED  BY <1>3 DEF AncSettled

(* A dominator that is missing in a set that no longer grows is missing in *)
(* those of an unbroken line of ancestors, which acyclicity brings to an   *)
(* end at a root.                                                          *)
LEMMA DominatorsReached ==
  ASSUME parents \in Ancestries, DOMAIN dom \subseteq Revisions,
         \A m \in DOMAIN dom : DomSettled(m), NEW n \in DOMAIN dom
  PROVE  Dominators(n) \subseteq dom[n]
<1>1. SUFFICES ASSUME NEW d \in Revisions, NEW X \in SUBSET Revisions,
                      n \notin X, ReachesAvoiding(d, X), d \notin dom[n]
               PROVE  FALSE
  BY DEF Dominators
<1>. DEFINE S == {c \in DOMAIN dom : d \notin dom[c] /\ c \notin X}
<1>2. S \in (SUBSET Revisions) \ {{}}  BY <1>1
<1>3. PICK m \in S : parents[m] \cap S = {}  BY <1>2, AcyclicAssumption, ZenonT(30)
<1>4. m # d  BY <1>3 DEF DomSettled
<1>5. parents[m] # {} /\ parents[m] \cap X = {}  BY <1>1, <1>3, <1>4 DEF ReachesAvoiding
<1>6. PICK p \in parents[m] : d \notin dom[p]  BY <1>3, <1>5 DEF DomSettled
<1>7. p \in S  BY <1>3, <1>5, <1>6 DEF DomSettled
<1>. QED  BY <1>3, <1>6, <1>7

-----------------------------------------------------------------------------
(* The inductive invariant of the search.                                  *)

IsMap(f) == DOMAIN f \subseteq Revisions /\ f \in [DOMAIN f -> SUBSET Revisions]

(* The pass that runs and those that wait; a node is visited in the map    *)
(* of its pass.                                                            *)
Passes ==
  /\ passes \in PassOrders(lca)
  /\ nodes \subseteq IF pass = "ancestors" THEN DOMAIN anc ELSE DOMAIN dom
  /\ \/ pending = <<>> /\ pass \in {"ancestors", "dominators"} /\ (lca => pass = "ancestors")
     \/ pending = <<"dominators">> /\ pass = "ancestors" /\ ~lca
     \/ pending = <<"ancestors">> /\ pass = "dominators" /\ ~lca

Types ==
  /\ parents \in Ancestries
  /\ left \in Revisions \cup {NullRev} /\ right \in Revisions \cup {NullRev} /\ lca \in BOOLEAN
  /\ ctx \in Seq(Revisions)
  /\ IsMap(anc) /\ IsMap(dom)
  /\ changed \in BOOLEAN
  /\ answer \in Revisions \cup {NullRev}
  /\ stage \in Stages

(* What is in the sets is right, and a node that has been visited has all  *)
(* its parents in the map.                                                 *)
Sound ==
  /\ \A n \in DOMAIN anc : anc[n] \subseteq Ancestors(n) /\ (n \in anc[n] => parents[n] \subseteq DOMAIN anc)
  /\ \A n \in DOMAIN dom : dom[n] \subseteq Dominators(n) /\ (n \in dom[n] => parents[n] \subseteq DOMAIN dom)

(* The nodes that this round has visited.                                  *)
AncDone == IF pass = "ancestors" THEN DOMAIN anc \ nodes
           ELSE IF pending = <<"ancestors">> THEN {} ELSE DOMAIN anc
DomDone == IF pass = "dominators" THEN DOMAIN dom \ nodes
           ELSE IF pending = <<"dominators">> THEN {} ELSE DOMAIN dom

(* While nothing has changed in this round, what it has visited is settled *)
(* and the sets are those that did not meet after the last one.            *)
Quiet ==
  /\ \A n \in AncDone : AncSettled(n)
  /\ ~lca => \A n \in DomDone : DomSettled(n)
  /\ Meeting = {}

Searching ==
  stage = "search" =>
    /\ Passes
    /\ {left, right} \subseteq DOMAIN anc /\ (~lca => {left, right} \subseteq DOMAIN dom)
    /\ ~changed => Quiet

(* For one revision on both sides there is no search for a least common    *)
(* ancestor, and no answer from the one for a merge.                       *)
Answered ==
  /\ stage \in {"subgraph", "compose"} => answer \in Revisions
  /\ stage \in {"idle", "search"} => answer = NullRev
  /\ left = right => IF lca THEN stage # "search" ELSE answer = NullRev

IInv ==
  /\ Types /\ Sound /\ Searching /\ Answered
  /\ AnswerSound /\ AnswerComplete

LEMMA ParentsTyped ==
  ASSUME Types PROVE parents \in [Revisions -> SUBSET Revisions]
  BY AncestriesAssumption DEF Types

(* The map after a visit of n, which has the parents S and gets the set V. *)
After(f, n, S, V) == [Grown(f, S) EXCEPT ![n] = V]

(* What the visit has done to the map.                                     *)
VisitMade(g, f, n, S, V) ==
  /\ IsMap(g) /\ DOMAIN g = DOMAIN f \cup S /\ g[n] = V
  /\ \A m \in DOMAIN f \ {n} : g[m] = f[m]
  /\ \A m \in S \ DOMAIN f : g[m] = {}
  /\ S \subseteq DOMAIN f /\ V = f[n] => g = f

LEMMA Visited ==
  ASSUME NEW f, IsMap(f), NEW n \in DOMAIN f, NEW S \in SUBSET Revisions,
         NEW V \in SUBSET Revisions
  PROVE  VisitMade(After(f, n, S, V), f, n, S, V)
<1>. DEFINE g == After(f, n, S, V)
<1>1. Grown(f, S) \in [DOMAIN f \cup S -> SUBSET Revisions]  BY DEF Grown, IsMap
<1>2. g \in [DOMAIN f \cup S -> SUBSET Revisions]  BY <1>1 DEF After
<1>3. \A m \in (DOMAIN f \cup S) \ {n} : g[m] = Grown(f, S)[m]  BY <1>1 DEF After
<1>4. g[n] = V  BY <1>1 DEF After
<1>5. ASSUME S \subseteq DOMAIN f, V = f[n] PROVE g = f
  <2>. HIDE DEF g
  <2>1. DOMAIN g = DOMAIN f  BY <1>2, <1>5
  <2>2. \A m \in DOMAIN f : g[m] = f[m]  BY <1>3, <1>4, <1>5 DEF Grown
  <2>3. f \in [DOMAIN f -> SUBSET Revisions] /\ g \in [DOMAIN f -> SUBSET Revisions]
    BY <1>2, <2>1 DEF IsMap
  <2>. QED  BY <2>2, <2>3
<1>6. IsMap(g) /\ DOMAIN g = DOMAIN f \cup S
  <2>. HIDE DEF g
  <2>. QED  BY <1>2 DEF IsMap
<1>7. \A m \in DOMAIN f \ {n} : g[m] = f[m]
  <2>. HIDE DEF g
  <2>. QED  BY <1>3 DEF Grown
<1>8. \A m \in S \ DOMAIN f : g[m] = {}
  <2>. HIDE DEF g
  <2>. QED  BY <1>3 DEF Grown
<1>. QED  BY <1>4, <1>5, <1>6, <1>7, <1>8 DEF VisitMade

LEMMA LoadTyped ==
  ASSUME Types, NEW n \in Revisions, LoadParents(n) PROVE ctx' \in Seq(Revisions)
<1>. DEFINE S == parents[n] \ Met
<1>1. S \subseteq Revisions  BY ParentsTyped
<1>2. Cardinality(S) \in Nat  BY <1>1, RevisionsAssumption, FS_Subset, FS_CardinalityType
<1>3. PICK s \in SetToSeqs(S) : ctx' = ctx \o s  BY DEF LoadParents
<1>4. s \in [1..Cardinality(S) -> S]  BY <1>3 DEF SetToSeqs
<1>5. s \in Seq(Revisions)
  <2>1. s \in [1..Cardinality(S) -> Revisions]  BY <1>1, <1>4
  <2>2. PICK k \in Nat : k = Cardinality(S)  BY <1>2
  <2>3. s \in [1..k -> Revisions]  BY <2>1, <2>2
  <2>4. s \in UNION {[1..i -> Revisions] : i \in Nat}  BY <2>2, <2>3, Zenon
  <2>. QED  BY <2>4, SeqDef, Zenon
<1>. QED  BY <1>3, <1>5 DEF Types

LEMMA AncestorsOnVisitRight ==
  ASSUME Types, Sound, NEW n \in DOMAIN anc PROVE AncestorsOnVisit(n) \subseteq Ancestors(n)
<1>1. n \in Revisions /\ parents[n] \subseteq Revisions  BY ParentsTyped DEF Types, IsMap
<1>2. n \in Ancestors(n) /\ parents[n] \subseteq Ancestors(n)
  BY <1>1, SelfAncestor, ParentAncestors
<1>3. ASSUME NEW p \in parents[n] \cup {n} PROVE Grown(anc, parents[n])[p] \subseteq Ancestors(n)
  <2>1. Grown(anc, parents[n])[p] = IF p \in DOMAIN anc THEN anc[p] ELSE {}  BY <1>3 DEF Grown
  <2>2. Ancestors(p) \subseteq Ancestors(n)  BY <1>1, <1>3, ParentAncestors
  <2>. QED  BY <2>1, <2>2 DEF Sound
<1>. QED  BY <1>2, <1>3 DEF AncestorsOnVisit

LEMMA DominatorsOnVisitRight ==
  ASSUME Types, Sound, NEW n \in DOMAIN dom PROVE DominatorsOnVisit(n) \subseteq Dominators(n)
<1>1. n \in Revisions /\ parents[n] \subseteq Revisions  BY ParentsTyped DEF Types, IsMap
<1>2. ASSUME NEW d \in SharedDominators(n) PROVE d \in Dominators(n)
  <2>1. /\ d \in Revisions /\ parents[n] # {}
        /\ \A p \in parents[n] : d \in Grown(dom, parents[n])[p]
    BY <1>2 DEF SharedDominators
  <2>2. \A p \in parents[n] : d \in Dominators(p)
    BY <2>1 DEF Grown, Sound
  <2>. QED  BY <1>1, <2>1, <2>2, SharedDominator
<1>3. n \in Dominators(n)  BY <1>1, SelfDominator
<1>. QED  BY <1>2, <1>3 DEF DominatorsOnVisit, Sound

-----------------------------------------------------------------------------
(* The steps.                                                              *)

LEMMA SameAncestry ==
  ASSUME parents' = parents
  PROVE  /\ \A n : Ancestors(n)' = Ancestors(n)
         /\ \A n : Dominators(n)' = Dominators(n)
  BY DEF Ancestors, UpClosed, Dominators, ReachesAvoiding

LEMMA SameAcceptable ==
  ASSUME UNCHANGED <<parents, left, right, lca>> PROVE Acceptable' = Acceptable
<1>1. /\ Ancestors(left)' = Ancestors(left) /\ Ancestors(right)' = Ancestors(right)
      /\ Dominators(left)' = Dominators(left) /\ Dominators(right)' = Dominators(right)
  BY DEF Ancestors, UpClosed, Dominators, ReachesAvoiding
<1>. QED  BY <1>1 DEF Acceptable

LEMMA SameMaps ==
  ASSUME Types, Sound, changed' \in BOOLEAN,
         UNCHANGED <<parents, left, right, lca, ctx, anc, dom, answer, stage>>
  PROVE  Types' /\ Sound'
<1>1. Types'  BY DEF Types, IsMap
<1>2. \A n : Ancestors(n)' = Ancestors(n) /\ Dominators(n)' = Dominators(n)  BY SameAncestry
<1>3. Sound'  BY <1>2 DEF Sound
<1>. QED  BY <1>1, <1>3

(* The orders of passes, first and rest.                                   *)
LEMMA PassSequences ==
  /\ Head(<<"ancestors">>) = "ancestors" /\ Tail(<<"ancestors">>) = <<>>
  /\ Head(<<"dominators">>) = "dominators" /\ Tail(<<"dominators">>) = <<>>
  /\ Head(<<"ancestors", "dominators">>) = "ancestors"
  /\ Tail(<<"ancestors", "dominators">>) = <<"dominators">>
  /\ Head(<<"dominators", "ancestors">>) = "dominators"
  /\ Tail(<<"dominators", "ancestors">>) = <<"ancestors">>
<1>1. Tail(<<"ancestors">>) = <<>> /\ Tail(<<"dominators">>) = <<>>
  OBVIOUS
<1>2. Tail(<<"ancestors", "dominators">>) = <<"dominators">>  OBVIOUS
<1>3. Tail(<<"dominators", "ancestors">>) = <<"ancestors">>  OBVIOUS
<1>. QED  BY <1>1, <1>2, <1>3

LEMMA PassesDiffer ==
  /\ <<"ancestors">> # <<>> /\ <<"dominators">> # <<>> /\ <<"ancestors">> # <<"dominators">>
  /\ "ancestors" # "dominators"
<1>1. <<"ancestors">>[1] = "ancestors" /\ <<"dominators">>[1] = "dominators"  OBVIOUS
<1>. QED  BY <1>1

(* Nothing is claimed of an answer while the search goes on.               *)
LEMMA StillSearching ==
  ASSUME Answered, stage = "search", stage' = "search", UNCHANGED <<left, right, lca, answer>>
  PROVE  Answered' /\ AnswerSound' /\ AnswerComplete'
  BY DEF Answered, AnswerSound, AnswerComplete

LEMMA VisitAncestorsStep ==
  ASSUME IInv, VisitAncestors PROVE IInv'
<1>1. PICK n \in nodes :
        /\ LoadParents(n) /\ nodes' = nodes \ {n}
        /\ anc' = [Grown(anc, parents[n]) EXCEPT ![n] = AncestorsOnVisit(n)]
        /\ changed' = (changed \/ AncestorsOnVisit(n) # anc[n])
  BY DEF VisitAncestors
<1>2. /\ stage = "search" /\ pass = "ancestors"
      /\ UNCHANGED <<parents, left, right, lca, passes, dom, pending, pass, answer, stage>>
  BY DEF VisitAncestors, args
<1>3. /\ Types /\ Sound /\ Passes
      /\ {left, right} \subseteq DOMAIN anc /\ (~lca => {left, right} \subseteq DOMAIN dom)
      /\ ~changed => Quiet
  BY <1>2 DEF IInv, Searching
<1>4. n \in DOMAIN anc /\ n \in Revisions /\ parents[n] \subseteq Revisions
  BY <1>1, <1>2, <1>3, ParentsTyped DEF Passes, Types, IsMap
<1>5. AncestorsOnVisit(n) \subseteq Ancestors(n) /\ AncestorsOnVisit(n) \subseteq Revisions
  BY <1>3, <1>4, AncestorsOnVisitRight DEF Ancestors
<1>6. VisitMade(anc', anc, n, parents[n], AncestorsOnVisit(n))
  <2>1. anc' = After(anc, n, parents[n], AncestorsOnVisit(n))  BY <1>1 DEF After
  <2>2. IsMap(anc) /\ parents[n] \in SUBSET Revisions /\ AncestorsOnVisit(n) \in SUBSET Revisions
    BY <1>3, <1>4, <1>5 DEF Types
  <2>. QED  BY <1>4, <2>1, <2>2, Visited
<1>7. Types'
  BY <1>1, <1>2, <1>3, <1>4, <1>6, LoadTyped DEF Types, IsMap, VisitMade
<1>8. Sound'
  <2>1. ASSUME NEW m \in DOMAIN anc'
        PROVE  anc'[m] \subseteq Ancestors(m) /\ (m \in anc'[m] => parents[m] \subseteq DOMAIN anc')
    BY <1>3, <1>5, <1>6, <2>1 DEF Sound, VisitMade
  <2>2. \A m : Ancestors(m)' = Ancestors(m)  BY <1>2, SameAncestry
  <2>3. \A m : Dominators(m)' = Dominators(m)  BY <1>2, SameAncestry
  <2>4. \A m \in DOMAIN dom : dom[m] \subseteq Dominators(m) /\ (m \in dom[m] => parents[m] \subseteq DOMAIN dom)
    BY <1>3 DEF Sound
  <2>. QED  BY <1>2, <2>1, <2>2, <2>3, <2>4 DEF Sound
<1>9. ASSUME ~changed' PROVE Quiet'
  <2>1. ~changed /\ AncestorsOnVisit(n) = anc[n]  BY <1>1, <1>9
  <2>2. n \in anc[n]  BY <2>1 DEF AncestorsOnVisit
  <2>3. parents[n] \subseteq DOMAIN anc  BY <1>3, <1>4, <2>2 DEF Sound
  <2>4. anc' = anc  BY <1>6, <2>1, <2>3 DEF VisitMade
  <2>5. \A p \in parents[n] : anc[p] \subseteq anc[n]
    <3>1. \A p \in parents[n] : Grown(anc, parents[n])[p] = anc[p]  BY <2>3 DEF Grown
    <3>. QED  BY <2>1, <3>1 DEF AncestorsOnVisit
  <2>6. AncSettled(n)  BY <2>2, <2>3, <2>5 DEF AncSettled
  <2>7. AncDone' \subseteq AncDone \cup {n} /\ DomDone' = DomDone
    BY <1>1, <1>2, <2>4 DEF AncDone, DomDone
  <2>8. \A m : (AncSettled(m)' <=> AncSettled(m)) /\ (DomSettled(m)' <=> DomSettled(m))
    BY <1>2, <2>4 DEF AncSettled, DomSettled
  <2>9. Meeting' = Meeting  BY <1>2, <2>4 DEF Meeting, Compared, RightSet
  <2>10. Quiet  BY <1>3, <2>1
  <2>. QED  BY <1>2, <2>6, <2>7, <2>8, <2>9, <2>10 DEF Quiet
<1>10. Passes'
  BY <1>1, <1>2, <1>3, <1>6 DEF Passes, PassOrders, VisitMade
<1>11. Searching'
  BY <1>2, <1>3, <1>6, <1>9, <1>10 DEF Searching, VisitMade
<1>. QED  BY <1>2, <1>7, <1>8, <1>11, StillSearching DEF IInv

LEMMA VisitDominatorsStep ==
  ASSUME IInv, VisitDominators PROVE IInv'
<1>1. PICK n \in nodes :
        /\ LoadParents(n) /\ nodes' = nodes \ {n}
        /\ dom' = [Grown(dom, parents[n]) EXCEPT ![n] = DominatorsOnVisit(n)]
        /\ changed' = (changed \/ DominatorsOnVisit(n) # dom[n])
  BY DEF VisitDominators
<1>2. /\ stage = "search" /\ pass = "dominators"
      /\ UNCHANGED <<parents, left, right, lca, passes, anc, pending, pass, answer, stage>>
  BY DEF VisitDominators, args
<1>3. /\ Types /\ Sound /\ Passes
      /\ {left, right} \subseteq DOMAIN anc /\ (~lca => {left, right} \subseteq DOMAIN dom)
      /\ ~changed => Quiet
  BY <1>2 DEF IInv, Searching
<1>4. n \in DOMAIN dom /\ n \in Revisions /\ parents[n] \subseteq Revisions
  BY <1>1, <1>2, <1>3, ParentsTyped DEF Passes, Types, IsMap
<1>5. DominatorsOnVisit(n) \subseteq Dominators(n) /\ DominatorsOnVisit(n) \subseteq Revisions
  BY <1>3, <1>4, DominatorsOnVisitRight DEF Dominators
<1>6. VisitMade(dom', dom, n, parents[n], DominatorsOnVisit(n))
  <2>1. dom' = After(dom, n, parents[n], DominatorsOnVisit(n))  BY <1>1 DEF After
  <2>2. IsMap(dom) /\ parents[n] \in SUBSET Revisions /\ DominatorsOnVisit(n) \in SUBSET Revisions
    BY <1>3, <1>4, <1>5 DEF Types
  <2>. QED  BY <1>4, <2>1, <2>2, Visited
<1>7. Types'
  BY <1>1, <1>2, <1>3, <1>4, <1>6, LoadTyped DEF Types, IsMap, VisitMade
<1>8. Sound'
  <2>1. ASSUME NEW m \in DOMAIN dom'
        PROVE  dom'[m] \subseteq Dominators(m) /\ (m \in dom'[m] => parents[m] \subseteq DOMAIN dom')
    BY <1>3, <1>5, <1>6, <2>1 DEF Sound, VisitMade
  <2>2. \A m : Ancestors(m)' = Ancestors(m)  BY <1>2, SameAncestry
  <2>3. \A m : Dominators(m)' = Dominators(m)  BY <1>2, SameAncestry
  <2>4. \A m \in DOMAIN anc : anc[m] \subseteq Ancestors(m) /\ (m \in anc[m] => parents[m] \subseteq DOMAIN anc)
    BY <1>3 DEF Sound
  <2>. QED  BY <1>2, <2>1, <2>2, <2>3, <2>4 DEF Sound
<1>9. ASSUME ~changed' PROVE Quiet'
  <2>1. ~changed /\ DominatorsOnVisit(n) = dom[n]  BY <1>1, <1>9
  <2>2. n \in dom[n]  BY <2>1 DEF DominatorsOnVisit
  <2>3. parents[n] \subseteq DOMAIN dom  BY <1>3, <1>4, <2>2 DEF Sound
  <2>4. dom' = dom  BY <1>6, <2>1, <2>3 DEF VisitMade
  <2>5. ASSUME parents[n] # {}, NEW d \in Revisions, \A p \in parents[n] : d \in dom[p]
        PROVE  d \in dom[n]
    <3>1. \A p \in parents[n] : Grown(dom, parents[n])[p] = dom[p]  BY <2>3 DEF Grown
    <3>. QED  BY <2>1, <2>5, <3>1 DEF DominatorsOnVisit, SharedDominators
  <2>6. DomSettled(n)  BY <2>2, <2>3, <2>5 DEF DomSettled
  <2>7. DomDone' \subseteq DomDone \cup {n} /\ AncDone' = AncDone
    BY <1>1, <1>2, <2>4 DEF AncDone, DomDone
  <2>8. \A m : (AncSettled(m)' <=> AncSettled(m)) /\ (DomSettled(m)' <=> DomSettled(m))
    BY <1>2, <2>4 DEF AncSettled, DomSettled
  <2>9. Meeting' = Meeting  BY <1>2, <2>4 DEF Meeting, Compared, RightSet
  <2>10. Quiet  BY <1>3, <2>1
  <2>. QED  BY <1>2, <2>6, <2>7, <2>8, <2>9, <2>10 DEF Quiet
<1>10. Passes'
  BY <1>1, <1>2, <1>3, <1>6 DEF Passes, PassOrders, VisitMade
<1>11. Searching'
  BY <1>2, <1>3, <1>6, <1>9, <1>10 DEF Searching, VisitMade
<1>. QED  BY <1>2, <1>7, <1>8, <1>11, StillSearching DEF IInv

LEMMA InitRight ==
  ASSUME SearchInit PROVE IInv
<1>1. IsMap(anc) /\ IsMap(dom)
  <2>1. <<>> \in [{} -> SUBSET Revisions] /\ DOMAIN <<>> = {}  OBVIOUS
  <2>. QED  BY <2>1 DEF SearchInit, IsMap
<1>2. Types
  <2>1. ctx \in Seq(Revisions)  BY EmptySeq DEF SearchInit
  <2>. QED  BY <1>1, <2>1 DEF SearchInit, Types, Stages
<1>. QED  BY <1>2, NullAssumption
          DEF SearchInit, IInv, Sound, Searching, Answered, AnswerSound, AnswerComplete

LEMMA AskStep ==
  ASSUME IInv, NEW l \in Revisions, NEW r \in Revisions, NEW useLca \in BOOLEAN, Ask(l, r, useLca)
  PROVE  IInv'
<1>1. /\ stage = "idle" /\ parents' = parents /\ changed' = changed
      /\ left' = l /\ right' = r /\ lca' = useLca /\ passes' \in PassOrders(useLca)
      /\ anc' = [n \in {l, r} |-> {}] /\ nodes' = {l, r}
      /\ dom' = IF useLca THEN <<>> ELSE [n \in {l, r} |-> {}]
      /\ pass' = Head(passes') /\ pending' = Tail(passes')
      /\ IF l = r /\ useLca THEN answer' = l /\ stage' = "subgraph"
         ELSE answer' = NullRev /\ stage' = "search"
  BY DEF Ask
<1>2. ctx' \in Seq(Revisions)  BY DEF Ask
<1>3. IsMap(anc') /\ DOMAIN anc' = {l, r} /\ IsMap(dom') /\ (~useLca => DOMAIN dom' = {l, r})
  BY <1>1 DEF IsMap
<1>4. Types /\ changed \in BOOLEAN  BY DEF IInv, Types
<1>5. Types'
  BY <1>1, <1>2, <1>3, <1>4 DEF Types, Stages
<1>6. \A n \in DOMAIN anc' : anc'[n] = {}  BY <1>1
<1>7. \A n \in DOMAIN dom' : dom'[n] = {}  BY <1>1
<1>8. Sound'  BY <1>6, <1>7 DEF Sound
<1>9. \/ useLca /\ passes' = <<"ancestors">>
      \/ ~useLca /\ passes' = <<"ancestors", "dominators">>
      \/ ~useLca /\ passes' = <<"dominators", "ancestors">>
  BY <1>1 DEF PassOrders
<1>10. \/ useLca /\ pass' = "ancestors" /\ pending' = <<>>
       \/ ~useLca /\ pass' = "ancestors" /\ pending' = <<"dominators">>
       \/ ~useLca /\ pass' = "dominators" /\ pending' = <<"ancestors">>
  BY <1>1, <1>9, PassSequences, Zenon
<1>11. Passes' /\ AncDone' = {} /\ (~useLca => DomDone' = {})
  <2>1. passes' \in PassOrders(lca)'  BY <1>1 DEF PassOrders
  <2>2. nodes' = DOMAIN anc' /\ (~useLca => nodes' = DOMAIN dom')  BY <1>1, <1>3
  <2>3. CASE useLca /\ pass' = "ancestors" /\ pending' = <<>>
    BY <1>1, <2>1, <2>2, <2>3 DEF Passes, AncDone
  <2>4. CASE ~useLca /\ pass' = "ancestors" /\ pending' = <<"dominators">>
    BY <1>1, <2>1, <2>2, <2>4 DEF Passes, AncDone, DomDone
  <2>5. CASE ~useLca /\ pass' = "dominators" /\ pending' = <<"ancestors">>
    BY <1>1, <2>1, <2>2, <2>5 DEF Passes, AncDone, DomDone
  <2>. QED  BY <1>10, <2>3, <2>4, <2>5
<1>13. Meeting' = {}
  <2>1. anc'[l] = {} /\ anc'[r] = {}  BY <1>1
  <2>2. RightSet(anc)' = {}  BY <1>1, <2>1 DEF RightSet
  <2>. QED  BY <1>1, <2>1, <2>2 DEF Meeting, Compared
<1>14. Searching'
  BY <1>1, <1>3, <1>11, <1>13 DEF Searching, Quiet
<1>15. ASSUME l = r, useLca PROVE l \in Acceptable'
  <2>1. \A n : Ancestors(n)' = Ancestors(n)  BY <1>1, SameAncestry
  <2>2. l \in Ancestors(l) /\ l \in Ancestors(r)  BY <1>15, SelfAncestor
  <2>3. l \in Ancestors(l)' /\ l \in Ancestors(r)'  BY <2>1, <2>2
  <2>4. l \in (Ancestors(left) \cap Ancestors(right))'  BY <1>1, <2>3 DEF Ancestors, UpClosed
  <2>. QED  BY <1>1, <1>15, <2>4 DEF Acceptable
<1>16. Answered' /\ AnswerSound' /\ AnswerComplete'
  BY <1>1, <1>15 DEF Answered, AnswerSound, AnswerComplete
<1>. QED  BY <1>5, <1>8, <1>14, <1>16 DEF IInv

LEMMA NextPassStep ==
  ASSUME IInv, NextPass PROVE IInv'
<1>1. /\ stage = "search" /\ nodes = {} /\ pending # <<>>
      /\ StartPass(Head(pending), Tail(pending))
      /\ UNCHANGED <<parents, left, right, lca, passes, ctx, anc, dom, changed, answer, stage>>
  BY DEF NextPass, args
<1>2. /\ Types /\ Sound /\ Passes
      /\ {left, right} \subseteq DOMAIN anc /\ (~lca => {left, right} \subseteq DOMAIN dom)
      /\ ~changed => Quiet
  BY <1>1 DEF IInv, Searching
<1>3. Types' /\ Sound'
  BY <1>1, <1>2, SameMaps DEF Types
<1>4. \/ /\ pending = <<"dominators">> /\ pass = "ancestors" /\ ~lca
         /\ pass' = "dominators" /\ pending' = <<>> /\ nodes' = DOMAIN dom
      \/ /\ pending = <<"ancestors">> /\ pass = "dominators" /\ ~lca
         /\ pass' = "ancestors" /\ pending' = <<>> /\ nodes' = DOMAIN anc
  BY <1>1, <1>2, PassSequences, PassesDiffer DEF Passes, StartPass
<1>5. Passes'  BY <1>1, <1>2, <1>4 DEF Passes, PassOrders
<1>6. AncDone' = AncDone /\ DomDone' = DomDone
  BY <1>1, <1>4, PassesDiffer DEF AncDone, DomDone
<1>7. \A m : (AncSettled(m)' <=> AncSettled(m)) /\ (DomSettled(m)' <=> DomSettled(m))
  BY <1>1 DEF AncSettled, DomSettled
<1>8. Meeting' = Meeting  BY <1>1 DEF Meeting, Compared, RightSet
<1>9. Quiet => Quiet'  BY <1>1, <1>6, <1>7, <1>8 DEF Quiet
<1>10. Searching'  BY <1>1, <1>2, <1>5, <1>9 DEF Searching
<1>. QED  BY <1>1, <1>3, <1>10, StillSearching DEF IInv

LEMMA NextRoundStep ==
  ASSUME IInv, NextRound PROVE IInv'
<1>1. /\ stage = "search" /\ Meeting = {} /\ changed' = FALSE
      /\ StartPass(Head(passes), Tail(passes))
      /\ UNCHANGED <<parents, left, right, lca, passes, ctx, anc, dom, answer, stage>>
  BY DEF NextRound, RoundOver, args
<1>2. /\ Types /\ Sound /\ Passes
      /\ {left, right} \subseteq DOMAIN anc /\ (~lca => {left, right} \subseteq DOMAIN dom)
  BY <1>1 DEF IInv, Searching
<1>3. Types' /\ Sound'
  BY <1>1, <1>2, SameMaps DEF Types
<1>4. \/ lca /\ pass' = "ancestors" /\ pending' = <<>> /\ nodes' = DOMAIN anc
      \/ ~lca /\ pass' = "ancestors" /\ pending' = <<"dominators">> /\ nodes' = DOMAIN anc
      \/ ~lca /\ pass' = "dominators" /\ pending' = <<"ancestors">> /\ nodes' = DOMAIN dom
  <2>1. \/ lca /\ passes = <<"ancestors">>
        \/ ~lca /\ passes = <<"ancestors", "dominators">>
        \/ ~lca /\ passes = <<"dominators", "ancestors">>
    BY <1>2 DEF Passes, PassOrders, Types
  <2>. QED  BY <1>1, <2>1, PassSequences DEF StartPass
<1>5. Passes'  BY <1>1, <1>2, <1>4 DEF Passes, PassOrders
<1>6. AncDone' = {} /\ (~lca => DomDone' = {})
  BY <1>1, <1>4 DEF AncDone, DomDone
<1>7. Meeting' = {}  BY <1>1 DEF Meeting, Compared, RightSet
<1>8. Quiet'  BY <1>1, <1>6, <1>7 DEF Quiet
<1>9. Searching'  BY <1>1, <1>2, <1>5, <1>8 DEF Searching
<1>. QED  BY <1>1, <1>3, <1>9, StillSearching DEF IInv

(* The sets that are compared, one by one.                                 *)
LEMMA ComparedSets ==
  ASSUME lca \in BOOLEAN
  PROVE  /\ left = right => Meeting = {}
         /\ left # right /\ lca => (1 \in Meeting <=> anc[left] \cap anc[right] # {})
         /\ left # right /\ ~lca => (1 \in Meeting <=> anc[left] \cap dom[right] # {})
         /\ left # right /\ ~lca => (2 \in Meeting <=> anc[right] \cap dom[left] # {})
         /\ \A i \in Meeting :
              \/ lca /\ Compared[i] = <<anc[left], anc[right]>>
              \/ ~lca /\ Compared[i] \in {<<anc[left], dom[right]>>, <<anc[right], dom[left]>>}
<1>. DEFINE A == RightSet(anc)
            D == RightSet(dom)
<1>1. /\ left # right => A = anc[right] /\ D = dom[right]
      /\ left = right => A = {} /\ D = {}
  BY DEF RightSet
<1>2. lca => Compared = << <<anc[left], A>> >>  BY DEF Compared
<1>3. ~lca => Compared = << <<anc[left], D>>, <<A, dom[left]>> >>  BY DEF Compared
<1>. HIDE DEF A, D
<1>4. lca => DOMAIN Compared = {1} /\ Compared[1] = <<anc[left], A>>  BY <1>2
<1>5. ~lca => /\ DOMAIN Compared = {1, 2}
              /\ Compared[1] = <<anc[left], D>> /\ Compared[2] = <<A, dom[left]>>
  BY <1>3
<1>6. /\ lca => \A i : i \in Meeting <=> i = 1 /\ anc[left] \cap A # {}
      /\ ~lca => \A i : i \in Meeting <=> \/ i = 1 /\ anc[left] \cap D # {}
                                          \/ i = 2 /\ A \cap dom[left] # {}
  BY <1>4, <1>5 DEF Meeting
<1>. HIDE DEF Compared
<1>7. left = right => Meeting = {}  BY <1>1, <1>6
<1>8. left # right /\ lca => (1 \in Meeting <=> anc[left] \cap anc[right] # {})  BY <1>1, <1>6
<1>9. left # right /\ ~lca => /\ (1 \in Meeting <=> anc[left] \cap dom[right] # {})
                              /\ (2 \in Meeting <=> anc[right] \cap dom[left] # {})
  BY <1>1, <1>6
<1>10. ASSUME NEW i \in Meeting
       PROVE  \/ lca /\ Compared[i] = <<anc[left], anc[right]>>
              \/ ~lca /\ Compared[i] \in {<<anc[left], dom[right]>>, <<anc[right], dom[left]>>}
  <2>1. left # right  BY <1>7
  <2>. QED  BY <1>1, <1>4, <1>5, <1>6, <2>1
<1>. QED  BY <1>7, <1>8, <1>9, <1>10

LEMMA FoundStep ==
  ASSUME IInv, Found PROVE IInv'
<1>1. /\ stage = "search" /\ stage' = "subgraph"
      /\ UNCHANGED <<parents, left, right, lca, ctx, anc, dom, changed>>
  BY DEF Found, RoundOver, args
<1>2. /\ Types /\ Sound
      /\ {left, right} \subseteq DOMAIN anc /\ (~lca => {left, right} \subseteq DOMAIN dom)
  BY <1>1 DEF IInv, Searching
<1>3. PICK i \in Meeting : answer' \in Revisions /\ answer' \in Compared[i][1] \cap Compared[i][2]
  BY DEF Found, Intersecting
<1>8. left # right
  BY <1>2, <1>3, ComparedSets DEF Types
<1>4. answer' \in Acceptable
  <2>1. lca \in BOOLEAN  BY <1>2 DEF Types
  <2>2. anc[left] \subseteq Ancestors(left) /\ anc[right] \subseteq Ancestors(right)
    BY <1>2 DEF Sound
  <2>3. ~lca => dom[left] \subseteq Dominators(left) /\ dom[right] \subseteq Dominators(right)
    BY <1>2 DEF Sound
  <2>4. \/ lca /\ Compared[i] = <<anc[left], anc[right]>>
        \/ ~lca /\ Compared[i] \in {<<anc[left], dom[right]>>, <<anc[right], dom[left]>>}
    BY <2>1, ComparedSets
  <2>5. CASE lca /\ Compared[i] = <<anc[left], anc[right]>>
    BY <1>3, <2>2, <2>5 DEF Acceptable
  <2>6. CASE ~lca /\ Compared[i] = <<anc[left], dom[right]>>
    BY <1>3, <2>2, <2>3, <2>6 DEF Acceptable
  <2>7. CASE ~lca /\ Compared[i] = <<anc[right], dom[left]>>
    BY <1>3, <2>2, <2>3, <2>7 DEF Acceptable
  <2>. QED  BY <2>4, <2>5, <2>6, <2>7
<1>5. Acceptable' = Acceptable  BY <1>1, SameAcceptable
<1>6. Types'  BY <1>1, <1>2, <1>3 DEF Types, IsMap, Stages
<1>7. Sound'
  <2>1. \A n : Ancestors(n)' = Ancestors(n) /\ Dominators(n)' = Dominators(n)
    BY <1>1, SameAncestry
  <2>. QED  BY <1>1, <1>2, <2>1 DEF Sound
<1>. QED  BY <1>1, <1>3, <1>4, <1>5, <1>6, <1>7, <1>8
          DEF IInv, Searching, Answered, AnswerSound, AnswerComplete

(* A round without change has nothing left to find.                        *)
LEMMA NotFoundStep ==
  ASSUME IInv, NotFound PROVE IInv'
<1>1. /\ stage = "search" /\ nodes = {} /\ pending = <<>> /\ ~changed /\ stage' = "done"
      /\ UNCHANGED <<parents, left, right, lca, ctx, anc, dom, changed, answer>>
  BY DEF NotFound, RoundOver, searchVars, args
<1>2. /\ Types /\ Sound /\ Passes /\ Quiet
      /\ {left, right} \subseteq DOMAIN anc /\ (~lca => {left, right} \subseteq DOMAIN dom)
  BY <1>1 DEF IInv, Searching
<1>3. AncDone = DOMAIN anc /\ DomDone = DOMAIN dom
  BY <1>1, PassesDiffer DEF AncDone, DomDone
<1>4. Ancestors(left) \subseteq anc[left] /\ Ancestors(right) \subseteq anc[right]
  BY <1>2, <1>3, AncestorsReached DEF Quiet, Types, IsMap
<1>5. ~lca => Dominators(left) \subseteq dom[left] /\ Dominators(right) \subseteq dom[right]
  BY <1>2, <1>3, DominatorsReached DEF Quiet, Types, IsMap
<1>6. ASSUME left # right PROVE Acceptable = {}
  <2>1. 1 \notin Meeting /\ 2 \notin Meeting  BY <1>2 DEF Quiet
  <2>2. lca \in BOOLEAN  BY <1>2 DEF Types
  <2>3. CASE lca
    <3>1. anc[left] \cap anc[right] = {}  BY <1>6, <2>1, <2>2, <2>3, ComparedSets
    <3>. QED  BY <1>4, <2>3, <3>1 DEF Acceptable
  <2>4. CASE ~lca
    <3>1. anc[left] \cap dom[right] = {} /\ anc[right] \cap dom[left] = {}
      BY <1>6, <2>1, <2>2, <2>4, ComparedSets
    <3>. QED  BY <1>4, <1>5, <2>4, <3>1 DEF Acceptable
  <2>. QED  BY <2>3, <2>4
<1>7. Acceptable' = Acceptable  BY <1>1, SameAcceptable
<1>8. Types'  BY <1>1, <1>2 DEF Types, IsMap, Stages
<1>9. Sound'
  <2>1. \A n : Ancestors(n)' = Ancestors(n) /\ Dominators(n)' = Dominators(n)
    BY <1>1, SameAncestry
  <2>. QED  BY <1>1, <1>2, <2>1 DEF Sound
<1>10. answer' = NullRev  BY <1>1 DEF IInv, Answered
<1>. QED  BY <1>1, <1>6, <1>7, <1>8, <1>9, <1>10
          DEF IInv, Searching, Answered, AnswerSound, AnswerComplete

ComposeStep ==
  SameRevision \/ ExpandFrontier \/ RelevantParent \/ SkipParent \/ ExploreParent \/ Exhausted

(* The composition of change sets keeps the answer, and there is one.      *)
LEMMA ComposeKeeps ==
  ASSUME IInv, ComposeStep PROVE IInv'
<1>1. /\ stage \in {"subgraph", "compose"} /\ stage' \in {"subgraph", "compose", "done"}
      /\ UNCHANGED searchVars
  BY DEF ComposeStep, SameRevision, ExpandFrontier, RelevantParent, SkipParent, ExploreParent,
         Exhausted, Return, FinishComposite
<1>2. UNCHANGED <<parents, left, right, lca, ctx, anc, dom, changed, answer>>
  BY <1>1 DEF searchVars, args
<1>3. Types /\ Sound /\ answer \in Revisions /\ answer \in Acceptable
  BY <1>1, NullAssumption DEF IInv, Answered, AnswerSound
<1>4. Acceptable' = Acceptable  BY <1>2, SameAcceptable
<1>5. Types'  BY <1>1, <1>2, <1>3 DEF Types, IsMap, Stages
<1>6. Sound'
  <2>1. \A n : Ancestors(n)' = Ancestors(n) /\ Dominators(n)' = Dominators(n)
    BY <1>2, SameAncestry
  <2>. QED  BY <1>2, <1>3, <2>1 DEF Sound
<1>. QED  BY <1>1, <1>2, <1>3, <1>4, <1>5, <1>6, NullAssumption
          DEF IInv, Searching, Answered, AnswerSound, AnswerComplete

LEMMA StutterKeeps ==
  ASSUME IInv, UNCHANGED mbVars PROVE IInv'
<1>1. /\ UNCHANGED <<parents, left, right, lca, passes, ctx, anc, dom, pending, pass, nodes>>
      /\ UNCHANGED <<changed, answer, stage>>
  BY DEF mbVars, searchVars, args
<1>2. Types' /\ Sound'  BY <1>1, SameMaps DEF IInv, Types
<1>3. Acceptable' = Acceptable  BY <1>1, SameAcceptable
<1>4. Passes' = Passes /\ AncDone' = AncDone /\ DomDone' = DomDone /\ Meeting' = Meeting
  BY <1>1 DEF Passes, AncDone, DomDone, Meeting, Compared, RightSet
<1>5. \A m : (AncSettled(m)' <=> AncSettled(m)) /\ (DomSettled(m)' <=> DomSettled(m))
  BY <1>1 DEF AncSettled, DomSettled
<1>6. Quiet => Quiet'  BY <1>1, <1>4, <1>5 DEF Quiet
<1>. QED  BY <1>1, <1>2, <1>3, <1>4, <1>6
          DEF IInv, Searching, Answered, AnswerSound, AnswerComplete

LEMMA SearchStepKeeps ==
  ASSUME IInv, [SearchNext]_mbVars PROVE IInv'
  BY VisitAncestorsStep, VisitDominatorsStep, NextPassStep, NextRoundStep, FoundStep,
     NotFoundStep, ComposeKeeps, StutterKeeps, AskStep
  DEF SearchNext, SearchStep, ComposeStep

LEMMA SearchInvariant == SearchSpec => []IInv
  BY InitRight, SearchStepKeeps, PTL DEF SearchSpec
-----------------------------------------------------------------------------
(* AnswerSound: for every acyclic ancestry, whatever the order of numbers  *)
(* and passes, what is found is an ancestor of both sides, and for a merge *)
(* one of them cannot be reached without it.                               *)
THEOREM FoundIsAcceptable == SearchSpec => []AnswerSound
<1>1. IInv => AnswerSound  BY DEF IInv
<1>. QED  BY <1>1, SearchInvariant, PTL

(* AnswerComplete: a search that ends without an answer ends where there   *)
(* is none, although the sets are expanded in place and the rounds stop at *)
(* the first that changes nothing, or was for the merge of a revision with *)
(* itself.                                                                 *)
THEOREM GivesUpRightly == SearchSpec => []AnswerComplete
<1>1. IInv => AnswerComplete  BY DEF IInv
<1>. QED  BY <1>1, SearchInvariant, PTL

(* That exception is no matter of the ancestry: find_common_ancestor_for_  *)
(* merge never has an answer for two equal revisions (lcad), because the   *)
(* right-hand sets are not those in its maps, although the revision itself *)
(* would do.                                                               *)
THEOREM NothingForItself ==
  SearchSpec => [](left = right /\ left # NullRev /\ ~lca => answer = NullRev /\ left \in Acceptable)
<1>1. ASSUME IInv, left = right, left # NullRev, ~lca
      PROVE  answer = NullRev /\ left \in Acceptable
  <2>1. left \in Revisions  BY <1>1 DEF IInv, Types
  <2>2. left \in Ancestors(left) \cap Dominators(right)
    BY <1>1, <2>1, SelfAncestor, SelfDominator
  <2>. QED  BY <1>1, <2>2 DEF IInv, Answered, Acceptable
<1>2. IInv => (left = right /\ left # NullRev /\ ~lca => answer = NullRev /\ left \in Acceptable)
  BY <1>1
<1>. QED  BY <1>2, SearchInvariant, PTL

(* SearchTypeOK: the interner and the two maps only ever hold revisions.   *)
THEOREM SearchTyped == SearchSpec => []SearchTypeOK
<1>1. IInv => SearchTypeOK  BY ParentsTyped DEF IInv, Types, IsMap, SearchTypeOK
<1>. QED  BY <1>1, SearchInvariant, PTL

-----------------------------------------------------------------------------
(* The inductive invariant of the walks.                                   *)

Ids == Revisions \cup {NullRev}

(* What n descends from, in the table with the null revision.              *)
Before(n) == IF n = NullRev THEN {} ELSE (Ancestors(n) \ {n}) \cup {NullRev}

WalkTypes ==
  /\ parents \in Ancestries
  /\ walk.op \in {"none", "update", "erase", "difference", "sort"}
  /\ walk.revs \subseteq Revisions
  /\ walk.op \in {"update", "difference"} => walk.base \in Revisions
  /\ toTraverse \in Seq(Revisions) /\ seen \subseteq Revisions /\ candidates \subseteq Revisions
  /\ todo \subseteq Revisions /\ stk \in Seq(Ids)
  /\ DOMAIN ancestors \subseteq Ids /\ ancestors \in [DOMAIN ancestors -> SUBSET Ids]
  /\ union \subseteq Ids /\ baseUnion \subseteq Ids
  /\ result \subseteq Revisions

(* Where each walk can be.                                                 *)
Placed ==
  /\ at \in CASE walk.op = "update" -> {"traverse", "erase", "done"}
              [] walk.op = "erase" -> {"erase", "done"}
              [] walk.op = "difference" -> {"difference", "base", "done"}
              [] walk.op = "sort" -> {"sort", "done"}
              [] walk.op = "none" -> {"done"}
  /\ Calculating => at \in {"erase", "difference", "base"}

(* The children of every revision that calculate_update_set has passed     *)
(* have been passed or wait.                                               *)
Traversing ==
  at = "traverse" =>
    /\ \A n \in seen \cup Elems(toTraverse) : walk.base \in Ancestors(n)
    /\ \A n \in seen \cup {walk.base} : Children(n) \subseteq seen \cup Elems(toTraverse)
    /\ candidates = {n \in seen \cup {walk.base} : n \in walk.revs}
    /\ union = {}

(* The argument of erase_ancestors.                                        *)
Wanted ==
  IF walk.op = "update" THEN {n \in walk.revs : walk.base \in Ancestors(n)} ELSE walk.revs

Collected == walk.op \in {"update", "erase"} /\ at # "traverse" => candidates = Wanted

(* What is in the map is the whole ancestry, whichever call has put it     *)
(* there, and the stack leads from the revision asked for to older ones.   *)
MapRight ==
  /\ \A n \in DOMAIN ancestors : ancestors[n] = Before(n)
  /\ \A i \in DOMAIN stk : stk[i] \in {stk[1]} \cup Before(stk[1])

(* What the calls for the revisions of a set have to give to the union.    *)
Given == IF walk.op = "difference" THEN walk.revs ELSE candidates
Begun == Given \ todo
Gained(n) == IF walk.op = "difference" THEN Before(n) \cup {n} ELSE Before(n)

UnionRight ==
  at \in {"erase", "difference"} =>
    /\ todo \subseteq Given
    /\ Calculating => stk[1] \in Begun
    /\ \A n \in Begun : ~(Calculating /\ n = stk[1]) => Gained(n) \subseteq union
    /\ walk.op = "difference" => Begun \subseteq union
    /\ \A x \in union : \E n \in Begun : x \in Gained(n)

BaseRight ==
  at = "base" =>
    /\ union \ {NullRev} = UNION {Ancestors(b) : b \in walk.revs}
    /\ Calculating => stk[1] = walk.base
    /\ baseUnion \subseteq Before(walk.base) \cup {walk.base}
    /\ walk.base \in baseUnion
    /\ ~Calculating => Before(walk.base) \subseteq baseUnion

(* toposort: the revisions taken from the roots.                           *)
Taken == {n \in Ids : pcount[n] = 0 /\ n \notin Elems(roots)}

Sorting ==
  walk.op = "sort" =>
    /\ pcount \in [Ids -> Nat] /\ roots \in Seq(Ids) /\ sorted \in Seq(Revisions)
    /\ edges = {e \in Graph : e[1] \notin Taken}
    /\ \A c \in Ids : pcount[c] = Cardinality(ParentIds(c) \ Taken)
    /\ \A n \in Elems(roots) : pcount[n] = 0
    /\ NoDuplicates(roots) /\ NoDuplicates(sorted)
    /\ Elems(sorted) = walk.revs \cap Taken
    /\ \A i, j \in DOMAIN sorted : i < j => sorted[j] \notin Ancestors(sorted[i])
    /\ at = "done" => roots = <<>>

WalkInv ==
  /\ WalkTypes /\ Placed /\ Traversing /\ Collected /\ MapRight
  /\ UnionRight /\ BaseRight /\ Sorting
  /\ TargetsRight /\ DifferenceRight

-----------------------------------------------------------------------------
(* Ancestries.                                                             *)

LEMMA ParentsKnown ==
  ASSUME parents \in Ancestries
  PROVE  /\ parents \in [Revisions -> SUBSET Revisions]
         /\ \A n \in Ids : ParentIds(n) \subseteq Ids
         /\ ParentIds(NullRev) = {}
         /\ \A n \in Revisions :
              ParentIds(n) = IF parents[n] = {} THEN {NullRev} ELSE parents[n]
  BY AncestriesAssumption, NullAssumption DEF ParentIds, Ids

LEMMA Transitive ==
  ASSUME NEW n \in Revisions, NEW a \in Ancestors(n)
  PROVE  Ancestors(a) \subseteq Ancestors(n)
  BY DEF Ancestors

(* A set with all parents of its members has all their ancestors.          *)
LEMMA ClosedHolds ==
  ASSUME NEW C \in SUBSET Revisions, UpClosed(C), NEW n \in C
  PROVE  Ancestors(n) \subseteq C
  BY DEF Ancestors

(* A revision descends from itself and from what its parents descend from. *)
LEMMA ByParents ==
  ASSUME parents \in Ancestries, NEW n \in Revisions
  PROVE  /\ parents[n] \subseteq Revisions
         /\ Ancestors(n) = {n} \cup UNION {Ancestors(p) : p \in parents[n]}
<1> DEFINE C == {n} \cup UNION {Ancestors(p) : p \in parents[n]}
<1>1. parents[n] \subseteq Revisions
  BY ParentsKnown
<1>2. C \in SUBSET Revisions /\ n \in C
  BY DEF Ancestors
<1>3. UpClosed(C)
  <2> SUFFICES ASSUME NEW c \in C, NEW q \in parents[c] PROVE q \in C
    BY DEF UpClosed
  <2>0. q \in Revisions
    BY <1>2, ParentsKnown
  <2>1. CASE c = n
    BY <2>0, <2>1, SelfAncestor
  <2>2. CASE c # n
    <3>1. PICK p \in parents[n] : c \in Ancestors(p)
      BY <2>2
    <3>2. c \in Revisions /\ q \in Ancestors(c)
      BY <1>2, <2>0, SelfAncestor, ParentAncestors
    <3>3. q \in Ancestors(p)
      BY <1>1, <3>1, <3>2, Transitive
    <3> QED  BY <3>3
  <2> QED  BY <2>1, <2>2
<1>4. Ancestors(n) \subseteq C
  BY <1>2, <1>3, ClosedHolds
<1>5. C \subseteq Ancestors(n)
  BY SelfAncestor, ParentAncestors
<1> QED  BY <1>1, <1>4, <1>5

(* Two revisions that descend from each other are one.                     *)
LEMMA NoCircle ==
  ASSUME parents \in Ancestries, NEW n \in Revisions, NEW m \in Ancestors(n), n \in Ancestors(m)
  PROVE  n = m
<1> SUFFICES ASSUME n # m PROVE FALSE
  OBVIOUS
<1> DEFINE S == {x \in Ancestors(n) : n \in Ancestors(x)}
<1>1. S \in (SUBSET Revisions) \ {{}} /\ m \in Revisions
  BY SelfAncestor DEF Ancestors
<1>2. PICK x \in S : parents[x] \cap S = {}
  BY <1>1, AcyclicAssumption, ZenonT(30)
<1>3. x \in Revisions /\ x \in Ancestors(n)
  BY <1>1, <1>2
<1>4. PICK y \in {n, m} : y \in Ancestors(x) /\ y # x
  <2>1. n \in Ancestors(x)
    BY <1>2
  <2>2. m \in Ancestors(x)
    BY <1>3, <2>1, Transitive
  <2> QED  BY <2>1, <2>2
<1>5. PICK p \in parents[x] : y \in Ancestors(p)
  BY <1>3, <1>4, ByParents
<1>6. p \in Revisions /\ p \in Ancestors(x)
  BY <1>3, <1>5, ByParents, SelfAncestor, ParentAncestors
<1>7. p \in Ancestors(n)
  BY <1>3, <1>6, Transitive
<1>8. n \in Ancestors(p)
  BY <1>4, <1>5, <1>6, Transitive
<1> QED  BY <1>2, <1>5, <1>7, <1>8

LEMMA BeforeTyped ==
  /\ \A n \in Ids : Before(n) \subseteq Ids /\ n \notin Before(n)
  /\ NullRev \notin Revisions /\ Before(NullRev) = {}
  /\ \A n \in Revisions : Before(n) = (Ancestors(n) \ {n}) \cup {NullRev}
  /\ \A n \in Revisions : Ancestors(n) \subseteq Revisions
  BY NullAssumption DEF Before, Ids, Ancestors

(* What comes before something that comes before n comes before n.         *)
LEMMA BeforeTransitive ==
  ASSUME parents \in Ancestries, NEW n \in Ids, NEW a \in Before(n)
  PROVE  Before(a) \subseteq Before(n)
<1>1. CASE a = NullRev
  BY <1>1 DEF Before
<1>2. CASE a # NullRev
  <2>1. n \in Revisions /\ a \in Revisions /\ a \in Ancestors(n) /\ a # n
    BY <1>2, BeforeTyped DEF Ids
  <2>2. Ancestors(a) \subseteq Ancestors(n)
    BY <2>1, Transitive
  <2>3. n \notin Ancestors(a)
    BY <2>1, NoCircle
  <2> QED  BY <2>1, <2>2, <2>3, BeforeTyped
<1> QED  BY <1>1, <1>2

(* What a revision takes from its parents is all that comes before it.     *)
LEMMA BeforeByParents ==
  ASSUME parents \in Ancestries, NEW n \in Ids
  PROVE  Before(n) = UNION {{p} \cup Before(p) : p \in ParentIds(n)}
<1>1. CASE n = NullRev
  BY <1>1, ParentsKnown DEF Before
<1>2. CASE n # NullRev /\ parents[n] = {}
  <2>1. n \in Revisions /\ ParentIds(n) = {NullRev}
    BY <1>2, ParentsKnown DEF Ids
  <2>2. Ancestors(n) = {n}
    BY <1>2, <2>1, ByParents
  <2> QED  BY <2>1, <2>2, BeforeTyped
<1>3. CASE n # NullRev /\ parents[n] # {}
  <2>1. n \in Revisions /\ ParentIds(n) = parents[n] /\ parents[n] \subseteq Revisions
    BY <1>3, ParentsKnown DEF Ids
  <2>2. \A p \in parents[n] : {p} \cup Before(p) = Ancestors(p) \cup {NullRev}
    BY <2>1, BeforeTyped, SelfAncestor
  <2>3. \A p \in parents[n] : n \notin Ancestors(p)
    <3> SUFFICES ASSUME NEW p \in parents[n], n \in Ancestors(p) PROVE FALSE
      OBVIOUS
    <3>1. p \in Ancestors(n)
      BY <2>1, SelfAncestor, ParentAncestors
    <3>2. n = p
      BY <2>1, <3>1, NoCircle
    <3>3. \A m \in Revisions : m \notin parents[m]
      <4> SUFFICES ASSUME NEW m \in Revisions, m \in parents[m] PROVE FALSE
        OBVIOUS
      <4>1. {m} \in (SUBSET Revisions) \ {{}}
        OBVIOUS
      <4>2. PICK x \in {m} : parents[x] \cap {m} = {}
        BY <4>1, AcyclicAssumption, ZenonT(30)
      <4> QED  BY <4>2
    <3> QED  BY <2>1, <3>2, <3>3
  <2>4. Before(n) = UNION {Ancestors(p) \cup {NullRev} : p \in parents[n]}
    <3>1. Ancestors(n) = {n} \cup UNION {Ancestors(p) : p \in parents[n]}
      BY <2>1, ByParents
    <3>2. Before(n) = (UNION {Ancestors(p) : p \in parents[n]}) \cup {NullRev}
      BY <2>1, <2>3, <3>1, BeforeTyped
    <3> QED  BY <1>3, <3>2
  <2> QED  BY <2>1, <2>2, <2>4
<1> QED  BY <1>1, <1>2, <1>3

LEMMA ParentBefore ==
  ASSUME parents \in Ancestries, NEW n \in Ids, NEW p \in ParentIds(n)
  PROVE  p \in Before(n)
  BY BeforeByParents
-----------------------------------------------------------------------------
(* What a step leaves alone.                                               *)

LEMMA SameGraph ==
  ASSUME parents' = parents
  PROVE  /\ \A n : Ancestors(n)' = Ancestors(n)
         /\ \A n : Before(n)' = Before(n)
         /\ \A n : ParentIds(n)' = ParentIds(n)
         /\ \A n : Children(n)' = Children(n)
         /\ Graph' = Graph
<1>1. \A n : Ancestors(n)' = Ancestors(n)
  BY SameAncestry
<1>2. \A n : ParentIds(n)' = ParentIds(n) /\ Children(n)' = Children(n)
  BY DEF ParentIds, Children
<1> QED  BY <1>1, <1>2 DEF Before, Graph

LEMMA ChildrenFinite ==
  \A n : Children(n) \subseteq Revisions /\ IsFiniteSet(Children(n))
<1>1. \A n : Children(n) \subseteq Revisions
  BY DEF Children
<1> QED  BY <1>1, RevisionsAssumption, FS_Subset

-----------------------------------------------------------------------------
(* calculate_update_set                                                    *)

LEMMA AtTraverse ==
  ASSUME WalkInv, at = "traverse"
  PROVE  walk.op = "update" /\ walk.base \in Revisions /\ stk = <<>>
<1>1. walk.op = "update"
  BY DEF WalkInv, WalkTypes, Placed
<1> QED  BY <1>1 DEF WalkInv, WalkTypes, Placed, Calculating

(* What a step of this loop has to show.                                   *)
LEMMA TraverseFrame ==
  ASSUME WalkInv, at = "traverse", at' = "traverse",
         UNCHANGED <<parents, walk, ancestorVars, topoVars, result>>,
         toTraverse' \in Seq(Revisions), seen' \subseteq Revisions, candidates' \subseteq Revisions,
         Traversing'
  PROVE  WalkInv'
<1>1. walk.op = "update" /\ stk = <<>> /\ walk' = walk
  BY AtTraverse
<1>2. WalkTypes'
  BY DEF WalkInv, WalkTypes, ancestorVars
<1>3. Placed' /\ Collected' /\ UnionRight' /\ BaseRight' /\ Sorting'
  BY <1>1 DEF Placed, Collected, UnionRight, BaseRight, Sorting, Calculating, ancestorVars
<1>4. MapRight'
  <2>1. /\ stk' = stk /\ ancestors' = ancestors /\ \A n : Before(n)' = Before(n)
    BY SameGraph DEF ancestorVars
  <2> QED  BY <2>1 DEF WalkInv, MapRight
<1>5. TargetsRight' /\ DifferenceRight'
  BY <1>1 DEF TargetsRight, DifferenceRight, Returned
<1> QED  BY <1>2, <1>3, <1>4, <1>5 DEF WalkInv

LEMMA SkipTraversedStep == ASSUME WalkInv, SkipTraversed PROVE WalkInv'
<1>1. /\ at = "traverse" /\ at' = "traverse" /\ toTraverse # <<>> /\ Target \in seen
      /\ toTraverse' = Others
      /\ UNCHANGED <<parents, walk, seen, candidates, ancestorVars, topoVars, result>>
  BY DEF SkipTraversed
<1>2. /\ toTraverse \in Seq(Revisions) /\ seen \subseteq Revisions /\ candidates \subseteq Revisions
  BY DEF WalkInv, WalkTypes
<1>3. Others \in Seq(Revisions) /\ Elems(toTraverse) = Elems(Others) \cup {Target}
  BY <1>1, <1>2, WithoutLast DEF Others, Target
<1>4. Traversing'
  <2>1. /\ \A n : Ancestors(n)' = Ancestors(n) /\ Children(n)' = Children(n)
    BY <1>1, SameGraph
  <2>2. Elems(toTraverse)' = Elems(Others) /\ Elems(toTraverse) = Elems(Others) \cup {Target}
    BY <1>1, <1>3 DEF Elems
  <2>3. /\ \A n \in seen \cup Elems(toTraverse) : walk.base \in Ancestors(n)
        /\ \A n \in seen \cup {walk.base} : Children(n) \subseteq seen \cup Elems(toTraverse)
        /\ candidates = {n \in seen \cup {walk.base} : n \in walk.revs}
        /\ union = {} /\ union' = union
    BY <1>1 DEF WalkInv, Traversing, ancestorVars
  <2> QED  BY <1>1, <2>1, <2>2, <2>3 DEF Traversing
<1> QED  BY <1>1, <1>2, <1>3, <1>4, TraverseFrame

LEMMA TraverseStep == ASSUME WalkInv, Traverse PROVE WalkInv'
<1>1. PICK cs \in SetToSeqs(Children(Target)) : toTraverse' = Others \o cs
  BY DEF Traverse
<1>2. /\ at = "traverse" /\ at' = "traverse" /\ toTraverse # <<>>
      /\ seen' = seen \cup {Target}
      /\ candidates' = candidates \cup {n \in {Target} : AcceptableDescendent(n)}
      /\ UNCHANGED <<parents, walk, ancestorVars, topoVars, result>>
  BY DEF Traverse
<1>3. /\ toTraverse \in Seq(Revisions) /\ seen \subseteq Revisions /\ candidates \subseteq Revisions
      /\ parents \in Ancestries
  BY DEF WalkInv, WalkTypes
<1>4. /\ Others \in Seq(Revisions) /\ Elems(toTraverse) = Elems(Others) \cup {Target}
      /\ Target \in Revisions
  BY <1>2, <1>3, WithoutLast DEF Others, Target
<1>5. cs \in Seq(Revisions) /\ Elems(cs) = Children(Target)
  <2>1. IsFiniteSet(Children(Target)) /\ Children(Target) \subseteq Revisions
    BY ChildrenFinite
  <2> DEFINE C == Children(Target)
  <2>2. cs \in SetToSeqs(C) /\ IsFiniteSet(C) /\ C \subseteq Revisions
    BY <1>1, <2>1
  <2> HIDE DEF C
  <2>3. cs \in Seq(C) /\ Elems(cs) = C
    BY <2>2, SetOrders
  <2>4. cs \in Seq(Revisions)
    BY <2>2, <2>3
  <2> QED  BY <2>3, <2>4 DEF C
<1>6. Others \o cs \in Seq(Revisions) /\ Elems(Others \o cs) = Elems(Others) \cup Children(Target)
  BY <1>4, <1>5, ElemsConcat
<1>7. Traversing'
  <2>1. /\ \A n : Ancestors(n)' = Ancestors(n) /\ Children(n)' = Children(n)
    BY <1>2, SameGraph
  <2>2. /\ Elems(toTraverse)' = Elems(Others) \cup Children(Target)
        /\ Elems(toTraverse) = Elems(Others) \cup {Target}
    BY <1>1, <1>4, <1>6 DEF Elems
  <2>3. /\ \A n \in seen \cup Elems(toTraverse) : walk.base \in Ancestors(n)
        /\ \A n \in seen \cup {walk.base} : Children(n) \subseteq seen \cup Elems(toTraverse)
        /\ candidates = {n \in seen \cup {walk.base} : n \in walk.revs}
        /\ union = {} /\ union' = union
    BY <1>2 DEF WalkInv, Traversing, ancestorVars
  <2>4. \A n \in Children(Target) : walk.base \in Ancestors(n)
    <3> SUFFICES ASSUME NEW c \in Children(Target) PROVE walk.base \in Ancestors(c)
      OBVIOUS
    <3>1. c \in Revisions /\ Target \in parents[c]
      BY <1>4, NullAssumption DEF Children
    <3>2. Ancestors(Target) \subseteq Ancestors(c)
      BY <3>1, ParentAncestors
    <3> QED  BY <2>2, <2>3, <3>2
  <2>5. candidates' = {n \in seen \cup {Target, walk.base} : n \in walk.revs}
    BY <1>2, <2>3 DEF AcceptableDescendent
  <2> DEFINE T == Target
  <2>6. /\ seen' = seen \cup {T} /\ walk' = walk
        /\ Elems(toTraverse)' = Elems(Others) \cup Children(T)
        /\ Elems(toTraverse) = Elems(Others) \cup {T}
        /\ \A n \in Children(T) : walk.base \in Ancestors(n)
        /\ candidates' = {n \in seen \cup {T, walk.base} : n \in walk.revs}
    BY <1>2, <2>2, <2>4, <2>5
  <2> HIDE DEF T
  <2>7. \A n \in seen' \cup Elems(toTraverse)' : walk.base \in Ancestors(n)
    BY <2>3, <2>6
  <2>8. \A n \in seen' \cup {walk.base} : Children(n) \subseteq seen' \cup Elems(toTraverse)'
    BY <2>3, <2>6
  <2>9. candidates' = {n \in seen' \cup {walk.base} : n \in walk.revs}
    BY <2>6
  <2> QED  BY <2>1, <2>3, <2>6, <2>7, <2>8, <2>9 DEF Traversing
<1>8. /\ toTraverse' \in Seq(Revisions) /\ seen' \subseteq Revisions
      /\ candidates' \subseteq Revisions
  BY <1>1, <1>2, <1>3, <1>4, <1>6
<1> QED  BY <1>2, <1>7, <1>8, TraverseFrame

(* The revisions passed and the base are all that descends from it.        *)
LEMMA StartEraseStep == ASSUME WalkInv, StartErase PROVE WalkInv'
<1>1. /\ at = "traverse" /\ at' = "erase" /\ toTraverse = <<>> /\ todo' = candidates
      /\ UNCHANGED <<parents, walk, updateVars, stk, ancestors, union, baseUnion, topoVars, result>>
  BY DEF StartErase
<1>2. walk.op = "update" /\ walk.base \in Revisions /\ stk = <<>> /\ walk' = walk
  BY <1>1, AtTraverse
<1>3. /\ \A n \in seen : walk.base \in Ancestors(n)
      /\ \A n \in seen \cup {walk.base} : Children(n) \subseteq seen
      /\ candidates = {n \in seen \cup {walk.base} : n \in walk.revs}
      /\ union = {}
  <2>1. Elems(toTraverse) = {}
    BY <1>1, EmptySeq DEF Elems
  <2> QED  BY <1>1, <2>1 DEF WalkInv, Traversing
<1>4. candidates = Wanted
  <2>1. ASSUME NEW n \in Revisions, walk.base \in Ancestors(n) PROVE n \in seen \cup {walk.base}
    <3> SUFFICES ASSUME n \notin seen \cup {walk.base} PROVE FALSE
      OBVIOUS
    <3> DEFINE C == Revisions \ (seen \cup {walk.base})
    <3>1. UpClosed(C)
      <4> SUFFICES ASSUME NEW c \in C, NEW p \in parents[c] PROVE p \in C
        BY DEF UpClosed
      <4>1. p \in Revisions
        BY ParentsKnown DEF WalkInv, WalkTypes
      <4>2. c \in Children(p)
        BY <4>1, NullAssumption DEF Children
      <4> QED  BY <1>3, <4>1, <4>2
    <3>2. Ancestors(n) \subseteq C
      BY <2>1, <3>1, ClosedHolds
    <3> QED  BY <2>1, <3>2
  <2>2. walk.base \in Ancestors(walk.base)
    BY <1>2, SelfAncestor
  <2>3. walk.revs \subseteq Revisions
    BY DEF WalkInv, WalkTypes
  <2>4. Wanted = {n \in walk.revs : walk.base \in Ancestors(n)}
    BY <1>2 DEF Wanted
  <2> QED  BY <1>3, <2>1, <2>2, <2>3, <2>4
<1>5. WalkTypes'
  BY <1>1 DEF WalkInv, WalkTypes, updateVars
<1>6. Placed' /\ Traversing' /\ BaseRight' /\ Sorting'
  BY <1>1, <1>2 DEF Placed, Traversing, BaseRight, Sorting, Calculating
<1>7. Collected'
  <2>1. Wanted' = Wanted
    BY <1>1, SameGraph DEF Wanted
  <2> QED  BY <1>1, <1>4, <2>1 DEF Collected, updateVars
<1>8. MapRight'
  BY <1>1, SameGraph DEF WalkInv, MapRight
<1>9. UnionRight'
  <2>1. todo' = Given' /\ Begun' = {} /\ union' = {} /\ ~Calculating'
    BY <1>1, <1>2, <1>3 DEF Begun, Given, Calculating, updateVars
  <2> QED  BY <1>1, <1>2, <2>1 DEF UnionRight
<1>10. TargetsRight' /\ DifferenceRight'
  BY <1>1 DEF TargetsRight, DifferenceRight, Returned
<1> QED  BY <1>5, <1>6, <1>7, <1>8, <1>9, <1>10 DEF WalkInv

-----------------------------------------------------------------------------
(* calculate_ancestors_from_graph and its callers                          *)

(* What a step of the calculation has to show.                             *)
LEMMA AncestorsFrame ==
  ASSUME WalkInv, at \in {"erase", "difference", "base"},
         UNCHANGED <<parents, walk, updateVars, topoVars>>,
         at' \in {at, "done"} \/ (at = "difference" /\ at' = "base"),
         at' = "done" => stk' = <<>>,
         todo' \subseteq Revisions, stk' \in Seq(Ids),
         DOMAIN ancestors' \subseteq Ids /\ ancestors' \in [DOMAIN ancestors' -> SUBSET Ids],
         union' \subseteq Ids, baseUnion' \subseteq Ids, result' \subseteq Revisions,
         MapRight', UnionRight', BaseRight', TargetsRight', DifferenceRight'
  PROVE  WalkInv'
<1>1. walk.op \in {"update", "erase", "difference"} /\ walk' = walk
  BY DEF WalkInv, WalkTypes, Placed
<1>2. WalkTypes'
  BY DEF WalkInv, WalkTypes, updateVars
<1>3. Placed'
  BY <1>1 DEF WalkInv, Placed, Calculating
<1>4. Traversing'
  BY DEF Traversing
<1>5. Collected'
  <2>1. Wanted' = Wanted
    BY SameGraph DEF Wanted
  <2> QED  BY <2>1 DEF WalkInv, Collected, updateVars
<1>6. Sorting'
  BY <1>1 DEF Sorting
<1> QED  BY <1>2, <1>3, <1>4, <1>5, <1>6 DEF WalkInv

LEMMA SameGiven ==
  ASSUME UNCHANGED <<parents, walk, updateVars>>
  PROVE  Given' = Given /\ \A n : Gained(n)' = Gained(n)
<1>1. \A n : Before(n)' = Before(n)
  BY SameGraph
<1> QED  BY <1>1 DEF Given, Gained, updateVars

LEMMA AtWork ==
  ASSUME WalkInv
  PROVE  /\ parents \in Ancestries /\ walk.revs \subseteq Revisions
         /\ todo \subseteq Revisions /\ stk \in Seq(Ids)
         /\ union \subseteq Ids /\ baseUnion \subseteq Ids /\ result \subseteq Revisions
         /\ DOMAIN ancestors \subseteq Ids /\ ancestors \in [DOMAIN ancestors -> SUBSET Ids]
         /\ Calculating => at \in {"erase", "difference", "base"}
         /\ Given \subseteq Revisions
         /\ at = "erase" => walk.op \in {"update", "erase"}
         /\ at = "difference" => walk.op = "difference"
         /\ at = "base" => walk.op = "difference" /\ walk.base \in Revisions
<1>1. /\ parents \in Ancestries /\ walk.revs \subseteq Revisions
      /\ todo \subseteq Revisions /\ stk \in Seq(Ids) /\ candidates \subseteq Revisions
      /\ union \subseteq Ids /\ baseUnion \subseteq Ids /\ result \subseteq Revisions
      /\ DOMAIN ancestors \subseteq Ids /\ ancestors \in [DOMAIN ancestors -> SUBSET Ids]
      /\ walk.op \in {"none", "update", "erase", "difference", "sort"}
      /\ walk.op \in {"update", "difference"} => walk.base \in Revisions
  BY DEF WalkInv, WalkTypes
<1>2. /\ Calculating => at \in {"erase", "difference", "base"}
      /\ at = "erase" => walk.op \in {"update", "erase"}
      /\ at = "difference" => walk.op = "difference"
      /\ at = "base" => walk.op = "difference"
  BY <1>1 DEF WalkInv, Placed
<1> QED  BY <1>1, <1>2 DEF Given

(* The top of the stack is the revision asked for or older.                *)
LEMMA TopOfStack ==
  ASSUME WalkInv, Calculating
  PROVE  /\ Len(stk) \in Nat \ {0} /\ DOMAIN stk = 1..Len(stk) /\ stk[1] \in Ids /\ Us \in Ids
         /\ Us \in {stk[1]} \cup Before(stk[1])
         /\ Before(Us) \subseteq Before(stk[1])
<1>1. stk \in Seq(Ids) /\ stk # <<>> /\ parents \in Ancestries
  BY AtWork DEF Calculating
<1>2. Len(stk) \in Nat \ {0} /\ DOMAIN stk = 1..Len(stk)
  BY <1>1, EmptySeq, LenProperties
<1>3. Len(stk) \in DOMAIN stk /\ stk[1] \in Ids /\ Us \in Ids
  BY <1>1, <1>2, ElementOfSeq DEF Us
<1>4. Us \in {stk[1]} \cup Before(stk[1])
  BY <1>3 DEF WalkInv, MapRight, Us
<1>5. Before(Us) \subseteq Before(stk[1])
  BY <1>1, <1>3, <1>4, BeforeTransitive
<1> QED  BY <1>2, <1>3, <1>4, <1>5

LEMMA PushParentStep == ASSUME WalkInv, PushParent PROVE WalkInv'
<1>1. PICK p \in Undone(Us) : stk' = Append(stk, p)
  BY DEF PushParent
<1>2. /\ Calculating /\ at' = at /\ todo' = todo /\ ancestors' = ancestors /\ union' = union
      /\ baseUnion' = baseUnion /\ result' = result /\ walk' = walk
      /\ UNCHANGED <<parents, walk, updateVars, topoVars>>
  BY DEF PushParent
<1>3. /\ parents \in Ancestries /\ stk \in Seq(Ids) /\ at \in {"erase", "difference", "base"}
  BY <1>2, AtWork
<1>4. p \in Ids /\ p \in Before(stk[1])
  <2>1. Us \in Ids /\ p \in ParentIds(Us)
    BY <1>1, <1>2, TopOfStack DEF Undone
  <2>2. p \in Before(Us)
    BY <1>3, <2>1, ParentBefore
  <2>3. p \in Before(stk[1]) /\ stk[1] \in Ids
    BY <1>2, <2>2, TopOfStack
  <2> QED  BY <2>3, BeforeTyped
<1>5. /\ stk' \in Seq(Ids) /\ Len(stk') = Len(stk) + 1 /\ stk'[Len(stk) + 1] = p
      /\ \A i \in 1..Len(stk) : stk'[i] = stk[i]
      /\ DOMAIN stk' = 1..(Len(stk) + 1)
  BY <1>1, <1>3, <1>4, AppendProperties, LenProperties
<1>6. /\ Len(stk) \in Nat \ {0} /\ DOMAIN stk = 1..Len(stk)
      /\ stk'[1] = stk[1] /\ stk' # <<>> /\ Calculating'
  <2>1. Len(stk) \in Nat \ {0} /\ DOMAIN stk = 1..Len(stk)
    BY <1>2, TopOfStack
  <2>2. stk'[1] = stk[1] /\ stk' # <<>>
    BY <1>5, <2>1, EmptySeq
  <2> QED  BY <2>1, <2>2 DEF Calculating
<1>7. MapRight'
  <2>1. \A i \in DOMAIN stk' : stk'[i] \in {stk[1]} \cup Before(stk[1])
    <3> SUFFICES ASSUME NEW i \in 1..(Len(stk) + 1) PROVE stk'[i] \in {stk[1]} \cup Before(stk[1])
      BY <1>5
    <3>1. CASE i = Len(stk) + 1
      BY <1>4, <1>5, <3>1
    <3>2. CASE i # Len(stk) + 1
      <4>1. i \in DOMAIN stk
        BY <1>6, <3>2
      <4> QED  BY <1>5, <1>6, <4>1 DEF WalkInv, MapRight
    <3> QED  BY <3>1, <3>2
  <2>2. \A n : Before(n)' = Before(n)
    BY <1>2, SameGraph
  <2> QED  BY <1>2, <1>6, <2>1, <2>2 DEF WalkInv, MapRight
<1>8. UnionRight'
  <2>1. Given' = Given /\ \A n : Gained(n)' = Gained(n)
    BY <1>2, SameGiven
  <2>2. Begun' = Begun
    BY <1>2, <2>1 DEF Begun
  <2> QED  BY <1>2, <1>6, <2>1, <2>2 DEF WalkInv, UnionRight
<1>9. BaseRight'
  <2>1. \A n : Ancestors(n)' = Ancestors(n) /\ Before(n)' = Before(n)
    BY <1>2, SameGraph
  <2> QED  BY <1>2, <1>6, <2>1 DEF WalkInv, BaseRight
<1>10. TargetsRight' /\ DifferenceRight'
  BY <1>2, <1>3 DEF TargetsRight, DifferenceRight, Returned
<1>11. /\ todo' \subseteq Revisions
       /\ DOMAIN ancestors' \subseteq Ids /\ ancestors' \in [DOMAIN ancestors' -> SUBSET Ids]
       /\ union' \subseteq Ids /\ baseUnion' \subseteq Ids /\ result' \subseteq Revisions
  BY <1>2, AtWork
<1>12. at' # "done"
  BY <1>2, <1>3
<1> QED  BY <1>2, <1>3, <1>5, <1>7, <1>8, <1>9, <1>10, <1>11, <1>12, AncestorsFrame

LEMMA PopNodeStep == ASSUME WalkInv, PopNode PROVE WalkInv'
<1>1. /\ Calculating /\ Undone(Us) = {}
      /\ ancestors' = [n \in DOMAIN ancestors \cup {Us} |->
                         IF n \in DOMAIN ancestors THEN ancestors[n] ELSE Inherited(Us)]
      /\ IF at = "base" THEN baseUnion' = baseUnion \cup Inherited(Us) /\ union' = union
         ELSE union' = union \cup Inherited(Us) /\ baseUnion' = baseUnion
      /\ stk' = SubSeq(stk, 1, Len(stk) - 1)
      /\ at' = at /\ todo' = todo /\ result' = result /\ walk' = walk
      /\ UNCHANGED <<parents, walk, updateVars, topoVars>>
  BY DEF PopNode
<1>2. /\ parents \in Ancestries /\ stk \in Seq(Ids) /\ at \in {"erase", "difference", "base"}
      /\ union \subseteq Ids /\ baseUnion \subseteq Ids
      /\ DOMAIN ancestors \subseteq Ids /\ ancestors \in [DOMAIN ancestors -> SUBSET Ids]
      /\ at = "erase" => walk.op \in {"update", "erase"}
      /\ at = "difference" => walk.op = "difference"
  BY <1>1, AtWork
<1>3. /\ Len(stk) \in Nat \ {0} /\ DOMAIN stk = 1..Len(stk) /\ stk[1] \in Ids /\ Us \in Ids
      /\ Before(Us) \subseteq Before(stk[1])
  BY <1>1, TopOfStack
<1> DEFINE u == Us
<1>4. Inherited(u) = Before(u)
  <2>1. \A p \in ParentIds(u) : ancestors[p] = Before(p)
    BY <1>1 DEF Undone, WalkInv, MapRight
  <2>2. Before(u) = UNION {{p} \cup Before(p) : p \in ParentIds(u)}
    BY <1>2, <1>3, BeforeByParents
  <2> QED  BY <2>1, <2>2 DEF Inherited
<1>5. /\ u \in Ids /\ Before(u) \subseteq Before(stk[1]) /\ Before(u) \subseteq Ids
      /\ ancestors' = [n \in DOMAIN ancestors \cup {u} |->
                         IF n \in DOMAIN ancestors THEN ancestors[n] ELSE Before(u)]
      /\ at = "base" => baseUnion' = baseUnion \cup Before(u) /\ union' = union
      /\ at # "base" => union' = union \cup Before(u) /\ baseUnion' = baseUnion
      /\ Len(stk) = 1 => u = stk[1]
  BY <1>1, <1>3, <1>4, BeforeTyped DEF Us
<1> HIDE DEF u
<1>6. /\ DOMAIN ancestors' = DOMAIN ancestors \cup {u}
      /\ \A n \in DOMAIN ancestors' : ancestors'[n] = Before(n)
      /\ ancestors' \in [DOMAIN ancestors' -> SUBSET Ids]
  <2> DEFINE g == [n \in DOMAIN ancestors \cup {u} |-> Before(n)]
  <2>1. \A n \in DOMAIN ancestors : ancestors[n] = Before(n)
    BY DEF WalkInv, MapRight
  <2>4. ancestors' = g
    BY <1>5, <2>1
  <2>5. \A n \in DOMAIN ancestors \cup {u} : n \in Ids /\ Before(n) \subseteq Ids
    BY <1>2, <1>5, BeforeTyped
  <2>6. g \in [DOMAIN ancestors \cup {u} -> SUBSET Ids]
    BY <2>5
  <2> QED  BY <2>4, <2>6
<1>7. /\ stk' \in Seq(Ids) /\ DOMAIN stk' = 1..(Len(stk) - 1)
      /\ \A i \in 1..(Len(stk) - 1) : stk'[i] = stk[i]
  <2>1. stk # <<>>
    BY <1>1 DEF Calculating
  <2>2. /\ stk' \in Seq(Ids) /\ Len(stk') = Len(stk) - 1
        /\ \A i \in 1..(Len(stk) - 1) : stk'[i] = stk[i]
    BY <1>1, <1>2, <2>1, WithoutLast
  <2> QED  BY <2>2, LenProperties
<1>8. IF Len(stk) = 1 THEN ~Calculating' ELSE stk'[1] = stk[1]
  <2>1. CASE Len(stk) = 1
    <3>1. Len(stk') = 0
      BY <1>3, <1>7, <2>1, LenProperties
    <3>2. stk' = <<>>
      BY <1>7, <3>1, EmptySeq
    <3> QED  BY <2>1, <3>2 DEF Calculating
  <2>2. CASE Len(stk) # 1
    BY <1>3, <1>7, <2>2
  <2> QED  BY <2>1, <2>2
<1>9. MapRight'
  <2>1. \A n : Before(n)' = Before(n)
    BY <1>1, SameGraph
  <2>2. \A i \in DOMAIN stk' : stk'[i] \in {stk'[1]} \cup Before(stk'[1])
    <3> SUFFICES ASSUME NEW i \in DOMAIN stk' PROVE stk'[i] \in {stk'[1]} \cup Before(stk'[1])
      OBVIOUS
    <3>1. i \in DOMAIN stk /\ stk'[i] = stk[i] /\ 1 \in 1..(Len(stk) - 1)
      BY <1>3, <1>7
    <3>2. stk'[1] = stk[1]
      BY <1>7, <3>1
    <3> QED  BY <3>1, <3>2 DEF WalkInv, MapRight
  <2> QED  BY <1>6, <2>1, <2>2 DEF MapRight
<1>10. UnionRight'
  <2> SUFFICES ASSUME at \in {"erase", "difference"} PROVE UnionRight'
    BY <1>1, <1>2 DEF UnionRight
  <2>1. Given' = Given /\ Begun' = Begun /\ \A n : Gained(n)' = Gained(n)
    BY <1>1, SameGiven DEF Begun
  <2>2. /\ stk[1] \in Begun /\ todo \subseteq Given
        /\ \A n \in Begun : n # stk[1] => Gained(n) \subseteq union
        /\ walk.op = "difference" => Begun \subseteq union
        /\ \A x \in union : \E n \in Begun : x \in Gained(n)
    BY <1>1 DEF WalkInv, UnionRight
  <2>3. union' = union \cup Before(u)
    BY <1>5
  <2>4. Before(u) \subseteq Gained(stk[1])
    BY <1>5 DEF Gained
  <2>5. Len(stk) = 1 => Gained(stk[1]) \subseteq union'
    BY <1>5, <2>2, <2>3 DEF Gained
  <2>6. Calculating' => stk'[1] = stk[1]
    BY <1>8
  <2>7. ASSUME NEW n \in Begun, ~(Calculating' /\ n = stk'[1]) PROVE Gained(n) \subseteq union'
    <3>1. CASE n # stk[1]
      BY <2>2, <2>3, <3>1
    <3>2. CASE n = stk[1]
      <4>1. Len(stk) = 1
        <5>1. Len(stk) # 1 => stk'[1] = stk[1] /\ Calculating'
          <6> SUFFICES ASSUME Len(stk) # 1 PROVE stk'[1] = stk[1] /\ Calculating'
            OBVIOUS
          <6>1. 1 \in DOMAIN stk'
            BY <1>3, <1>7
          <6>2. stk' # <<>>
            BY <6>1
          <6> QED  BY <1>8, <6>2 DEF Calculating
        <5> QED  BY <2>7, <3>2, <5>1
      <4> QED  BY <2>5, <3>2, <4>1
    <3> QED  BY <3>1, <3>2
  <2>8. \A x \in union' : \E n \in Begun : x \in Gained(n)
    BY <2>2, <2>3, <2>4
  <2> QED  BY <1>1, <2>1, <2>2, <2>3, <2>6, <2>7, <2>8 DEF UnionRight
<1>11. BaseRight'
  <2> SUFFICES ASSUME at = "base" PROVE BaseRight'
    BY <1>1 DEF BaseRight
  <2>1. \A n : Ancestors(n)' = Ancestors(n) /\ Before(n)' = Before(n)
    BY <1>1, SameGraph
  <2>2. /\ union \ {NullRev} = UNION {Ancestors(b) : b \in walk.revs}
        /\ stk[1] = walk.base
        /\ baseUnion \subseteq Before(walk.base) \cup {walk.base}
        /\ walk.base \in baseUnion
    BY <1>1 DEF WalkInv, BaseRight
  <2>3. baseUnion' = baseUnion \cup Before(u) /\ union' = union
    BY <1>5
  <2>4. ~Calculating' => Len(stk) = 1
    <3> SUFFICES ASSUME Len(stk) # 1 PROVE Calculating'
      OBVIOUS
    <3>1. 1 \in DOMAIN stk'
      BY <1>3, <1>7
    <3>2. stk' # <<>>
      BY <3>1
    <3> QED  BY <3>2 DEF Calculating
  <2>5. ~Calculating' => Before(walk.base) \subseteq baseUnion'
    BY <1>5, <2>2, <2>3, <2>4
  <2>6. Calculating' => stk'[1] = walk.base
    BY <1>8, <2>2
  <2>7. baseUnion' \subseteq Before(walk.base) \cup {walk.base}
    BY <1>5, <2>2, <2>3
  <2> QED  BY <1>1, <2>1, <2>2, <2>3, <2>5, <2>6, <2>7 DEF BaseRight
<1>12. TargetsRight' /\ DifferenceRight'
  BY <1>1, <1>2 DEF TargetsRight, DifferenceRight, Returned
<1>13. todo' \subseteq Revisions /\ result' \subseteq Revisions
  BY <1>1, AtWork
<1>14. union' \subseteq Ids /\ baseUnion' \subseteq Ids /\ DOMAIN ancestors' \subseteq Ids
  BY <1>2, <1>5, <1>6
<1>15. at' = at /\ at' # "done"
  BY <1>1, <1>2
<1> QED  BY <1>1, <1>2, <1>6, <1>7, <1>9, <1>10, <1>11, <1>12, <1>13, <1>14, <1>15, AncestorsFrame

LEMMA StartNodeStep == ASSUME WalkInv, StartNode PROVE WalkInv'
<1>1. PICK n \in todo :
        /\ stk' = <<n>> /\ todo' = todo \ {n}
        /\ union' = IF at = "difference" THEN union \cup {n} ELSE union
  BY DEF StartNode
<1>2. /\ at \in {"erase", "difference"} /\ ~Calculating /\ at' = at /\ walk' = walk
      /\ ancestors' = ancestors /\ baseUnion' = baseUnion /\ result' = result
      /\ UNCHANGED <<parents, walk, updateVars, topoVars>>
  BY DEF StartNode
<1>3. /\ n \in Revisions /\ n \in Ids /\ union \subseteq Ids /\ todo \subseteq Revisions
      /\ at = "erase" => walk.op \in {"update", "erase"}
      /\ at = "difference" => walk.op = "difference"
  BY <1>1, AtWork DEF Ids
<1>4. stk' \in Seq(Ids) /\ DOMAIN stk' = 1..1 /\ stk'[1] = n /\ Calculating'
  <2>1. stk' \in Seq(Ids) /\ DOMAIN stk' = 1..1 /\ stk'[1] = n
    BY <1>1, <1>3
  <2>2. stk' # <<>>
    BY <1>1
  <2> QED  BY <2>1, <2>2 DEF Calculating
<1>5. MapRight'
  <2>1. \A m : Before(m)' = Before(m)
    BY <1>2, SameGraph
  <2>2. \A i \in DOMAIN stk' : stk'[i] \in {stk'[1]} \cup Before(stk'[1])
    BY <1>4
  <2> QED  BY <1>2, <2>1, <2>2 DEF WalkInv, MapRight
<1>6. UnionRight'
  <2>1. Given' = Given /\ \A m : Gained(m)' = Gained(m)
    BY <1>2, SameGiven
  <2>2. /\ todo \subseteq Given
        /\ \A m \in Begun : Gained(m) \subseteq union
        /\ walk.op = "difference" => Begun \subseteq union
        /\ \A x \in union : \E m \in Begun : x \in Gained(m)
    BY <1>2 DEF WalkInv, UnionRight
  <2>3. Begun' = Begun \cup {n}
    BY <1>1, <2>1, <2>2 DEF Begun
  <2>4. union \subseteq union' /\ (walk.op = "difference" => Begun' \subseteq union')
    BY <1>1, <1>2, <1>3, <2>2, <2>3
  <2>5. \A x \in union' : \E m \in Begun' : x \in Gained(m)
    <3> SUFFICES ASSUME NEW x \in union' PROVE \E m \in Begun' : x \in Gained(m)
      OBVIOUS
    <3>1. CASE x \in union
      BY <2>2, <2>3, <3>1
    <3>2. CASE x \notin union
      <4>1. x = n /\ walk.op = "difference"
        BY <1>1, <1>3, <3>2
      <4>2. x \in Gained(n)
        BY <4>1 DEF Gained
      <4> QED  BY <2>3, <4>2
    <3> QED  BY <3>1, <3>2
  <2>6. \A m \in Begun' : m # n => Gained(m) \subseteq union'
    BY <2>2, <2>3, <2>4
  <2>7. todo' \subseteq Given
    BY <1>1, <2>2
  <2> QED  BY <1>2, <1>4, <2>1, <2>3, <2>4, <2>5, <2>6, <2>7 DEF UnionRight
<1>7. BaseRight' /\ TargetsRight' /\ DifferenceRight'
  BY <1>2 DEF BaseRight, TargetsRight, DifferenceRight, Returned
<1>8. /\ todo' \subseteq Revisions /\ union' \subseteq Ids
  BY <1>1, <1>3
<1>9. /\ DOMAIN ancestors' \subseteq Ids /\ ancestors' \in [DOMAIN ancestors' -> SUBSET Ids]
      /\ baseUnion' \subseteq Ids /\ result' \subseteq Revisions
  BY <1>2, AtWork
<1>10. at' = at /\ at' # "done" /\ at \in {"erase", "difference", "base"}
  BY <1>2
<1> QED  BY <1>2, <1>4, <1>5, <1>6, <1>7, <1>8, <1>9, <1>10, AncestorsFrame

(* What no other member descends from is what is in no ancestry.           *)
LEMMA EraseAncestorsStep == ASSUME WalkInv, EraseAncestors PROVE WalkInv'
<1>1. /\ at = "erase" /\ ~Calculating /\ todo = {} /\ result' = candidates \ union /\ at' = "done"
      /\ walk' = walk
      /\ UNCHANGED <<parents, walk, updateVars, ancestorVars, topoVars>>
  BY DEF EraseAncestors
<1>2. /\ walk.op \in {"update", "erase"} /\ stk = <<>> /\ parents \in Ancestries
      /\ candidates = Wanted /\ candidates \subseteq Revisions
  BY <1>1, AtWork DEF WalkInv, WalkTypes, Collected, Calculating
<1>3. /\ todo' = todo /\ stk' = stk /\ ancestors' = ancestors /\ union' = union
      /\ baseUnion' = baseUnion /\ candidates' = candidates
  BY <1>1 DEF ancestorVars, updateVars
<1>4. /\ \A n \in candidates : Before(n) \subseteq union
      /\ \A x \in union : \E n \in candidates : x \in Before(n)
  <2>1. Begun = candidates /\ \A n : Gained(n) = Before(n)
    BY <1>1, <1>2 DEF Begun, Given, Gained
  <2> QED  BY <1>1, <2>1 DEF WalkInv, UnionRight
<1>5. result' = HeadsOf(Wanted)
  <2>1. ASSUME NEW h \in candidates
        PROVE  h \in union <=> \E s \in candidates \ {h} : h \in Ancestors(s)
    <3>0. h \in Revisions /\ h # NullRev
      BY <1>2, BeforeTyped
    <3>1. \A s \in candidates : h \in Before(s) <=> (h \in Ancestors(s) /\ h # s)
      BY <1>2, <3>0, BeforeTyped
    <3> QED  BY <1>4, <3>1
  <2> QED  BY <1>1, <1>2, <2>1 DEF HeadsOf
<1>6. TargetsRight' /\ DifferenceRight'
  <2>1. \A n : Ancestors(n)' = Ancestors(n)
    BY <1>1, SameGraph
  <2>2. walk.op = "update" =>
          result' = HeadsOf({n \in walk.revs : walk.base \in Ancestors(n)})
    BY <1>5 DEF Wanted
  <2>3. walk.op = "erase" => result' = HeadsOf(walk.revs)
    BY <1>5 DEF Wanted
  <2>4. \A S : HeadsOf(S)' = HeadsOf(S)
    BY <2>1 DEF HeadsOf
  <2>5. TargetsRight'
    BY <1>1, <2>1, <2>2, <2>3, <2>4 DEF TargetsRight, Returned, HeadsOf
  <2> QED  BY <1>1, <1>2, <2>5 DEF DifferenceRight, Returned
<1>7. MapRight'
  BY <1>1, <1>3, SameGraph DEF WalkInv, MapRight
<1>8. UnionRight' /\ BaseRight'
  BY <1>1 DEF UnionRight, BaseRight
<1>9. /\ todo' \subseteq Revisions /\ union' \subseteq Ids /\ baseUnion' \subseteq Ids
      /\ stk' \in Seq(Ids) /\ stk' = <<>>
      /\ DOMAIN ancestors' \subseteq Ids /\ ancestors' \in [DOMAIN ancestors' -> SUBSET Ids]
  BY <1>2, <1>3, AtWork
<1>10. result' \subseteq Revisions
  BY <1>1, <1>2
<1> QED  BY <1>1, <1>6, <1>7, <1>8, <1>9, <1>10, AncestorsFrame

LEMMA StartBaseStep == ASSUME WalkInv, StartBase PROVE WalkInv'
<1>1. /\ at = "difference" /\ ~Calculating /\ todo = {}
      /\ at' = "base" /\ stk' = <<walk.base>> /\ baseUnion' = {walk.base}
      /\ todo' = todo /\ ancestors' = ancestors /\ union' = union /\ result' = result
      /\ walk' = walk
      /\ UNCHANGED <<parents, walk, updateVars, topoVars>>
  BY DEF StartBase
<1>2. /\ walk.op = "difference" /\ walk.base \in Revisions /\ walk.base \in Ids
      /\ walk.revs \subseteq Revisions /\ union \subseteq Ids
  BY <1>1, AtWork DEF WalkInv, WalkTypes, Ids
<1>3. stk' \in Seq(Ids) /\ DOMAIN stk' = 1..1 /\ stk'[1] = walk.base /\ Calculating'
  <2>1. stk' \in Seq(Ids) /\ DOMAIN stk' = 1..1 /\ stk'[1] = walk.base
    BY <1>1, <1>2
  <2>2. stk' # <<>>
    BY <1>1
  <2> QED  BY <2>1, <2>2 DEF Calculating
<1>4. union \ {NullRev} = UNION {Ancestors(b) : b \in walk.revs}
  <2>1. Begun = walk.revs /\ \A n : Gained(n) = Before(n) \cup {n}
    BY <1>1, <1>2 DEF Begun, Given, Gained
  <2>2. /\ \A n \in walk.revs : Before(n) \cup {n} \subseteq union
        /\ \A x \in union : \E n \in walk.revs : x \in Before(n) \cup {n}
    BY <1>1, <2>1 DEF WalkInv, UnionRight
  <2>3. \A n \in walk.revs : /\ Before(n) \cup {n} = Ancestors(n) \cup {NullRev}
                             /\ NullRev \notin Ancestors(n)
    BY <1>2, BeforeTyped, SelfAncestor
  <2> QED  BY <2>2, <2>3
<1>5. BaseRight'
  <2>1. \A n : Ancestors(n)' = Ancestors(n) /\ Before(n)' = Before(n)
    BY <1>1, SameGraph
  <2> QED  BY <1>1, <1>3, <1>4, <2>1 DEF BaseRight
<1>6. MapRight'
  <2>1. \A m : Before(m)' = Before(m)
    BY <1>1, SameGraph
  <2>2. \A i \in DOMAIN stk' : stk'[i] \in {stk'[1]} \cup Before(stk'[1])
    BY <1>3
  <2> QED  BY <1>1, <2>1, <2>2 DEF WalkInv, MapRight
<1>7. UnionRight' /\ TargetsRight' /\ DifferenceRight'
  BY <1>1 DEF UnionRight, TargetsRight, DifferenceRight, Returned
<1>8. /\ todo' \subseteq Revisions /\ union' \subseteq Ids /\ baseUnion' \subseteq Ids
      /\ DOMAIN ancestors' \subseteq Ids /\ ancestors' \in [DOMAIN ancestors' -> SUBSET Ids]
      /\ result' \subseteq Revisions
  BY <1>1, <1>2, AtWork
<1> QED  BY <1>1, <1>3, <1>5, <1>6, <1>7, <1>8, AncestorsFrame

LEMMA TakeDifferenceStep == ASSUME WalkInv, TakeDifference PROVE WalkInv'
<1>1. /\ at = "base" /\ ~Calculating /\ result' = (baseUnion \ union) \ {NullRev}
      /\ at' = "done" /\ walk' = walk
      /\ UNCHANGED <<parents, walk, updateVars, ancestorVars, topoVars>>
  BY DEF TakeDifference
<1>2. /\ walk.op = "difference" /\ walk.base \in Revisions /\ stk = <<>>
      /\ baseUnion \subseteq Ids
  BY <1>1, AtWork DEF Calculating
<1>3. /\ todo' = todo /\ stk' = stk /\ ancestors' = ancestors /\ union' = union
      /\ baseUnion' = baseUnion
  BY <1>1 DEF ancestorVars
<1>4. result' = Ancestors(walk.base) \ UNION {Ancestors(b) : b \in walk.revs}
  <2>1. /\ union \ {NullRev} = UNION {Ancestors(b) : b \in walk.revs}
        /\ baseUnion = Before(walk.base) \cup {walk.base}
    BY <1>1 DEF WalkInv, BaseRight
  <2>2. baseUnion = Ancestors(walk.base) \cup {NullRev} /\ NullRev \notin Ancestors(walk.base)
    BY <1>2, <2>1, BeforeTyped, SelfAncestor
  <2> QED  BY <1>1, <2>1, <2>2
<1>5. DifferenceRight' /\ TargetsRight'
  <2>1. \A n : Ancestors(n)' = Ancestors(n)
    BY <1>1, SameGraph
  <2> QED  BY <1>1, <1>2, <1>4, <2>1 DEF DifferenceRight, TargetsRight, Returned
<1>6. MapRight'
  BY <1>1, <1>3, SameGraph DEF WalkInv, MapRight
<1>7. UnionRight' /\ BaseRight'
  BY <1>1 DEF UnionRight, BaseRight
<1>8. /\ todo' \subseteq Revisions /\ union' \subseteq Ids /\ baseUnion' \subseteq Ids
      /\ stk' \in Seq(Ids) /\ stk' = <<>>
      /\ DOMAIN ancestors' \subseteq Ids /\ ancestors' \in [DOMAIN ancestors' -> SUBSET Ids]
  BY <1>2, <1>3, AtWork
<1>9. result' \subseteq Revisions
  BY <1>4 DEF Ancestors
<1> QED  BY <1>1, <1>5, <1>6, <1>7, <1>8, <1>9, AncestorsFrame

-----------------------------------------------------------------------------
(* toposort                                                                *)

LEMMA InGraph ==
  ASSUME parents \in Ancestries, NEW p, NEW c
  PROVE  <<p, c>> \in Graph <=> c \in Revisions /\ p \in ParentIds(c)
<1> DEFINE e == <<p, c>>
<1>1. e[1] = p /\ e[2] = c
  OBVIOUS
<1>2. c \in Revisions => ParentIds(c) \subseteq Revisions \cup {NullRev}
  BY ParentsKnown DEF Ids
<1>3. p \in Revisions \cup {NullRev} /\ c \in Revisions <=>
        e \in (Revisions \cup {NullRev}) \X Revisions
  OBVIOUS
<1> HIDE DEF e
<1>4. e \in Graph <=> c \in Revisions /\ p \in ParentIds(c)
  BY <1>1, <1>2, <1>3 DEF Graph
<1> QED  BY <1>4 DEF e

(* What the sort knows of each revision's edges.                           *)
LEMMA SortFacts ==
  ASSUME WalkInv, walk.op = "sort"
  PROVE  /\ pcount \in [Ids -> Nat] /\ roots \in Seq(Ids) /\ sorted \in Seq(Revisions)
         /\ parents \in Ancestries /\ walk.revs \subseteq Revisions
         /\ \A p \in Ids, c \in Ids : <<p, c>> \in edges <=> p \in ParentIds(c) \ Taken
         /\ \A c \in Ids : pcount[c] = Cardinality(ParentIds(c) \ Taken)
         /\ \A c \in Ids : IsFiniteSet(ParentIds(c) \ Taken)
         /\ \A c \in Ids : pcount[c] = 0 <=> ParentIds(c) \subseteq Taken
<1>1. /\ pcount \in [Ids -> Nat] /\ roots \in Seq(Ids) /\ sorted \in Seq(Revisions)
      /\ edges = {e \in Graph : e[1] \notin Taken}
      /\ \A c \in Ids : pcount[c] = Cardinality(ParentIds(c) \ Taken)
  BY DEF WalkInv, Sorting
<1>2. parents \in Ancestries /\ walk.revs \subseteq Revisions
  BY DEF WalkInv, WalkTypes
<1>3. IsFiniteSet(Ids)
  BY RevisionsAssumption, FS_AddElement DEF Ids
<1>4. \A c \in Ids : IsFiniteSet(ParentIds(c) \ Taken)
  BY <1>2, <1>3, ParentsKnown, FS_Subset
<1>5. \A c \in Ids : pcount[c] = 0 <=> ParentIds(c) \subseteq Taken
  <2> SUFFICES ASSUME NEW c \in Ids PROVE pcount[c] = 0 <=> ParentIds(c) \subseteq Taken
    OBVIOUS
  <2> DEFINE R == ParentIds(c) \ Taken
  <2>1. IsFiniteSet(R) /\ pcount[c] = Cardinality(R)
    BY <1>1, <1>4
  <2>2. R = {} <=> ParentIds(c) \subseteq Taken
    OBVIOUS
  <2> HIDE DEF R
  <2>3. Cardinality(R) = 0 <=> R = {}
    BY <2>1, FS_EmptySet
  <2> QED  BY <2>1, <2>2, <2>3
<1>6. ASSUME NEW p \in Ids, NEW c \in Ids
      PROVE  <<p, c>> \in edges <=> p \in ParentIds(c) \ Taken
  <2> DEFINE e == <<p, c>>
  <2>1. e[1] = p /\ (e \in Graph <=> c \in Revisions /\ p \in ParentIds(c))
    BY <1>2, InGraph
  <2>2. p \in ParentIds(c) => c \in Revisions
    BY <1>2, ParentsKnown DEF Ids
  <2> HIDE DEF e
  <2>3. e \in edges <=> p \in ParentIds(c) \ Taken
    BY <1>1, <2>1, <2>2
  <2> QED  BY <2>3 DEF e
<1> QED  BY <1>1, <1>2, <1>4, <1>5, <1>6

(* What has been taken is closed: parents come before their children.      *)
LEMMA TakenClosed ==
  ASSUME WalkInv, walk.op = "sort", NEW n \in Revisions, n \in Taken
  PROVE  Ancestors(n) \subseteq Taken
<1> DEFINE C == Revisions \cap Taken
<1>1. UpClosed(C)
  <2> SUFFICES ASSUME NEW c \in C, NEW p \in parents[c] PROVE p \in C
    BY DEF UpClosed
  <2>1. c \in Ids /\ pcount[c] = 0 /\ parents \in Ancestries
    BY SortFacts DEF Taken
  <2>2. ParentIds(c) \subseteq Taken
    BY <2>1, SortFacts
  <2>3. p \in ParentIds(c) /\ p \in Revisions
    BY <2>1, ParentsKnown
  <2> QED  BY <2>2, <2>3
<1> QED  BY <1>1, ClosedHolds

(* When no root is left, everything has been taken.                        *)
LEMMA AllTaken ==
  ASSUME WalkInv, walk.op = "sort", roots = <<>>
  PROVE  Taken = Ids
<1>1. Elems(roots) = {}
  BY EmptySeq DEF Elems
<1>2. \A c \in Ids : ParentIds(c) \subseteq Taken => c \in Taken
  BY <1>1, SortFacts DEF Taken
<1>3. parents \in Ancestries /\ Taken \subseteq Ids
  BY SortFacts DEF Taken
<1>4. NullRev \in Taken
  BY <1>2, <1>3, ParentsKnown DEF Ids
<1>5. ASSUME Ids \ Taken # {} PROVE FALSE
  <2> DEFINE S == Ids \ Taken
  <2>1. S \in (SUBSET Revisions) \ {{}}
    BY <1>4, <1>5 DEF Ids
  <2>2. PICK m \in S : parents[m] \cap S = {}
    BY <1>3, <2>1, AcyclicAssumption, ZenonT(30)
  <2>3. m \in Revisions /\ m \in Ids
    BY <2>1, <2>2
  <2>4. ParentIds(m) \subseteq Ids /\ (ParentIds(m) = {NullRev} \/ ParentIds(m) = parents[m])
    BY <1>3, <2>3, ParentsKnown
  <2>5. ParentIds(m) \subseteq Taken
    BY <1>4, <2>2, <2>4
  <2> QED  BY <1>2, <2>2, <2>3, <2>5
<1> QED  BY <1>3, <1>5

(* The order is right at the end of the sort.                              *)
LEMMA SortedAtEnd == ASSUME WalkInv PROVE SortedRight
<1> SUFFICES ASSUME walk.op = "sort", roots = <<>>
             PROVE  /\ edges = {}
                    /\ Len(sorted) = Cardinality(walk.revs) /\ Range(sorted) = walk.revs
                    /\ \A i, j \in DOMAIN sorted : i < j => sorted[j] \notin Ancestors(sorted[i])
  <2>1. at = "sort" => walk.op = "sort"
    BY DEF WalkInv, WalkTypes, Placed
  <2>2. Returned("sort") => walk.op = "sort" /\ roots = <<>>
    BY DEF WalkInv, Sorting, Returned
  <2> QED  BY <2>1, <2>2 DEF SortedRight
<1>1. Taken = Ids
  BY AllTaken
<1>2. /\ edges = {e \in Graph : e[1] \notin Taken} /\ NoDuplicates(sorted)
      /\ Elems(sorted) = walk.revs \cap Taken /\ sorted \in Seq(Revisions)
      /\ \A i, j \in DOMAIN sorted : i < j => sorted[j] \notin Ancestors(sorted[i])
  BY DEF WalkInv, Sorting
<1>3. edges = {}
  BY <1>1, <1>2 DEF Graph, Ids
<1>4. Elems(sorted) = walk.revs
  BY <1>1, <1>2, SortFacts DEF Ids
<1>5. Len(sorted) = Cardinality(Elems(sorted)) /\ Range(sorted) = Elems(sorted)
  BY <1>2, LengthOf
<1> QED  BY <1>2, <1>3, <1>4, <1>5

(* What a step of the sort has to show.                                    *)
LEMMA SortFrame ==
  ASSUME WalkInv, at = "sort", at' \in {"sort", "done"},
         UNCHANGED <<parents, walk, updateVars, ancestorVars, result>>, Sorting'
  PROVE  WalkInv'
<1>1. walk.op = "sort" /\ stk = <<>> /\ walk' = walk
  BY DEF WalkInv, WalkTypes, Placed, Calculating
<1>2. WalkTypes'
  BY DEF WalkInv, WalkTypes, updateVars, ancestorVars
<1>3. Placed' /\ Traversing' /\ Collected' /\ UnionRight' /\ BaseRight'
  BY <1>1 DEF Placed, Traversing, Collected, UnionRight, BaseRight, Calculating, ancestorVars
<1>4. MapRight'
  BY SameGraph DEF WalkInv, MapRight, ancestorVars
<1>5. TargetsRight' /\ DifferenceRight'
  BY <1>1 DEF TargetsRight, DifferenceRight, Returned
<1> QED  BY <1>2, <1>3, <1>4, <1>5 DEF WalkInv

(* One root: its edges go, and the children of which it was the last       *)
(* parent become roots.                                                    *)
LEMMA SortRootStep == ASSUME WalkInv, SortRoot PROVE WalkInv'
<1> DEFINE n == Head(roots)
           F == Freed(n)
<1>1. /\ at = "sort" /\ roots # <<>> /\ at' = at /\ walk' = walk
      /\ UNCHANGED <<parents, walk, updateVars, ancestorVars, result>>
      /\ sorted' = IF n \in walk.revs THEN Append(sorted, n) ELSE sorted
      /\ pcount' = [c \in DOMAIN pcount |-> IF <<n, c>> \in edges THEN pcount[c] - 1 ELSE pcount[c]]
      /\ edges' = {e \in edges : e[1] # n}
  BY DEF SortRoot
<1>2. PICK cs \in SetToSeqs(F) : roots' = Tail(roots) \o cs
  BY DEF SortRoot
<1>3. walk.op = "sort"
  BY <1>1 DEF WalkInv, WalkTypes, Placed
<1>4. /\ pcount \in [Ids -> Nat] /\ roots \in Seq(Ids) /\ sorted \in Seq(Revisions)
      /\ parents \in Ancestries /\ walk.revs \subseteq Revisions
      /\ \A p \in Ids, c \in Ids : <<p, c>> \in edges <=> p \in ParentIds(c) \ Taken
      /\ \A c \in Ids : pcount[c] = Cardinality(ParentIds(c) \ Taken)
      /\ \A c \in Ids : IsFiniteSet(ParentIds(c) \ Taken)
      /\ \A c \in Ids : pcount[c] = 0 <=> ParentIds(c) \subseteq Taken
  BY <1>3, SortFacts
<1>5. /\ edges = {e \in Graph : e[1] \notin Taken}
      /\ \A m \in Elems(roots) : pcount[m] = 0
      /\ NoDuplicates(roots) /\ NoDuplicates(sorted)
      /\ Elems(sorted) = walk.revs \cap Taken
      /\ \A i, j \in DOMAIN sorted : i < j => sorted[j] \notin Ancestors(sorted[i])
  BY <1>3 DEF WalkInv, Sorting
<1> DEFINE rest == Tail(roots)
<1>6. /\ rest \in Seq(Ids) /\ n \in Ids /\ Elems(roots) = {n} \cup Elems(rest)
      /\ NoDuplicates(rest) /\ n \notin Elems(rest)
  <2>1. roots \in Seq(Ids) /\ roots # <<>> /\ NoDuplicates(roots)
    BY <1>1, <1>4, <1>5
  <2>2. /\ rest \in Seq(Ids) /\ n \in Ids /\ Elems(roots) \subseteq {n} \cup Elems(rest)
        /\ Elems(rest) \subseteq Elems(roots) /\ n \in Elems(roots)
    BY <2>1, ElemsTail
  <2>3. NoDuplicates(rest) /\ n \notin Elems(rest)
    BY <2>1, DistinctTail
  <2> QED  BY <2>2, <2>3
<1>7. /\ roots' = rest \o cs
      /\ F = {c \in Revisions : <<n, c>> \in edges /\ pcount[c] = 1}
  BY <1>2 DEF Freed
<1> HIDE DEF n, rest, F
<1>8. n \notin Taken /\ pcount[n] = 0
  BY <1>5, <1>6 DEF Taken
<1>9. F \subseteq Ids /\ cs \in Seq(Ids) /\ Elems(cs) = F /\ NoDuplicates(cs)
  <2>1. F \subseteq Revisions /\ F \subseteq Ids /\ IsFiniteSet(F)
    <3>1. F \subseteq Revisions
      BY <1>7
    <3> QED  BY <3>1, RevisionsAssumption, FS_Subset DEF Ids
  <2>2. cs \in Seq(F) /\ Elems(cs) = F /\ NoDuplicates(cs)
    BY <1>2, <2>1, SetOrders
  <2>3. cs \in Seq(Ids)
    BY <2>1, <2>2
  <2> QED  BY <2>1, <2>2, <2>3
<1>10. \A c \in Elems(roots) \cup Taken \cup {n} : c \in Ids /\ <<n, c>> \notin edges
  <2> SUFFICES ASSUME NEW c \in Elems(roots) \cup Taken \cup {n}
               PROVE  c \in Ids /\ <<n, c>> \notin edges
    OBVIOUS
  <2>1. c \in Ids
    <3>1. \A i \in DOMAIN roots : roots[i] \in Ids
      BY <1>4, LenProperties, ElementOfSeq
    <3> QED  BY <1>6, <3>1 DEF Taken, Elems
  <2>2. pcount[c] = 0
    BY <1>5, <1>8 DEF Taken
  <2>3. ParentIds(c) \subseteq Taken
    BY <1>4, <2>1, <2>2
  <2> QED  BY <1>4, <1>6, <1>8, <2>1, <2>3
<1>11. /\ roots' \in Seq(Ids) /\ Elems(roots') = Elems(rest) \cup F /\ NoDuplicates(roots')
  <2>1. Elems(rest) \cap Elems(cs) = {}
    BY <1>6, <1>7, <1>9, <1>10
  <2>2. roots' \in Seq(Ids) /\ Elems(roots') = Elems(rest) \cup Elems(cs)
    BY <1>6, <1>7, <1>9, ElemsConcat
  <2>3. NoDuplicates(roots')
    BY <1>6, <1>7, <1>9, <2>1, DistinctConcat
  <2> QED  BY <1>9, <2>2, <2>3
<1>12. /\ pcount' \in [Ids -> Nat]
       /\ \A c \in Ids : pcount'[c] = IF <<n, c>> \in edges THEN pcount[c] - 1 ELSE pcount[c]
       /\ \A c \in Ids : <<n, c>> \in edges => pcount[c] # 0
  <2>1. \A c \in Ids : <<n, c>> \in edges => pcount[c] # 0
    BY <1>4, <1>6
  <2>2. pcount' = [c \in Ids |-> IF <<n, c>> \in edges THEN pcount[c] - 1 ELSE pcount[c]]
    BY <1>1, <1>4 DEF n
  <2>3. \A c \in Ids : (IF <<n, c>> \in edges THEN pcount[c] - 1 ELSE pcount[c]) \in Nat
    <3> SUFFICES ASSUME NEW c \in Ids
                 PROVE  (IF <<n, c>> \in edges THEN pcount[c] - 1 ELSE pcount[c]) \in Nat
      OBVIOUS
    <3>1. pcount[c] \in Nat
      BY <1>4
    <3> QED  BY <2>1, <3>1
  <2> QED  BY <2>1, <2>2, <2>3
<1>13. Taken' = Taken \cup {n}
  <2>1. Taken' = {m \in Ids : pcount'[m] = 0 /\ m \notin Elems(roots')}
    BY DEF Taken, Elems
  <2>2. ASSUME NEW m \in Taken \cup {n} PROVE m \in Taken'
    <3>1. m \in Ids /\ <<n, m>> \notin edges /\ pcount[m] = 0
      BY <1>8, <1>10, <2>2 DEF Taken
    <3>2. pcount'[m] = 0
      BY <1>12, <3>1
    <3>3. m \notin Elems(rest)
      BY <1>6, <2>2 DEF Taken
    <3>4. m \notin F
      BY <1>7, <3>1
    <3> QED  BY <1>11, <2>1, <3>1, <3>2, <3>3, <3>4
  <2>3. ASSUME NEW m \in Taken', m \notin Taken, m # n PROVE FALSE
    <3>1. m \in Ids /\ pcount'[m] = 0 /\ m \notin Elems(rest) /\ m \notin F
      BY <1>11, <2>1, <2>3
    <3>2. pcount[m] # 0
      BY <1>6, <2>3, <3>1 DEF Taken
    <3>3. <<n, m>> \in edges /\ pcount[m] = 1
      <4>1. pcount[m] \in Nat
        BY <1>4, <3>1
      <4> QED  BY <1>12, <3>1, <3>2, <4>1
    <3>4. m \in Revisions
      <4>1. n \in ParentIds(m)
        BY <1>4, <1>6, <3>1, <3>3
      <4> QED  BY <1>4, <3>1, <4>1, ParentsKnown DEF Ids
    <3> QED  BY <1>7, <3>1, <3>3, <3>4
  <2> QED  BY <2>2, <2>3
<1>14. \A c \in Ids : pcount'[c] = Cardinality(ParentIds(c) \ Taken')
  <2> SUFFICES ASSUME NEW c \in Ids PROVE pcount'[c] = Cardinality(ParentIds(c) \ Taken')
    OBVIOUS
  <2> DEFINE R == ParentIds(c) \ Taken
  <2>1. IsFiniteSet(R) /\ pcount[c] = Cardinality(R) /\ ParentIds(c) \ Taken' = R \ {n}
    BY <1>4, <1>13
  <2>2. <<n, c>> \in edges <=> n \in R
    BY <1>6, <1>4
  <2>3. pcount'[c] = IF n \in R THEN Cardinality(R) - 1 ELSE Cardinality(R)
    BY <1>12, <2>1, <2>2
  <2> HIDE DEF R
  <2>4. Cardinality(R \ {n}) = IF n \in R THEN Cardinality(R) - 1 ELSE Cardinality(R)
    BY <2>1, FS_RemoveElement
  <2> QED  BY <2>1, <2>3, <2>4
<1>15. edges' = {e \in Graph : e[1] \notin Taken'}
  <2>1. edges' = {e \in edges : e[1] # n}
    BY <1>1 DEF n
  <2> QED  BY <1>5, <1>13, <2>1
<1>16. \A m \in Elems(roots') : pcount'[m] = 0
  <2>1. ASSUME NEW m \in Elems(rest) PROVE pcount'[m] = 0
    <3>1. m \in Ids /\ <<n, m>> \notin edges /\ pcount[m] = 0
      BY <1>5, <1>6, <1>10
    <3> QED  BY <1>12, <3>1
  <2>2. ASSUME NEW m \in F PROVE pcount'[m] = 0
    <3>1. m \in Ids /\ <<n, m>> \in edges /\ pcount[m] = 1
      BY <1>7, <1>9
    <3> QED  BY <1>12, <3>1
  <2> QED  BY <1>11, <2>1, <2>2
<1>17. /\ sorted' \in Seq(Revisions) /\ NoDuplicates(sorted')
       /\ Elems(sorted') = walk.revs \cap Taken'
       /\ \A i, j \in DOMAIN sorted' : i < j => sorted'[j] \notin Ancestors(sorted'[i])
  <2>1. CASE n \notin walk.revs
    <3>1. sorted' = sorted
      BY <1>1, <2>1 DEF n
    <3>2. walk.revs \cap Taken' = walk.revs \cap Taken
      BY <1>13, <2>1
    <3> QED  BY <1>4, <1>5, <3>1, <3>2
  <2>2. CASE n \in walk.revs
    <3> DEFINE s == sorted
               t == sorted'
               k == Len(sorted)
    <3>1. t = Append(s, n) /\ s \in Seq(Revisions) /\ n \in Revisions
      BY <1>1, <1>4, <2>2 DEF n
    <3>2. /\ t \in Seq(Revisions) /\ k \in Nat /\ DOMAIN s = 1..k /\ DOMAIN t = 1..(k + 1)
          /\ \A i \in 1..k : t[i] = s[i]
          /\ t[k + 1] = n
      BY <3>1, AppendProperties, LenProperties
    <3>3. \A i \in 1..k : s[i] \in Revisions /\ s[i] \in Taken /\ s[i] \in Elems(s)
      <4>1. \A i \in 1..k : s[i] \in Elems(s)
        BY <3>2 DEF Elems
      <4> QED  BY <1>4, <1>5, <4>1
    <3>4. \A i \in 1..k : Ancestors(s[i]) \subseteq Taken
      BY <1>3, <3>3, TakenClosed
    <3>5. NoDuplicates(s) /\ Elems(s) = walk.revs \cap Taken
          /\ \A i, j \in DOMAIN s : i < j => s[j] \notin Ancestors(s[i])
      BY <1>5
    <3> HIDE DEF s, t, k
    <3>6. \A i \in 1..(k + 1) : i \in 1..k \/ i = k + 1
      BY <3>2
    <3>7. NoDuplicates(t)
      <4> SUFFICES ASSUME NEW i \in 1..(k + 1), NEW j \in 1..(k + 1), i # j PROVE t[i] # t[j]
        BY <3>2 DEF NoDuplicates
      <4>1. CASE i \in 1..k /\ j \in 1..k
        BY <3>2, <3>5, <4>1 DEF NoDuplicates
      <4>2. CASE i \in 1..k /\ j = k + 1
        BY <1>8, <3>2, <3>3, <4>2
      <4>3. CASE i = k + 1 /\ j \in 1..k
        BY <1>8, <3>2, <3>3, <4>3
      <4> QED  BY <3>6, <4>1, <4>2, <4>3
    <3>8. Elems(t) = Elems(s) \cup {n}
      <4>1. ASSUME NEW i \in 1..(k + 1) PROVE t[i] \in Elems(s) \cup {n}
        BY <3>2, <3>3, <3>6
      <4>2. ASSUME NEW i \in 1..k PROVE s[i] \in Elems(t)
        <5>1. i \in DOMAIN t /\ t[i] = s[i]
          BY <3>2
        <5> QED  BY <5>1 DEF Elems
      <4>3. n \in Elems(t)
        <5>1. k + 1 \in DOMAIN t /\ t[k + 1] = n
          BY <3>2
        <5> QED  BY <5>1 DEF Elems
      <4>4. Elems(t) \subseteq Elems(s) \cup {n}
        BY <3>2, <4>1 DEF Elems
      <4>5. Elems(s) \subseteq Elems(t)
        BY <3>2, <4>2 DEF Elems
      <4> QED  BY <4>3, <4>4, <4>5
    <3>9. ASSUME NEW i \in 1..(k + 1), NEW j \in 1..(k + 1), i < j
          PROVE  t[j] \notin Ancestors(t[i])
      <4>1. i \in 1..k
        BY <3>2, <3>9
      <4>2. CASE j \in 1..k
        BY <3>2, <3>5, <3>9, <4>1, <4>2
      <4>3. CASE j = k + 1
        BY <1>8, <3>2, <3>4, <4>1, <4>3
      <4> QED  BY <3>6, <4>2, <4>3
    <3>10. Elems(t) = walk.revs \cap Taken'
      BY <1>13, <2>2, <3>5, <3>8
    <3>11. \A i, j \in DOMAIN t : i < j => t[j] \notin Ancestors(t[i])
      BY <3>2, <3>9
    <3> QED  BY <3>2, <3>7, <3>10, <3>11 DEF t
  <2> QED  BY <2>1, <2>2
<1>18. Sorting'
  <2>1. /\ Graph' = Graph /\ \A c : ParentIds(c)' = ParentIds(c) /\ Ancestors(c)' = Ancestors(c)
    BY <1>1, SameGraph
  <2>2. at' # "done"
    BY <1>1
  <2>3. Elems(roots)' = Elems(roots') /\ Elems(sorted)' = Elems(sorted')
    BY DEF Elems
  <2> QED  BY <1>1, <1>11, <1>12, <1>14, <1>15, <1>16, <1>17, <2>1, <2>2, <2>3 DEF Sorting
<1>19. at' \in {"sort", "done"}
  BY <1>1
<1> QED  BY <1>1, <1>18, <1>19, SortFrame

LEMMA SortDoneStep == ASSUME WalkInv, SortDone PROVE WalkInv'
<1>1. /\ at = "sort" /\ roots = <<>> /\ at' \in {"sort", "done"} /\ walk' = walk
      /\ UNCHANGED <<parents, walk, updateVars, ancestorVars, result>>
      /\ UNCHANGED <<edges, pcount, roots, sorted>>
  BY DEF SortDone, topoVars
<1>2. Sorting'
  <2>1. /\ Graph' = Graph /\ \A c : ParentIds(c)' = ParentIds(c) /\ Ancestors(c)' = Ancestors(c)
    BY <1>1, SameGraph
  <2>2. Taken' = Taken
    BY <1>1 DEF Taken, Elems
  <2> QED  BY <1>1, <2>1, <2>2 DEF WalkInv, Sorting, Elems, NoDuplicates
<1> QED  BY <1>1, <1>2, SortFrame

-----------------------------------------------------------------------------
(* The commands: how a walk begins, and what it leaves behind.             *)

(* toposort begins at the null revision, the only one without parents.     *)
LEMMA InitSorting ==
  ASSUME parents \in Ancestries, edges = Graph, sorted = <<>>, roots = <<NullRev>>,
         pcount = [n \in Revisions \cup {NullRev} |-> Cardinality(ParentIds(n))],
         at # "done", walk.revs \subseteq Revisions
  PROVE  Sorting
<1>1. \A c \in Ids : IsFiniteSet(ParentIds(c)) /\ Cardinality(ParentIds(c)) \in Nat
                     /\ (Cardinality(ParentIds(c)) = 0 <=> ParentIds(c) = {})
  <2> SUFFICES ASSUME NEW c \in Ids
               PROVE  IsFiniteSet(ParentIds(c)) /\ Cardinality(ParentIds(c)) \in Nat
                      /\ (Cardinality(ParentIds(c)) = 0 <=> ParentIds(c) = {})
    OBVIOUS
  <2>1. IsFiniteSet(Ids)
    BY RevisionsAssumption, FS_AddElement DEF Ids
  <2>2. ParentIds(c) \subseteq Ids
    BY ParentsKnown
  <2>3. IsFiniteSet(ParentIds(c))
    BY <2>1, <2>2, FS_Subset
  <2> DEFINE P == ParentIds(c)
  <2>4. IsFiniteSet(P)
    BY <2>3
  <2> HIDE DEF P
  <2>5. Cardinality(P) \in Nat /\ (Cardinality(P) = 0 <=> P = {})
    BY <2>4, FS_CardinalityType, FS_EmptySet
  <2> QED  BY <2>3, <2>5 DEF P
<1>2. /\ pcount \in [Ids -> Nat]
      /\ \A c \in Ids : pcount[c] = Cardinality(ParentIds(c))
  BY <1>1 DEF Ids
<1>3. /\ roots \in Seq(Ids) /\ DOMAIN roots = {1} /\ roots[1] = NullRev /\ Elems(roots) = {NullRev}
  BY DEF Ids, Elems
<1>4. \A c \in Ids : pcount[c] = 0 => c = NullRev
  <2>1. \A c \in Revisions : ParentIds(c) # {}
    BY ParentsKnown
  <2> QED  BY <1>1, <1>2, <2>1 DEF Ids
<1>5. Taken = {}
  BY <1>3, <1>4 DEF Taken
<1>6. pcount[NullRev] = 0
  <2>1. NullRev \in Ids /\ ParentIds(NullRev) = {}
    BY ParentsKnown DEF Ids
  <2> QED  BY <1>1, <1>2, <2>1
<1>7. NoDuplicates(roots)
  BY <1>3 DEF NoDuplicates
<1>8. /\ sorted \in Seq(Revisions) /\ DOMAIN sorted = {} /\ Elems(sorted) = {} /\ NoDuplicates(sorted)
  BY EmptySeq, EmptyMap
<1>9. /\ edges = {e \in Graph : e[1] \notin Taken} /\ Elems(sorted) = walk.revs \cap Taken
      /\ \A c \in Ids : pcount[c] = Cardinality(ParentIds(c) \ Taken)
  BY <1>2, <1>5, <1>8
<1> QED  BY <1>2, <1>3, <1>6, <1>7, <1>8, <1>9 DEF Sorting

LEMMA InitStep == ASSUME WalkInit PROVE WalkInv
<1>1. /\ parents \in Ancestries /\ walk \in Walks /\ seen = {} /\ stk = <<>>
      /\ ancestors = <<>> /\ union = {} /\ baseUnion = {}
      /\ edges = Graph /\ roots = <<NullRev>> /\ sorted = <<>>
      /\ pcount = [n \in Revisions \cup {NullRev} |-> Cardinality(ParentIds(n))]
      /\ todo = IF walk.op \in {"erase", "difference"} THEN walk.revs ELSE {}
      /\ result = IF walk.op = "none" THEN walk.revs ELSE {}
  BY DEF WalkInit
<1>2. /\ walk.op \in {"none", "update", "erase", "difference", "sort"}
      /\ walk.revs \subseteq Revisions
      /\ walk.op \in {"update", "difference"} => walk.base \in Revisions
  BY <1>1, WalksTyped
<1>3. /\ walk.op = "update" => at = "traverse"
      /\ walk.op = "erase" => at = "erase"
      /\ walk.op = "difference" => at = "difference"
      /\ walk.op = "sort" => at = "sort"
      /\ walk.op = "none" => at = "done"
  BY DEF WalkInit
<1>4. candidates = IF walk.op = "erase" THEN walk.revs
                   ELSE IF walk.op = "update" /\ walk.base \in walk.revs THEN {walk.base} ELSE {}
  BY DEF WalkInit, AcceptableDescendent
<1>5. /\ toTraverse \in Seq(Revisions)
      /\ walk.op = "update" => Elems(toTraverse) = Children(walk.base)
  <2>1. CASE walk.op = "update"
    <3> DEFINE C == Children(walk.base)
    <3>1. toTraverse \in SetToSeqs(C) /\ C \subseteq Revisions /\ IsFiniteSet(C)
      BY <2>1, ChildrenFinite DEF WalkInit
    <3> HIDE DEF C
    <3>2. toTraverse \in Seq(C) /\ Elems(toTraverse) = C
      BY <3>1, SetOrders
    <3>3. toTraverse \in Seq(Revisions)
      BY <3>1, <3>2
    <3> QED  BY <3>2, <3>3 DEF C
  <2>2. CASE walk.op # "update"
    <3>1. toTraverse = <<>>
      BY <2>2 DEF WalkInit
    <3> QED  BY <2>2, <3>1, EmptySeq
  <2> QED  BY <2>1, <2>2
<1>6. ~Calculating
  BY <1>1 DEF Calculating
<1>7. WalkTypes
  <2>1. stk \in Seq(Ids)
    BY <1>1, EmptySeq
  <2>2. DOMAIN ancestors \subseteq Ids /\ ancestors \in [DOMAIN ancestors -> SUBSET Ids]
    BY <1>1, EmptyMap
  <2> QED  BY <1>1, <1>2, <1>4, <1>5, <2>1, <2>2 DEF WalkTypes
<1>8. Placed
  BY <1>2, <1>3, <1>6 DEF Placed
<1>9. Traversing
  <2> SUFFICES ASSUME at = "traverse" PROVE Traversing
    BY DEF Traversing
  <2>1. walk.op = "update"
    BY <1>2, <1>3
  <2>2. /\ walk.base \in Revisions /\ seen = {} /\ union = {}
        /\ Elems(toTraverse) = Children(walk.base)
        /\ candidates = IF walk.base \in walk.revs THEN {walk.base} ELSE {}
    BY <1>1, <1>2, <1>4, <1>5, <2>1
  <2>3. ASSUME NEW n \in Children(walk.base) PROVE walk.base \in Ancestors(n)
    <3>1. n \in Revisions /\ walk.base \in parents[n]
      BY <2>2, NullAssumption DEF Children
    <3> QED  BY <2>2, <3>1, SelfAncestor, ParentAncestors
  <2>4. candidates = {n \in seen \cup {walk.base} : n \in walk.revs}
    BY <2>2
  <2> QED  BY <2>2, <2>3, <2>4 DEF Traversing
<1>10. Collected
  BY <1>2, <1>3, <1>4 DEF Collected, Wanted
<1>11. MapRight
  BY <1>1, EmptyMap DEF MapRight
<1>12. UnionRight
  <2>1. ASSUME at \in {"erase", "difference"} PROVE Given = todo /\ Begun = {}
    <3>1. walk.op \in {"erase", "difference"}
      BY <1>2, <1>3, <2>1
    <3> QED  BY <1>1, <1>4, <3>1 DEF Given, Begun
  <2> QED  BY <1>1, <1>6, <2>1 DEF UnionRight
<1>13. BaseRight
  BY <1>2, <1>3 DEF BaseRight
<1>14. Sorting
  <2>1. CASE walk.op = "sort"
    <3>1. at # "done"
      BY <1>3, <2>1
    <3> QED  BY <1>1, <1>2, <3>1, InitSorting
  <2>2. CASE walk.op # "sort"
    BY <2>2 DEF Sorting
  <2> QED  BY <2>1, <2>2
<1>15. TargetsRight /\ DifferenceRight
  BY <1>3 DEF TargetsRight, DifferenceRight, Returned
<1> QED  BY <1>7, <1>8, <1>9, <1>10, <1>11, <1>12, <1>13, <1>14, <1>15 DEF WalkInv

LEMMA WalkGoneStep == ASSUME WalkInv, parents' = parents, WalkGone PROVE WalkInv'
<1>1. /\ walk' = NoWalk /\ at' = "done" /\ result' = {}
      /\ toTraverse' = <<>> /\ seen' = {} /\ candidates' = {}
      /\ todo' = {} /\ stk' = <<>> /\ ancestors' = <<>> /\ union' = {} /\ baseUnion' = {}
  BY DEF WalkGone
<1>2. walk'.op = "none" /\ walk'.revs = {}
  BY <1>1 DEF NoWalk
<1>3. WalkTypes'
  <2>1. toTraverse' \in Seq(Revisions) /\ stk' \in Seq(Ids)
    BY <1>1, EmptySeq
  <2>2. DOMAIN ancestors' \subseteq Ids /\ ancestors' \in [DOMAIN ancestors' -> SUBSET Ids]
    BY <1>1, EmptyMap
  <2>3. parents' \in Ancestries
    BY DEF WalkInv, WalkTypes
  <2> QED  BY <1>1, <1>2, <2>1, <2>2, <2>3 DEF WalkTypes, Ids
<1>4. Placed' /\ Traversing' /\ Collected' /\ UnionRight' /\ BaseRight' /\ Sorting'
  BY <1>1, <1>2 DEF Placed, Traversing, Collected, UnionRight, BaseRight, Sorting, Calculating
<1>5. MapRight'
  BY <1>1, EmptyMap DEF MapRight
<1>6. TargetsRight' /\ DifferenceRight'
  BY <1>2 DEF TargetsRight, DifferenceRight, Returned
<1> QED  BY <1>3, <1>4, <1>5, <1>6 DEF WalkInv

(* A search leaves the walks alone.                                        *)
LEMMA WalkKept == ASSUME WalkInv, parents' = parents, UNCHANGED walkVars PROVE WalkInv'
<1>1. /\ UNCHANGED <<parents, walk, at, toTraverse, seen, candidates, todo, stk>>
      /\ UNCHANGED <<ancestors, union, baseUnion, edges, pcount, roots, sorted, result>>
  BY DEF walkVars, updateVars, ancestorVars, topoVars
<1>2. /\ \A n : Ancestors(n)' = Ancestors(n)
      /\ \A n : Before(n)' = Before(n)
      /\ \A n : ParentIds(n)' = ParentIds(n)
      /\ \A n : Children(n)' = Children(n)
      /\ Graph' = Graph
  BY SameGraph
<1>3. WalkTypes'
  BY <1>1 DEF WalkInv, WalkTypes
<1>4. Placed' /\ Traversing'
  <2>1. Calculating' = Calculating /\ Elems(toTraverse)' = Elems(toTraverse)
    BY <1>1 DEF Calculating, Elems
  <2>2. Placed'
    BY <1>1, <2>1 DEF WalkInv, Placed
  <2>3. Traversing'
    BY <1>1, <1>2, <2>1 DEF WalkInv, Traversing
  <2> QED  BY <2>2, <2>3
<1>5. Wanted' = Wanted
  BY <1>1, <1>2 DEF Wanted
<1>6. Collected'
  BY <1>1, <1>5 DEF WalkInv, Collected
<1>7. MapRight'
  BY <1>1, <1>2 DEF WalkInv, MapRight
<1>8. UnionRight'
  <2>1. Given' = Given /\ \A n : Gained(n)' = Gained(n)
    BY <1>1, <1>2 DEF Given, Gained
  <2>2. Begun' = Begun /\ Calculating' = Calculating
    BY <1>1, <2>1 DEF Begun, Calculating
  <2> QED  BY <1>1, <2>1, <2>2 DEF WalkInv, UnionRight
<1>9. BaseRight'
  BY <1>1, <1>2 DEF WalkInv, BaseRight, Calculating
<1>10. Sorting'
  <2>1. Taken' = Taken
    BY <1>1 DEF Taken, Elems
  <2> QED  BY <1>1, <1>2, <2>1 DEF WalkInv, Sorting, Elems, NoDuplicates
<1>11. TargetsRight' /\ DifferenceRight'
  BY <1>1, <1>2 DEF WalkInv, TargetsRight, DifferenceRight, Returned, HeadsOf
<1> QED  BY <1>3, <1>4, <1>6, <1>7, <1>8, <1>9, <1>10, <1>11 DEF WalkInv

(* What is known of two revisions that a search is begun for.              *)
LEMMA AskedRevisions ==
  ASSUME WalkInv, IInv, Update \/ Merge \/ Named
  PROVE  parents' = parents /\ IInv' /\ WalkInv'
<1>1. PICK l \in Revisions, r \in Revisions, useLca \in BOOLEAN : Ask(l, r, useLca)
  <2>1. result \subseteq Revisions /\ (walk.op = "update" => walk.base \in Revisions)
    BY DEF WalkInv, WalkTypes
  <2>2. CASE Update
    BY <2>1, <2>2 DEF Update, Returned
  <2>3. CASE Merge
    BY <2>1, <2>3 DEF Merge
  <2>4. CASE Named
    BY <2>1, <2>4 DEF Named
  <2> QED  BY <2>2, <2>3, <2>4
<1>2. parents' = parents
  BY <1>1 DEF Ask
<1>3. IInv'
  BY <1>1, AskStep
<1>4. WalkGone
  BY DEF Update, Merge, Named
<1> QED  BY <1>2, <1>3, <1>4, WalkGoneStep

LEMMA SearchKeepsParents == ASSUME SearchStep PROVE parents' = parents
<1>1. SearchStep => UNCHANGED args
  BY DEF SearchStep, VisitAncestors, VisitDominators, NextPass, NextRound, Found, NotFound,
         SameRevision, ExpandFrontier, RelevantParent, SkipParent, ExploreParent, Exhausted,
         searchVars, args
<1> QED  BY <1>1 DEF args

LEMMA WalkStep == ASSUME WalkInv, WalkNext PROVE WalkInv'
  BY SkipTraversedStep, TraverseStep, StartEraseStep, PushParentStep, PopNodeStep, StartNodeStep,
     EraseAncestorsStep, StartBaseStep, TakeDifferenceStep, SortRootStep, SortDoneStep
  DEF WalkNext

LEMMA StepKeeps == ASSUME WalkInv, IInv, [Next]_vars PROVE (WalkInv /\ IInv)'
<1>1. CASE Update \/ Merge \/ Named
  BY <1>1, AskedRevisions
<1>2. CASE SearchStep /\ UNCHANGED walkVars
  <2>1. IInv'
    BY <1>2, SearchStepKeeps DEF SearchNext
  <2>2. WalkInv'
    BY <1>2, SearchKeepsParents, WalkKept
  <2> QED  BY <2>1, <2>2
<1>3. CASE WalkNext /\ UNCHANGED mbVars
  <2>1. IInv'
    BY <1>3, StutterKeeps
  <2> QED  BY <1>3, <2>1, WalkStep
<1>4. CASE UNCHANGED vars
  <2>1. UNCHANGED mbVars /\ UNCHANGED walkVars
    BY <1>4 DEF vars
  <2>2. parents' = parents
    BY <2>1 DEF mbVars, searchVars, args
  <2> QED  BY <2>1, <2>2, StutterKeeps, WalkKept
<1> QED  BY <1>1, <1>2, <1>3, <1>4 DEF Next

-----------------------------------------------------------------------------
(* WalkInv and IInv: the walks and the search, on their own and where a    *)
(* command takes what one returns to the other, keep all that the proofs   *)
(* know of them.                                                           *)
THEOREM WalksInvariant == Spec => [](WalkInv /\ IInv)
<1>1. Init => WalkInv /\ IInv
  BY InitStep, InitRight DEF Init
<1>2. WalkInv /\ IInv /\ [Next]_vars => (WalkInv /\ IInv)'
  BY StepKeeps
<1> QED  BY <1>1, <1>2, PTL DEF Spec

(* TargetsRight: an update is offered exactly the newest acceptable        *)
(* descendents of its base, a merge exactly the heads, whatever the order  *)
(* of children, rows and hashes (calculate_update_set, erase_ancestors).   *)
THEOREM TargetsAreRight == Spec => []TargetsRight
<1>1. WalkInv => TargetsRight
  BY DEF WalkInv
<1> QED  BY <1>1, WalksInvariant, PTL

(* DifferenceRight: what is new in a revision is its ancestry without that *)
(* of the others, although the calls for all of them share one map of the  *)
(* ancestors calculated before (ancestry_difference).                      *)
THEOREM DifferenceIsRight == Spec => []DifferenceRight
<1>1. WalkInv => DifferenceRight
  BY DEF WalkInv
<1> QED  BY <1>1, WalksInvariant, PTL

(* SortedRight: a sort gives every revision asked for once, parents first, *)
(* and leaves no edge behind: its closing assertion holds (toposort).      *)
THEOREM OrderIsRight == Spec => []SortedRight
<1>1. WalkInv => SortedRight
  BY SortedAtEnd
<1> QED  BY <1>1, WalksInvariant, PTL

(* AnswerSound and AnswerComplete: the ancestor that a command works with  *)
(* is right for the revisions that its walk has returned, two heads of a   *)
(* branch, a base and a target or any two that were named; without one     *)
(* there is none, unless lcad was given one revision twice.                *)
THEOREM CommandsAncestorRight == Spec => []AnswerSound /\ []AnswerComplete
<1>1. IInv => AnswerSound /\ AnswerComplete
  BY DEF IInv
<1> QED  BY <1>1, WalksInvariant, PTL

-----------------------------------------------------------------------------
(* The inductive invariant of the composition of change sets.              *)

(* All of S is found from c by way of parents without leaving S.           *)
Linked(S, c) ==
  \A X \in SUBSET S : c \in X /\ (\A n \in X : parents[n] \cap S \subseteq X) => S \subseteq X

(* A scan that has not begun, and one under way: it has not met the        *)
(* ancestor, and what it has left behind has all its parents in the        *)
(* subgraph.                                                               *)
ScanBegins(c) == subgraph = {c} /\ frontier = {c} /\ nextFrontier = {}

Scanning(c) ==
  /\ c \in subgraph /\ subgraph \subseteq Revisions
  /\ frontier # {} /\ frontier \cup nextFrontier \subseteq subgraph
  /\ answer # c => answer \notin subgraph
  /\ \A n \in subgraph \ (frontier \cup nextFrontier) : parents[n] \subseteq subgraph
  /\ Linked(subgraph, c)

(* What the recursion has left without a path.                             *)
StackRevs == {stack[i].rev : i \in DOMAIN stack}
Dead == visited \ (StackRevs \cup DOMAIN partial)

(* An edge that an activation has passed over leads to nothing.            *)
PassedOver(f) ==
  /\ Elems(f.edges) \subseteq parents[f.rev]
  /\ \A p \in parents[f.rev] \ Elems(f.edges) : p # answer /\ (p \in subgraph => p \in Dead)

AllPassed == \A i \in DOMAIN stack : PassedOver(stack[i])

(* Each activation was called for a parent of the one before.              *)
Descending ==
  \A i, j \in DOMAIN stack : i <= j => stack[j].rev \in Ancestors(stack[i].rev)

Frames == [rev : Revisions, edges : Seq(Revisions)]

Recursing(c) ==
  /\ answer # c /\ answer \in subgraph /\ subgraph \subseteq Revisions /\ Linked(subgraph, c)
  /\ stack \in Seq(Frames) /\ stack # <<>> /\ stack[1].rev = c
  /\ visited \subseteq subgraph /\ answer \notin visited /\ StackRevs \subseteq visited
  /\ AllPassed /\ Descending
  /\ DOMAIN partial \subseteq visited /\ partial \in [DOMAIN partial -> Seq(Revisions)]
  /\ \A n \in DOMAIN partial : IsPathTo(partial[n], n)
  /\ \A n \in Dead : answer \notin parents[n] /\ parents[n] \cap subgraph \subseteq Dead

NoActivation == stack = <<>> /\ visited = {} /\ partial = <<>>

(* The change sets composed so far, and the children to come.              *)
NoneComposed == toCompose = <<left, right>> /\ composed = <<>>
OneComposed == toCompose = <<right>> /\ Len(composed) = 1 /\ IsPathTo(composed[1], left)
AllComposed == /\ toCompose = <<>> /\ Len(composed) = 2
               /\ IsPathTo(composed[1], left) /\ IsPathTo(composed[2], right)

PathsInv ==
  /\ composed \in Seq(Seq(Revisions))
  /\ stage # "idle" => left \in Revisions /\ right \in Revisions
  /\ stage = "idle" => composed = <<>> /\ nextFrontier = {} /\ NoActivation
  /\ stage = "search" => NoneComposed /\ ScanBegins(left) /\ NoActivation
  /\ stage = "subgraph" => (NoneComposed \/ OneComposed) /\ Scanning(Child) /\ NoActivation
  /\ stage = "compose" => (NoneComposed \/ OneComposed) /\ Recursing(Child)
  /\ stage = "done" /\ answer # NullRev => AllComposed

(* The order in which the edges of a revision are met.                     *)
LEMMA EdgeOrders ==
  ASSUME parents \in Ancestries, NEW n \in Revisions, NEW ps \in SetToSeqs(parents[n])
  PROVE  ps \in Seq(Revisions) /\ ps \in Seq(parents[n]) /\ Elems(ps) = parents[n]
<1>1. parents[n] \in SUBSET Revisions
  BY ParentsKnown
<1>2. IsFiniteSet(parents[n])
  BY <1>1, RevisionsAssumption, FS_Subset
<1>3. ps \in Seq(parents[n]) /\ Elems(ps) = parents[n]
  BY <1>2, SetOrders
<1> QED  BY <1>1, <1>3

(* What dominates a revision is one of its ancestors: otherwise what it    *)
(* descends from would be reached without it.                              *)
LEMMA DominatorIsAncestor ==
  ASSUME parents \in Ancestries, NEW n \in Revisions
  PROVE  Dominators(n) \subseteq Ancestors(n)
<1> SUFFICES ASSUME NEW d \in Revisions, d \notin Ancestors(n), NEW X \in SUBSET Revisions,
                    n \notin X, ReachesAvoiding(d, X)
             PROVE  FALSE
  BY DEF Dominators
<1> DEFINE S == Ancestors(n) \ X
<1>1. S \in (SUBSET Revisions) \ {{}}
  BY SelfAncestor DEF Ancestors
<1>2. PICK m \in S : parents[m] \cap S = {}
  BY <1>1, AcyclicAssumption, ZenonT(30)
<1>3. m \in Revisions \ {d} /\ m \in Ancestors(n) /\ m \notin X
  BY <1>1, <1>2
<1>4. parents[m] # {} /\ parents[m] \cap X = {}
  BY <1>3 DEF ReachesAvoiding
<1>5. PICK p \in parents[m] : TRUE
  BY <1>4
<1>6. p \in Revisions /\ p \in Ancestors(m)
  BY <1>3, ParentsKnown, SelfAncestor, ParentAncestors
<1>7. p \in Ancestors(n)
  BY <1>3, <1>6, Transitive
<1> QED  BY <1>2, <1>4, <1>5, <1>7

(* What was found is an ancestor of both children.                         *)
LEMMA AnswerAbove ==
  ASSUME IInv, answer # NullRev, left \in Revisions, right \in Revisions
  PROVE  answer \in Revisions /\ answer \in Ancestors(left) /\ answer \in Ancestors(right)
<1>1. parents \in Ancestries /\ answer \in Revisions /\ answer \in Acceptable
  BY DEF IInv, Types, AnswerSound
<1>2. Dominators(left) \subseteq Ancestors(left) /\ Dominators(right) \subseteq Ancestors(right)
  BY <1>1, DominatorIsAncestor
<1> QED  BY <1>1, <1>2 DEF Acceptable

-----------------------------------------------------------------------------
(* Paths.                                                                  *)

LEMMA ShortPath ==
  ASSUME answer \in Revisions
  PROVE  <<answer>> \in Seq(Revisions) /\ IsPathTo(<<answer>>, answer)
<1>1. Len(<<answer>>) = 1 /\ <<answer>>[1] = answer /\ <<answer>> # <<>>
  OBVIOUS
<1> QED  BY <1>1 DEF IsPathTo

LEMMA EdgePath ==
  ASSUME answer \in Revisions, NEW n \in Revisions, answer \in parents[n]
  PROVE  <<answer, n>> \in Seq(Revisions) /\ IsPathTo(<<answer, n>>, n)
<1> DEFINE p == <<answer, n>>
<1>1. /\ p \in Seq(Revisions) /\ Len(p) = 2 /\ p[1] = answer /\ p[2] = n /\ p # <<>>
  OBVIOUS
<1> HIDE DEF p
<1>2. \A i \in 1..(Len(p) - 1) : i = 1
  BY <1>1
<1> QED  BY <1>1, <1>2 DEF IsPathTo, p

LEMMA LongerPath ==
  ASSUME NEW p \in Seq(Revisions), NEW m \in Revisions, IsPathTo(p, m),
         NEW n \in Revisions, m \in parents[n]
  PROVE  Append(p, n) \in Seq(Revisions) /\ IsPathTo(Append(p, n), n)
<1> DEFINE q == Append(p, n)
           k == Len(p)
<1>1. /\ q \in Seq(Revisions) /\ k \in Nat /\ Len(q) = k + 1 /\ q[k + 1] = n
      /\ \A i \in 1..k : q[i] = p[i]
  BY AppendProperties, LenProperties
<1>2. k # 0 /\ p[1] = answer /\ p[k] = m /\ \A i \in 1..(k - 1) : p[i] \in parents[p[i + 1]]
  BY EmptySeq DEF IsPathTo
<1> HIDE DEF q, k
<1>3. q # <<>> /\ q[1] = answer /\ q[Len(q)] = n
  BY <1>1, <1>2, EmptySeq
<1>4. ASSUME NEW i \in 1..(Len(q) - 1) PROVE q[i] \in parents[q[i + 1]]
  <2>1. i \in 1..k
    BY <1>1, <1>4
  <2>2. CASE i = k
    BY <1>1, <1>2, <2>1, <2>2
  <2>3. CASE i # k
    <3>1. i \in 1..(k - 1) /\ i + 1 \in 1..k
      BY <1>1, <2>1, <2>3
    <3> QED  BY <1>1, <1>2, <2>1, <3>1
  <2> QED  BY <2>2, <2>3
<1> QED  BY <1>1, <1>3, <1>4 DEF IsPathTo, q

-----------------------------------------------------------------------------
(* The scan.                                                               *)

LEMMA ScanOfOne ==
  ASSUME NEW c \in Revisions, ScanBegins(c) PROVE Scanning(c)
  BY DEF ScanBegins, Scanning, Linked

(* Parents of a linked set join it.                                        *)
LEMMA LinkedGrows ==
  ASSUME NEW S \in SUBSET Revisions, NEW c \in S, Linked(S, c), NEW n \in S,
         NEW P \in SUBSET parents[n]
  PROVE  Linked(S \cup P, c)
<1> DEFINE T == S \cup P
<1> SUFFICES ASSUME NEW X \in SUBSET T, c \in X, \A m \in X : parents[m] \cap T \subseteq X
             PROVE  T \subseteq X
  BY DEF Linked
<1>2. S \subseteq X
  <2> DEFINE Y == X \cap S
  <2>1. Y \in SUBSET S /\ \A m \in Y : parents[m] \cap S \subseteq Y
    OBVIOUS
  <2>2. c \in S => S \subseteq Y
    BY <2>1 DEF Linked
  <2> QED  BY <2>2
<1>3. n \in X
  BY <1>2
<1> QED  BY <1>2, <1>3

(* The parents of a revision up to the ancestor: all, where it is not one. *)
LEMMA ScannedParents ==
  ASSUME parents \in Ancestries, NEW n \in Revisions, NEW ps \in SetToSeqs(parents[n])
  PROVE  /\ Scanned(ps) \subseteq parents[n]
         /\ answer \in parents[n] <=> answer \in Scanned(ps)
         /\ answer \notin Scanned(ps) => Scanned(ps) = parents[n]
<1>1. ps \in Seq(parents[n]) /\ Elems(ps) = parents[n]
  BY EdgeOrders
<1>2. Len(ps) \in Nat /\ DOMAIN ps = 1..Len(ps)
  BY <1>1, LenProperties
<1>3. Scanned(ps) \subseteq parents[n]
  BY <1>1 DEF Scanned, Elems
<1>4. ASSUME answer \in parents[n] PROVE answer \in Scanned(ps)
  <2> DEFINE I == {j \in DOMAIN ps : ps[j] = answer}
  <2>1. I \in SUBSET Nat /\ I # {}
    BY <1>1, <1>2, <1>4 DEF Elems
  <2> HIDE DEF I
  <2>2. PICK j \in I : \A k \in I : j <= k
    BY <2>1, LeastNat
  <2>3. j \in DOMAIN ps /\ ps[j] = answer
    BY <2>2 DEF I
  <2>4. \A k \in 1..(j - 1) : ps[k] # answer
    <3> SUFFICES ASSUME NEW k \in 1..(j - 1), ps[k] = answer PROVE FALSE
      OBVIOUS
    <3>1. k \in 1..Len(ps) /\ k < j
      BY <1>2, <2>3
    <3>2. k \in I
      BY <1>2, <3>1 DEF I
    <3> QED  BY <1>2, <2>2, <2>3, <3>1, <3>2
  <2> QED  BY <2>3, <2>4 DEF Scanned
<1>5. ASSUME answer \notin parents[n] PROVE Scanned(ps) = parents[n]
  <2>1. \A j \in DOMAIN ps : \A k \in 1..(j - 1) : k \in DOMAIN ps
    BY <1>2
  <2>2. \A k \in DOMAIN ps : ps[k] \in parents[n]
    BY <1>1 DEF Elems
  <2>3. \A j \in DOMAIN ps : \A k \in 1..(j - 1) : ps[k] # answer
    BY <1>5, <2>1, <2>2
  <2> QED  BY <1>1, <2>3 DEF Scanned, Elems
<1> QED  BY <1>3, <1>4, <1>5

(* One frontier node is scanned.                                           *)
LEMMA ScanStep ==
  ASSUME parents \in Ancestries, NEW c \in Revisions, answer \in Ancestors(c), answer # c,
         Scanning(c), NEW n \in frontier, NEW ps \in SetToSeqs(parents[n]),
         ScanNode(n, Scanned(ps)), parents' = parents, answer' = answer
  PROVE  /\ subgraph' \subseteq Revisions /\ c \in subgraph' /\ Linked(subgraph', c)
         /\ answer \in Scanned(ps) \/ frontier' = {} => answer \in subgraph'
         /\ ~(answer \in Scanned(ps) \/ frontier' = {}) => Scanning(c)'
<1> DEFINE new == Scanned(ps)
<1>1. n \in Revisions /\ n \in subgraph
  BY DEF Scanning
<1>2. /\ new \subseteq parents[n]
      /\ answer \in parents[n] <=> answer \in new
      /\ answer \notin new => new = parents[n]
  BY <1>1, ScannedParents
<1>3. /\ subgraph' = subgraph \cup new
      /\ frontier' = IF frontier = {n} THEN nextFrontier \cup new ELSE frontier \ {n}
      /\ nextFrontier' = IF frontier = {n} THEN {} ELSE nextFrontier \cup new
  BY DEF ScanNode
<1> HIDE DEF new
<1>4. parents[n] \subseteq Revisions
  BY <1>1, ParentsKnown
<1>5. subgraph' \subseteq Revisions /\ c \in subgraph'
  BY <1>2, <1>3, <1>4 DEF Scanning
<1>6. Linked(subgraph', c)
  <2>1. subgraph \in SUBSET Revisions /\ c \in subgraph /\ Linked(subgraph, c)
    BY DEF Scanning
  <2> QED  BY <1>1, <1>2, <1>3, <2>1, LinkedGrows
<1>7. frontier' \cup nextFrontier' = ((frontier \cup nextFrontier) \ {n}) \cup (nextFrontier \cup new)
  BY <1>3
<1>8. ASSUME answer \notin new
      PROVE  \A m \in subgraph' \ (frontier' \cup nextFrontier') : parents[m] \subseteq subgraph'
  <2> SUFFICES ASSUME NEW m \in subgraph' \ (frontier' \cup nextFrontier')
               PROVE  parents[m] \subseteq subgraph'
    OBVIOUS
  <2>1. CASE m = n
    BY <1>2, <1>3, <1>8, <2>1
  <2>2. CASE m # n
    <3>1. m \in subgraph \ (frontier \cup nextFrontier)
      BY <1>3, <1>7, <2>2
    <3> QED  BY <1>3, <3>1 DEF Scanning
  <2> QED  BY <2>1, <2>2
<1>9. ASSUME answer \notin new PROVE frontier' # {}
  <2> SUFFICES ASSUME frontier' = {} PROVE FALSE
    OBVIOUS
  <2>1. nextFrontier' = {}
    BY <1>3
  <2>2. UpClosed(subgraph')
    BY <1>8, <1>9, <2>1 DEF UpClosed
  <2>3. answer \in subgraph'
    BY <1>5, <2>2, ClosedHolds
  <2> QED  BY <1>3, <1>9, <2>3 DEF Scanning
<1>10. answer \in new => answer \in subgraph'
  BY <1>3
<1>11. ASSUME answer \notin new PROVE Scanning(c)'
  <2>1. answer' \notin subgraph'
    BY <1>3, <1>11 DEF Scanning
  <2>2. frontier' \cup nextFrontier' \subseteq subgraph'
    BY <1>3 DEF Scanning
  <2>3. Linked(subgraph, c)'
    BY <1>6 DEF Linked
  <2> QED  BY <1>5, <1>8, <1>9, <1>11, <2>1, <2>2, <2>3 DEF Scanning
<1> QED  BY <1>5, <1>6, <1>9, <1>10, <1>11 DEF new

-----------------------------------------------------------------------------
(* A change set is finished.                                               *)

LEMMA SameComposition ==
  ASSUME UNCHANGED searchVars
  PROVE  /\ parents' = parents /\ left' = left /\ right' = right /\ answer' = answer
         /\ \A p, n : IsPathTo(p, n)' <=> IsPathTo(p, n)
<1>1. parents' = parents /\ left' = left /\ right' = right /\ answer' = answer
  BY DEF searchVars, args
<1> QED  BY <1>1 DEF IsPathTo

LEMMA ToComposeIs ==
  ASSUME NoneComposed \/ OneComposed
  PROVE  /\ Child = IF NoneComposed THEN left ELSE right
         /\ NoneComposed => Tail(toCompose) = <<right>> /\ Len(toCompose) = 2
         /\ ~NoneComposed => Tail(toCompose) = <<>> /\ Len(toCompose) = 1
<1>1. /\ Head(<<left, right>>) = left /\ Tail(<<left, right>>) = <<right>> /\ Len(<<left, right>>) = 2
      /\ Head(<<right>>) = right /\ Tail(<<right>>) = <<>> /\ Len(<<right>>) = 1
  OBVIOUS
<1> QED  BY <1>1 DEF NoneComposed, OneComposed, Child

LEMMA Finished ==
  ASSUME PathsInv, UNCHANGED searchVars, stage \in {"subgraph", "compose"},
         NEW path \in Seq(Revisions), IsPathTo(path, Child), FinishComposite(path)
  PROVE  PathsInv'
<1>1. /\ composed' = Append(composed, path)
      /\ toCompose' = Tail(toCompose)
      /\ stage' = IF Len(toCompose) = 1 THEN "done" ELSE "subgraph"
      /\ subgraph' = SubgraphSeed(Tail(toCompose)) /\ frontier' = subgraph' /\ nextFrontier' = {}
      /\ stack' = <<>> /\ visited' = {} /\ partial' = <<>>
  BY DEF FinishComposite
<1>2. /\ composed \in Seq(Seq(Revisions)) /\ left \in Revisions /\ right \in Revisions
      /\ NoneComposed \/ OneComposed
  BY DEF PathsInv
<1>3. /\ parents' = parents /\ left' = left /\ right' = right /\ answer' = answer
      /\ \A p, n : IsPathTo(p, n)' <=> IsPathTo(p, n)
  BY SameComposition
<1> DEFINE k == Len(composed)
<1>4. /\ composed' \in Seq(Seq(Revisions)) /\ k \in Nat /\ Len(composed') = k + 1
      /\ composed'[k + 1] = path /\ \A i \in 1..k : composed'[i] = composed[i]
  BY <1>1, <1>2, AppendProperties, LenProperties
<1> HIDE DEF k
<1>5. NoActivation'
  BY <1>1 DEF NoActivation
<1>6. CASE NoneComposed
  <2>1. Child = left /\ Tail(toCompose) = <<right>> /\ Len(toCompose) = 2 /\ k = 0
    BY <1>6, ToComposeIs, EmptySeq DEF k, NoneComposed
  <2>2. toCompose' = <<right>> /\ stage' = "subgraph"
    BY <1>1, <2>1
  <2>3. Len(composed') = 1 /\ composed'[1] = path
    BY <1>4, <2>1
  <2>4. OneComposed'
    BY <1>3, <2>1, <2>2, <2>3 DEF OneComposed
  <2>5. PICK c \in Revisions : c = right
    BY <1>2
  <2>6. subgraph' = {c}
    <3> DEFINE s == <<c>>
    <3>1. DOMAIN s = {1} /\ s[1] = c
      OBVIOUS
    <3>2. subgraph' = SubgraphSeed(s)
      BY <1>1, <2>1, <2>5
    <3> HIDE DEF s
    <3>3. SubgraphSeed(s) = {s[i] : i \in {1}}
      BY <3>1 DEF SubgraphSeed
    <3> QED  BY <3>1, <3>2, <3>3
  <2>7. Child' = c
    BY <2>2, <2>5 DEF Child
  <2>8. frontier' = {c} /\ nextFrontier' = {}
    BY <1>1, <2>6
  <2>9. Scanning(Child)'
    BY <2>5, <2>6, <2>7, <2>8 DEF Scanning, Linked
  <2> QED  BY <1>2, <1>3, <1>4, <1>5, <2>2, <2>4, <2>9 DEF PathsInv
<1>7. CASE ~NoneComposed
  <2>1. Child = right /\ Tail(toCompose) = <<>> /\ Len(toCompose) = 1
    BY <1>2, <1>7, ToComposeIs
  <2>2. k = 1 /\ IsPathTo(composed[1], left)
    BY <1>2, <1>7 DEF k, OneComposed
  <2>3. toCompose' = <<>> /\ stage' = "done"
    BY <1>1, <2>1
  <2>4. Len(composed') = 2 /\ composed'[1] = composed[1] /\ composed'[2] = path
    BY <1>4, <2>2
  <2>5. AllComposed'
    BY <1>3, <2>1, <2>2, <2>3, <2>4 DEF AllComposed
  <2> QED  BY <1>2, <1>3, <1>4, <2>3, <2>5 DEF PathsInv
<1> QED  BY <1>6, <1>7

-----------------------------------------------------------------------------
(* The steps of the composition.                                           *)

LEMMA SameRevisionStep ==
  ASSUME IInv, PathsInv, SameRevision PROVE PathsInv'
<1>1. stage = "subgraph" /\ answer = Child /\ FinishComposite(<<answer>>) /\ UNCHANGED searchVars
  BY DEF SameRevision
<1>2. answer \in Revisions
  BY <1>1 DEF IInv, Answered
<1>3. <<answer>> \in Seq(Revisions) /\ IsPathTo(<<answer>>, Child)
  BY <1>1, <1>2, ShortPath
<1> QED  BY <1>1, <1>3, Finished

LEMMA ChildKnown ==
  ASSUME IInv, PathsInv, stage \in {"subgraph", "compose"}
  PROVE  /\ parents \in Ancestries /\ Child \in Revisions
         /\ answer \in Revisions /\ answer \in Ancestors(Child)
<1>1. left \in Revisions /\ right \in Revisions /\ (NoneComposed \/ OneComposed)
  BY DEF PathsInv
<1>2. answer \in Revisions /\ answer # NullRev
  BY NullAssumption DEF IInv, Answered
<1>3. Child \in {left, right}
  BY <1>1, ToComposeIs
<1> QED  BY <1>1, <1>2, <1>3, AnswerAbove DEF IInv, Types

LEMMA ExpandFrontierStep ==
  ASSUME IInv, PathsInv, ExpandFrontier PROVE PathsInv'
<1>1. /\ stage = "subgraph" /\ answer # Child /\ UNCHANGED searchVars
      /\ UNCHANGED <<toCompose, partial, composed>>
  BY DEF ExpandFrontier
<1>2. PICK n \in frontier : \E ps \in SetToSeqs(parents[n]) :
       /\ ScanNode(n, Scanned(ps))
       /\ IF answer \in Scanned(ps) \/ frontier' = {}
          THEN /\ stage' = "compose"
               /\ \E frame \in Entered(Child) : stack' = <<frame>>
               /\ visited' = {Child}
          ELSE UNCHANGED <<stage, stack, visited>>
  BY DEF ExpandFrontier
<1>3. PICK ps \in SetToSeqs(parents[n]) :
       /\ ScanNode(n, Scanned(ps))
       /\ IF answer \in Scanned(ps) \/ frontier' = {}
          THEN /\ stage' = "compose"
               /\ \E frame \in Entered(Child) : stack' = <<frame>>
               /\ visited' = {Child}
          ELSE UNCHANGED <<stage, stack, visited>>
  BY <1>2
<1>c. PICK c : c = Child
  OBVIOUS
<1>4. /\ parents \in Ancestries /\ c \in Revisions
      /\ answer \in Revisions /\ answer \in Ancestors(c)
  BY <1>1, <1>c, ChildKnown
<1>5. /\ parents' = parents /\ left' = left /\ right' = right /\ answer' = answer
      /\ \A p, m : IsPathTo(p, m)' <=> IsPathTo(p, m)
  BY <1>1, SameComposition
<1>6. Scanning(c) /\ NoActivation /\ (NoneComposed \/ OneComposed)
      /\ composed \in Seq(Seq(Revisions)) /\ left \in Revisions /\ right \in Revisions
  BY <1>1, <1>c DEF PathsInv
<1>7. Child' = c /\ (NoneComposed' \/ OneComposed')
  BY <1>1, <1>c, <1>5, <1>6 DEF Child, NoneComposed, OneComposed
<1>8. answer # c
  BY <1>1, <1>c
<1> DEFINE over == answer \in Scanned(ps) \/ frontier' = {}
<1>9. /\ subgraph' \subseteq Revisions /\ c \in subgraph' /\ Linked(subgraph', c)
      /\ over => answer \in subgraph'
      /\ ~over => Scanning(c)'
  BY <1>3, <1>4, <1>5, <1>6, <1>8, ScanStep
<1>10. CASE ~over
  <2>1. UNCHANGED <<stage, stack, visited>>
    BY <1>3, <1>10
  <2>2. NoActivation'
    BY <1>1, <1>6, <2>1 DEF NoActivation
  <2>3. Scanning(Child)'
    BY <1>7, <1>9, <1>10 DEF Scanning, Linked
  <2> QED  BY <1>1, <1>5, <1>6, <1>7, <2>1, <2>2, <2>3 DEF PathsInv
<1>11. CASE over
  <2>1. stage' = "compose" /\ visited' = {c}
    BY <1>3, <1>c, <1>11
  <2>2. PICK frame \in Entered(c) : stack' = <<frame>>
    BY <1>3, <1>c, <1>11
  <2>3. PICK es \in SetToSeqs(parents[c]) : frame = [rev |-> c, edges |-> es]
    BY DEF Entered
  <2>4. es \in Seq(Revisions) /\ Elems(es) = parents[c]
    BY <1>4, EdgeOrders
  <2>5. frame \in Frames /\ frame.rev = c /\ frame.edges = es
    BY <1>4, <2>3, <2>4 DEF Frames
  <2>6. stack' \in Seq(Frames) /\ stack' # <<>> /\ DOMAIN stack' = {1} /\ stack'[1] = frame
    BY <2>2, <2>5
  <2>7. StackRevs' = {c}
    BY <2>5, <2>6 DEF StackRevs
  <2>8. partial' = <<>> /\ DOMAIN partial' = {}
    BY <1>1, <1>6 DEF NoActivation
  <2>9. Dead' = {}
    BY <2>1, <2>7 DEF Dead
  <2>10. AllPassed'
    BY <1>5, <2>4, <2>5, <2>6 DEF AllPassed, PassedOver, Elems
  <2>11. Descending'
    <3>1. c \in Ancestors(c)
      BY <1>4, SelfAncestor
    <3>2. \A i \in DOMAIN stack' : stack'[i].rev = c
      BY <2>5, <2>6
    <3> QED  BY <1>5, <3>1, <3>2 DEF Descending, Ancestors, UpClosed
  <2>12. partial' \in [DOMAIN partial' -> Seq(Revisions)]
    BY <2>8
  <2>13. Recursing(c)'
    BY <1>5, <1>8, <1>9, <1>11, <2>1, <2>5, <2>6, <2>7, <2>8, <2>9, <2>10, <2>11, <2>12
    DEF Recursing, Linked
  <2>14. Recursing(Child)'
    BY <1>7, <2>13 DEF Recursing, Linked
  <2> QED  BY <1>1, <1>5, <1>6, <1>7, <2>1, <2>14 DEF PathsInv
<1> QED  BY <1>10, <1>11

(* The innermost activation and its callers.                               *)
LEMMA AtRecursion ==
  ASSUME IInv, PathsInv, stage = "compose"
  PROVE  /\ parents \in Ancestries /\ answer \in Revisions
         /\ Recursing(Child) /\ Child \in Revisions
         /\ Len(stack) \in Nat \ {0} /\ DOMAIN stack = 1..Len(stack) /\ Len(stack) \in DOMAIN stack
         /\ Top \in Frames /\ Top.rev \in visited /\ Top.rev \in Revisions
         /\ Top.edges \in Seq(Revisions) /\ PassedOver(Top)
         /\ Len(stack) = 1 => Top.rev = Child
<1>1. /\ parents \in Ancestries /\ answer \in Revisions /\ Recursing(Child) /\ Child \in Revisions
  BY ChildKnown DEF PathsInv
<1>2. stack \in Seq(Frames) /\ stack # <<>> /\ stack[1].rev = Child /\ StackRevs \subseteq visited
  BY <1>1 DEF Recursing
<1>3. Len(stack) \in Nat \ {0} /\ DOMAIN stack = 1..Len(stack)
  BY <1>2, EmptySeq, LenProperties
<1>4. Len(stack) \in DOMAIN stack
  BY <1>3
<1>5. Top \in Frames
  BY <1>2, <1>4, ElementOfSeq DEF Top
<1>6. Top.rev \in Revisions /\ Top.edges \in Seq(Revisions)
  BY <1>5 DEF Frames
<1>7. Top.rev \in visited
  BY <1>2, <1>4 DEF StackRevs, Top
<1>8. PassedOver(Top)
  BY <1>1, <1>4 DEF Recursing, AllPassed, Top
<1>9. Len(stack) = 1 => Top.rev = Child
  BY <1>2 DEF Top
<1> QED  BY <1>1, <1>3, <1>4, <1>5, <1>6, <1>7, <1>8, <1>9

(* An activation returns to its caller.                                    *)
LEMMA Popped ==
  ASSUME stack \in Seq(Frames), stack # <<>>, Len(stack) # 1, stack' = Callers
  PROVE  /\ stack' \in Seq(Frames) /\ stack' # <<>> /\ DOMAIN stack' \subseteq DOMAIN stack
         /\ \A i \in DOMAIN stack' : stack'[i] = stack[i]
         /\ stack'[1] = stack[1]
         /\ StackRevs = StackRevs' \cup {Top.rev}
<1> DEFINE k == Len(stack)
<1>1. /\ k \in Nat \ {0} /\ Callers \in Seq(Frames) /\ Len(Callers) = k - 1
      /\ \A i \in 1..(k - 1) : Callers[i] = stack[i]
  BY WithoutLast DEF Callers
<1>2. DOMAIN stack = 1..k /\ DOMAIN stack' = 1..(k - 1)
  BY <1>1, LenProperties
<1> HIDE DEF k
<1>3. stack' \in Seq(Frames) /\ \A i \in 1..(k - 1) : stack'[i] = stack[i]
  BY <1>1
<1>4. k # 1
  BY DEF k
<1>5. 1 \in DOMAIN stack' /\ DOMAIN stack' \subseteq DOMAIN stack
  BY <1>1, <1>2, <1>4
<1>6. stack' # <<>>
  BY <1>5, EmptyMap
<1>7. DOMAIN stack = DOMAIN stack' \cup {k}
  BY <1>1, <1>2
<1>8. Top = stack[k]
  BY DEF Top, k
<1>9. StackRevs = {stack[i].rev : i \in DOMAIN stack'} \cup {Top.rev}
  BY <1>7, <1>8 DEF StackRevs
<1>10. StackRevs' = {stack'[i].rev : i \in DOMAIN stack'}
  BY DEF StackRevs
<1>11. StackRevs' = {stack[i].rev : i \in DOMAIN stack'}
  BY <1>2, <1>3, <1>10
<1> QED  BY <1>2, <1>3, <1>5, <1>6, <1>9, <1>11

ComposeFrame ==
  UNCHANGED <<stage, toCompose, subgraph, frontier, nextFrontier, composed>>

(* What is left to show of a step inside the recursion.                    *)
LEMMA StillRecursing ==
  ASSUME IInv, PathsInv, stage = "compose", UNCHANGED searchVars, ComposeFrame,
         stack' \in Seq(Frames), stack' # <<>>, stack'[1].rev = stack[1].rev,
         visited' \subseteq subgraph, answer \notin visited', StackRevs' \subseteq visited',
         AllPassed', Descending',
         DOMAIN partial' \subseteq visited', partial' \in [DOMAIN partial' -> Seq(Revisions)],
         \A n \in DOMAIN partial' : IsPathTo(partial'[n], n),
         \A n \in Dead' : answer \notin parents[n] /\ parents[n] \cap subgraph \subseteq Dead'
  PROVE  PathsInv'
<1>c. PICK c : c = Child
  OBVIOUS
<1>1. Recursing(c) /\ (NoneComposed \/ OneComposed) /\ left \in Revisions /\ right \in Revisions
      /\ composed \in Seq(Seq(Revisions))
  BY <1>c DEF PathsInv
<1>2. /\ parents' = parents /\ left' = left /\ right' = right /\ answer' = answer
      /\ \A p, m : IsPathTo(p, m)' <=> IsPathTo(p, m)
  BY SameComposition
<1>3. Child' = c /\ (NoneComposed' \/ OneComposed') /\ stage' = "compose" /\ composed' = composed
  BY <1>c, <1>1, <1>2 DEF Child, NoneComposed, OneComposed, ComposeFrame
<1>4. subgraph' = subgraph
  BY DEF ComposeFrame
<1>5. Linked(subgraph, c)'
  BY <1>1, <1>2, <1>4 DEF Recursing, Linked
<1>6. (\A n \in DOMAIN partial : IsPathTo(partial[n], n))'
  BY <1>2 DEF IsPathTo
<1>7. Recursing(c)'
  BY <1>1, <1>2, <1>4, <1>5, <1>6 DEF Recursing
<1>8. Recursing(Child)'
  BY <1>3, <1>7 DEF Recursing, Linked
<1> QED  BY <1>1, <1>2, <1>3, <1>8 DEF PathsInv

(* While what is dead stays dead, so does what was passed over.            *)
LEMMA CallersPassed ==
  ASSUME IInv, PathsInv, stage = "compose", UNCHANGED searchVars, ComposeFrame,
         DOMAIN stack' \subseteq DOMAIN stack, \A i \in DOMAIN stack' : stack'[i] = stack[i],
         Dead \subseteq Dead'
  PROVE  AllPassed' /\ Descending'
<1>1. AllPassed /\ Descending
  BY DEF PathsInv, Recursing
<1>2. parents' = parents /\ answer' = answer /\ subgraph' = subgraph
  BY SameComposition DEF ComposeFrame
<1>3. AllPassed'
  BY <1>1, <1>2 DEF AllPassed, PassedOver
<1>4. Descending'
  BY <1>1, <1>2 DEF Descending, Ancestors, UpClosed
<1> QED  BY <1>3, <1>4

LEMMA RelevantReturn ==
  ASSUME IInv, PathsInv, stage = "compose", UNCHANGED searchVars,
         NEW path \in Seq(Revisions), IsPathTo(path, Top.rev), Return(TRUE, path)
  PROVE  PathsInv'
<1>1. CASE Len(stack) = 1
  <2>1. IsPathTo(path, Child)
    BY <1>1, AtRecursion
  <2>2. FinishComposite(path)
    BY <1>1 DEF Return
  <2> QED  BY <2>1, <2>2, Finished
<1>2. CASE Len(stack) # 1
  <2>1. stack' = Callers /\ partial' = Cached(Top.rev, path) /\ visited' = visited /\ ComposeFrame
    BY <1>2 DEF Return, ComposeFrame
  <2>r. Recursing(Child)
    BY DEF PathsInv
  <2>2. /\ stack' \in Seq(Frames) /\ stack' # <<>> /\ DOMAIN stack' \subseteq DOMAIN stack
        /\ \A i \in DOMAIN stack' : stack'[i] = stack[i]
        /\ stack'[1] = stack[1]
        /\ StackRevs = StackRevs' \cup {Top.rev}
    BY <1>2, <2>1, <2>r, Popped DEF Recursing
  <2>3. Top.rev \in visited
    BY AtRecursion
  <2>4. PICK r : r = Top.rev
    OBVIOUS
  <2>5. /\ DOMAIN partial' = DOMAIN partial \cup {r}
        /\ \A n \in DOMAIN partial' : partial'[n] = IF n = r THEN path ELSE partial[n]
    BY <2>1, <2>4 DEF Cached
  <2>6. partial' \in [DOMAIN partial' -> Seq(Revisions)]
    <3>1. partial' = [n \in DOMAIN partial \cup {r} |-> IF n = r THEN path ELSE partial[n]]
      BY <2>1, <2>4 DEF Cached
    <3>2. \A n \in DOMAIN partial : partial[n] \in Seq(Revisions)
      BY <2>r DEF Recursing
    <3> QED  BY <3>1, <3>2
  <2>7. \A n \in DOMAIN partial' : IsPathTo(partial'[n], n)
    BY <2>r, <2>4, <2>5 DEF Recursing
  <2>8. Dead' = Dead
    BY <2>1, <2>2, <2>4, <2>5 DEF Dead
  <2>9. AllPassed' /\ Descending'
    BY <2>1, <2>2, <2>8, CallersPassed
  <2>10. DOMAIN partial' \subseteq visited' /\ StackRevs' \subseteq visited' /\ answer \notin visited'
         /\ visited' \subseteq subgraph
    BY <2>r, <2>1, <2>2, <2>3, <2>4, <2>5 DEF Recursing
  <2>11. \A n \in Dead' : answer \notin parents[n] /\ parents[n] \cap subgraph \subseteq Dead'
    BY <2>r, <2>8 DEF Recursing
  <2> QED  BY <2>1, <2>2, <2>6, <2>7, <2>9, <2>10, <2>11, StillRecursing
<1> QED  BY <1>1, <1>2

(* The edge that is next leads to a parent.                                *)
LEMMA NextEdge ==
  ASSUME IInv, PathsInv, stage = "compose", Top.edges # <<>>
  PROVE  /\ Head(Top.edges) \in parents[Top.rev] /\ Head(Top.edges) \in Revisions
         /\ Tail(Top.edges) \in Seq(Revisions)
         /\ Elems(Top.edges) = {Head(Top.edges)} \cup Elems(Tail(Top.edges))
<1>1. Top.edges \in Seq(Revisions) /\ Elems(Top.edges) \subseteq parents[Top.rev]
  BY AtRecursion DEF PassedOver
<1> DEFINE es == Top.edges
<1>2. es \in Seq(Revisions) /\ es # <<>>
  BY <1>1
<1> HIDE DEF es
<1>3. /\ Tail(es) \in Seq(Revisions) /\ Head(es) \in Revisions /\ 1 \in DOMAIN es /\ es[1] = Head(es)
      /\ \A i \in DOMAIN Tail(es) : i + 1 \in DOMAIN es /\ Tail(es)[i] = es[i + 1]
      /\ Elems(es) \subseteq {Head(es)} \cup Elems(Tail(es))
  BY <1>2, ElemsTail
<1>4. Elems(es) = {Head(es)} \cup Elems(Tail(es))
  BY <1>3 DEF Elems
<1> QED  BY <1>1, <1>3, <1>4 DEF es

(* No revision on the stack is a parent of the innermost one: each of them *)
(* descends from it.                                                       *)
LEMMA NotOnStack ==
  ASSUME IInv, PathsInv, stage = "compose", NEW p \in parents[Top.rev]
  PROVE  p \notin StackRevs
<1> SUFFICES ASSUME p \in StackRevs PROVE FALSE
  OBVIOUS
<1>1. /\ parents \in Ancestries /\ Top.rev \in Revisions /\ Len(stack) \in DOMAIN stack
      /\ DOMAIN stack = 1..Len(stack) /\ Len(stack) \in Nat /\ Descending
  BY AtRecursion DEF Recursing
<1>2. PICK i \in DOMAIN stack : p = stack[i].rev
  BY DEF StackRevs
<1>3. Top.rev \in Ancestors(p)
  <2>1. i <= Len(stack)
    BY <1>1, <1>2
  <2> QED  BY <1>1, <1>2, <2>1 DEF Descending, Top
<1>4. p \in Revisions /\ p \in Ancestors(Top.rev)
  BY <1>1, ParentsKnown, SelfAncestor, ParentAncestors
<1>5. p = Top.rev
  BY <1>1, <1>3, <1>4, NoCircle
<1>6. {p} \in (SUBSET Revisions) \ {{}}
  BY <1>4
<1>7. parents[p] \cap {p} = {}
  BY <1>1, <1>6, AcyclicAssumption
<1> QED  BY <1>5, <1>7

LEMMA RelevantParentStep ==
  ASSUME IInv, PathsInv, RelevantParent PROVE PathsInv'
<1> DEFINE p == Head(Top.edges)
<1>1. stage = "compose" /\ Top.edges # <<>> /\ UNCHANGED searchVars
  BY DEF RelevantParent
<1>2. /\ p \in parents[Top.rev] /\ Top.rev \in Revisions /\ p \in Revisions /\ answer \in Revisions
  BY <1>1, NextEdge, AtRecursion
<1>3. CASE p = answer /\ Return(TRUE, <<answer, Top.rev>>)
  <2>1. <<answer, Top.rev>> \in Seq(Revisions) /\ IsPathTo(<<answer, Top.rev>>, Top.rev)
    BY <1>2, <1>3, EdgePath
  <2> QED  BY <1>1, <1>3, <2>1, RelevantReturn
<1>4. CASE p \in DOMAIN partial /\ Return(TRUE, Append(partial[p], Top.rev))
  <2>1. partial[p] \in Seq(Revisions) /\ IsPathTo(partial[p], p)
    BY <1>1, <1>4 DEF PathsInv, Recursing
  <2>2. Append(partial[p], Top.rev) \in Seq(Revisions)
        /\ IsPathTo(Append(partial[p], Top.rev), Top.rev)
    BY <1>2, <2>1, LongerPath
  <2> QED  BY <1>1, <1>4, <2>2, RelevantReturn
<1> QED  BY <1>3, <1>4 DEF RelevantParent

LEMMA SkipParentStep ==
  ASSUME IInv, PathsInv, SkipParent PROVE PathsInv'
<1> DEFINE p == Head(Top.edges)
           k == Len(stack)
           f == [Top EXCEPT !.edges = Tail(Top.edges)]
<1>1. /\ stage = "compose" /\ Top.edges # <<>> /\ UNCHANGED searchVars /\ ComposeFrame
      /\ p # answer /\ p \notin DOMAIN partial /\ (p \in visited \/ p \notin subgraph)
      /\ visited' = visited /\ partial' = partial
      /\ stack' = [stack EXCEPT ![k].edges = Tail(@)]
  BY DEF SkipParent, ComposeFrame
<1>2. /\ p \in parents[Top.rev] /\ p \in Revisions /\ Tail(Top.edges) \in Seq(Revisions)
      /\ Elems(Top.edges) = {p} \cup Elems(Tail(Top.edges))
  BY <1>1, NextEdge
<1>3. /\ k \in DOMAIN stack /\ Top \in Frames /\ Recursing(Child) /\ PassedOver(Top)
      /\ k \in Nat \ {0} /\ DOMAIN stack = 1..k /\ stack \in Seq(Frames)
  BY <1>1, AtRecursion DEF Recursing
<1>4. f \in Frames /\ f.rev = Top.rev /\ f.edges = Tail(Top.edges)
  BY <1>2, <1>3 DEF Frames
<1>5. stack' = [stack EXCEPT ![k] = f]
  <2>1. stack[k] = Top
    BY DEF Top
  <2> QED  BY <1>1, <2>1
<1> HIDE DEF p, f, k
<1>6. /\ stack' \in Seq(Frames) /\ DOMAIN stack' = DOMAIN stack
      /\ stack'[k] = f /\ \A i \in DOMAIN stack \ {k} : stack'[i] = stack[i]
  <2>1. stack \in [1..k -> Frames]
    BY <1>3, LenProperties DEF k
  <2>2. stack' \in [1..k -> Frames]
    BY <1>4, <1>5, <2>1
  <2>3. stack' \in Seq(Frames)
    BY <1>3, <2>2, SeqDef
  <2> QED  BY <1>3, <1>5, <2>1, <2>2, <2>3
<1>7. \A i \in DOMAIN stack : stack'[i].rev = stack[i].rev
  BY <1>4, <1>6 DEF Top, k
<1>8. StackRevs' = StackRevs
  <2>1. StackRevs' = {stack'[i].rev : i \in DOMAIN stack'}
    BY DEF StackRevs
  <2> QED  BY <1>6, <1>7, <2>1 DEF StackRevs
<1>9. Dead' = Dead
  BY <1>1, <1>8 DEF Dead
<1>10. p \in subgraph => p \in Dead
  <2>1. p \notin StackRevs
    BY <1>1, <1>2, NotOnStack
  <2> QED  BY <1>1, <2>1 DEF Dead
<1>11. parents' = parents /\ answer' = answer /\ subgraph' = subgraph
  BY <1>1, SameComposition DEF ComposeFrame
<1>12. AllPassed'
  <2>1. PassedOver(f)
    BY <1>1, <1>2, <1>3, <1>4, <1>10 DEF PassedOver
  <2>2. \A i \in DOMAIN stack : PassedOver(stack[i])
    BY <1>3 DEF Recursing, AllPassed
  <2>3. \A i \in DOMAIN stack' : PassedOver(stack'[i])
    BY <1>6, <2>1, <2>2
  <2> QED  BY <1>9, <1>11, <2>3 DEF AllPassed, PassedOver
<1>13. Descending'
  BY <1>3, <1>6, <1>7, <1>11 DEF Recursing, Descending, Ancestors, UpClosed
<1>14. stack' # <<>>
  BY <1>3, <1>6, EmptyMap
<1>15. stack'[1].rev = stack[1].rev
  BY <1>3, <1>7
<1> QED  BY <1>1, <1>3, <1>6, <1>8, <1>9, <1>12, <1>13, <1>14, <1>15, StillRecursing DEF Recursing

LEMMA ExploreParentStep ==
  ASSUME IInv, PathsInv, ExploreParent PROVE PathsInv'
<1>1. PICK p : p = Head(Top.edges)
  OBVIOUS
<1>2. /\ stage = "compose" /\ Top.edges # <<>> /\ UNCHANGED searchVars /\ ComposeFrame
      /\ p # answer /\ p \notin visited /\ p \in subgraph
      /\ visited' = visited \cup {p} /\ partial' = partial
      /\ \E frame \in Entered(p) : stack' = Append(stack, frame)
  BY <1>1 DEF ExploreParent, ComposeFrame
<1>3. p \in parents[Top.rev] /\ p \in Revisions
  BY <1>1, <1>2, NextEdge
<1>4. /\ parents \in Ancestries /\ Recursing(Child) /\ Top.rev \in Revisions
      /\ Len(stack) \in DOMAIN stack /\ DOMAIN stack = 1..Len(stack) /\ Len(stack) \in Nat \ {0}
  BY <1>2, AtRecursion
<1>5. PICK frame \in Entered(p) : stack' = Append(stack, frame)
  BY <1>2
<1>6. PICK es \in SetToSeqs(parents[p]) : frame = [rev |-> p, edges |-> es]
  BY <1>5 DEF Entered
<1>7. es \in Seq(Revisions) /\ Elems(es) = parents[p]
  BY <1>3, <1>4, <1>6, EdgeOrders
<1>8. frame \in Frames /\ frame.rev = p /\ frame.edges = es
  BY <1>3, <1>6, <1>7 DEF Frames
<1> DEFINE k == Len(stack)
<1>9. k \in Nat \ {0} /\ DOMAIN stack = 1..k /\ k \in DOMAIN stack /\ Top = stack[k]
  BY <1>4 DEF Top
<1>10. /\ stack' \in Seq(Frames) /\ DOMAIN stack' = 1..(k + 1) /\ stack'[k + 1] = frame
       /\ \A i \in 1..k : stack'[i] = stack[i]
  <2>1. stack \in Seq(Frames)
    BY <1>4 DEF Recursing
  <2>2. /\ Append(stack, frame) \in Seq(Frames) /\ Len(Append(stack, frame)) = k + 1
        /\ Append(stack, frame)[k + 1] = frame
        /\ \A i \in 1..k : Append(stack, frame)[i] = stack[i]
    BY <1>8, <2>1, AppendProperties
  <2> HIDE DEF k
  <2> QED  BY <1>5, <2>2, LenProperties
<1> HIDE DEF k
<1>11. stack' # <<>> /\ stack'[1].rev = stack[1].rev
  <2>1. 1 \in DOMAIN stack' /\ 1 \in 1..k
    BY <1>9, <1>10
  <2> QED  BY <1>10, <2>1, EmptyMap
<1>12. StackRevs' = StackRevs \cup {p}
  <2>1. StackRevs' = {stack'[i].rev : i \in 1..(k + 1)}
    BY <1>10 DEF StackRevs
  <2>2. StackRevs = {stack[i].rev : i \in 1..k}
    BY <1>9 DEF StackRevs
  <2>3. 1..(k + 1) = 1..k \cup {k + 1}
    BY <1>9
  <2> QED  BY <1>8, <1>10, <2>1, <2>2, <2>3
<1>13. Dead' = Dead
  BY <1>2, <1>12 DEF Dead
<1>14. parents' = parents /\ answer' = answer /\ subgraph' = subgraph
  BY <1>2, SameComposition DEF ComposeFrame
<1>15. AllPassed'
  <2>1. \A i \in 1..k : PassedOver(stack[i])
    BY <1>4, <1>9 DEF Recursing, AllPassed
  <2>2. PassedOver(frame)
    BY <1>7, <1>8 DEF PassedOver
  <2>3. ASSUME NEW i \in DOMAIN stack' PROVE PassedOver(stack'[i])
    <3>1. i \in 1..k \/ i = k + 1
      BY <1>9, <1>10
    <3> QED  BY <1>10, <2>1, <2>2, <3>1
  <2> QED  BY <1>13, <1>14, <2>3 DEF AllPassed, PassedOver
<1>16. Descending'
  <2>1. \A i, j \in 1..k : i <= j => stack[j].rev \in Ancestors(stack[i].rev)
    BY <1>4, <1>9 DEF Recursing, Descending
  <2>2. \A i \in 1..k : stack[i].rev \in Revisions
    <3>1. StackRevs \subseteq Revisions
      BY <1>4 DEF Recursing
    <3> QED  BY <1>9, <3>1 DEF StackRevs
  <2>3. p \in Ancestors(p) /\ p \in Ancestors(Top.rev)
    BY <1>3, <1>4, SelfAncestor, ParentAncestors
  <2>4. ASSUME NEW i \in DOMAIN stack', NEW j \in DOMAIN stack', i <= j
        PROVE  stack'[j].rev \in Ancestors(stack'[i].rev)
    <3>1. CASE j \in 1..k
      <4>1. i \in 1..k
        BY <1>9, <1>10, <2>4, <3>1
      <4> QED  BY <1>10, <2>1, <2>4, <3>1, <4>1
    <3>2. CASE j = k + 1 /\ i \in 1..k
      <4>1. i <= k
        BY <1>9, <3>2
      <4>2. Top.rev \in Ancestors(stack[i].rev) /\ stack[i].rev \in Revisions
        BY <1>9, <2>1, <2>2, <3>2, <4>1
      <4>3. p \in Ancestors(stack[i].rev)
        BY <2>3, <4>2, Transitive
      <4> QED  BY <1>8, <1>10, <3>2, <4>3
    <3>3. CASE j = k + 1 /\ i = k + 1
      BY <1>8, <1>10, <2>3, <3>3
    <3> QED  BY <1>9, <1>10, <2>4, <3>1, <3>2, <3>3
  <2> QED  BY <1>14, <2>4 DEF Descending, Ancestors, UpClosed
<1> QED  BY <1>2, <1>4, <1>10, <1>11, <1>12, <1>13, <1>15, <1>16, StillRecursing DEF Recursing

(* The first activation does not end in vain: what is dead is closed under *)
(* parents in the subgraph, and would be all of it.                        *)
LEMMA NotInVain ==
  ASSUME IInv, PathsInv, stage = "compose", Top.edges = <<>>
  PROVE  Len(stack) # 1
<1> SUFFICES ASSUME Len(stack) = 1 PROVE FALSE
  OBVIOUS
<1>1. PICK c : c = Child
  OBVIOUS
<1>2. Recursing(c) /\ Top.rev = c /\ PassedOver(Top) /\ DOMAIN stack = 1..Len(stack)
  BY <1>1, AtRecursion
<1>3. StackRevs = {c}
  BY <1>2 DEF StackRevs, Top
<1>4. Elems(Top.edges) = {}
  BY EmptyMap
<1> DEFINE X == Dead \cup {c}
<1>5. X \in SUBSET subgraph /\ c \in X
  BY <1>2, <1>3 DEF Recursing, Dead
<1>6. ASSUME NEW n \in X PROVE parents[n] \cap subgraph \subseteq X
  <2>1. CASE n = c
    BY <1>2, <1>4, <2>1 DEF PassedOver
  <2>2. CASE n # c
    BY <1>2, <1>6, <2>2 DEF Recursing
  <2> QED  BY <2>1, <2>2
<1>7. answer \in subgraph /\ answer # c /\ answer \notin visited /\ Linked(subgraph, c)
  BY <1>2 DEF Recursing
<1> HIDE DEF X
<1>8. subgraph \subseteq X
  BY <1>5, <1>6, <1>7 DEF Linked
<1>9. answer \in X
  BY <1>7, <1>8
<1> QED  BY <1>7, <1>9 DEF X, Dead

LEMMA ExhaustedStep ==
  ASSUME IInv, PathsInv, Exhausted PROVE PathsInv'
<1>1. stage = "compose" /\ Top.edges = <<>> /\ UNCHANGED searchVars /\ Return(FALSE, <<>>)
  BY DEF Exhausted
<1>2. Len(stack) # 1
  BY <1>1, NotInVain
<1>3. stack' = Callers /\ partial' = partial /\ visited' = visited /\ ComposeFrame
  BY <1>1, <1>2 DEF Return, ComposeFrame
<1>4. Recursing(Child) /\ PassedOver(Top) /\ Top.rev \in visited
  BY <1>1, AtRecursion
<1>5. /\ stack' \in Seq(Frames) /\ stack' # <<>> /\ DOMAIN stack' \subseteq DOMAIN stack
      /\ \A i \in DOMAIN stack' : stack'[i] = stack[i]
      /\ stack'[1] = stack[1]
      /\ StackRevs = StackRevs' \cup {Top.rev}
  BY <1>2, <1>3, <1>4, Popped DEF Recursing
<1>6. PICK r : r = Top.rev
  OBVIOUS
<1>7. Dead \subseteq Dead' /\ Dead' \subseteq Dead \cup {r}
  BY <1>3, <1>5, <1>6 DEF Dead
<1>8. AllPassed' /\ Descending'
  BY <1>1, <1>3, <1>5, <1>7, CallersPassed
<1>9. Elems(Top.edges) = {}
  BY <1>1, EmptyMap
<1>10. answer \notin parents[r] /\ parents[r] \cap subgraph \subseteq Dead
  BY <1>4, <1>6, <1>9 DEF PassedOver
<1>11. \A n \in Dead' : answer \notin parents[n] /\ parents[n] \cap subgraph \subseteq Dead'
  <2>1. \A n \in Dead : answer \notin parents[n] /\ parents[n] \cap subgraph \subseteq Dead
    BY <1>4 DEF Recursing
  <2> QED  BY <1>7, <1>10, <2>1
<1> QED  BY <1>1, <1>3, <1>4, <1>5, <1>8, <1>11, StillRecursing DEF Recursing

-----------------------------------------------------------------------------
(* The other steps.                                                        *)

LEMMA InitPaths == ASSUME SearchInit PROVE PathsInv
<1>1. <<>> \in Seq(Seq(Revisions))
  OBVIOUS
<1> QED  BY <1>1 DEF SearchInit, PathsInv, NoActivation

LEMMA AskPaths ==
  ASSUME PathsInv, NEW l \in Revisions, NEW r \in Revisions, NEW useLca \in BOOLEAN,
         Ask(l, r, useLca)
  PROVE  PathsInv'
<1>1. /\ stage = "idle" /\ left' = l /\ right' = r /\ parents' = parents
      /\ stage' \in {"search", "subgraph"}
      /\ toCompose' = <<l, r>> /\ subgraph' = {l} /\ frontier' = {l}
      /\ UNCHANGED <<nextFrontier, stack, visited, partial, composed>>
  BY DEF Ask
<1>2. composed = <<>> /\ nextFrontier = {} /\ NoActivation
  BY <1>1 DEF PathsInv
<1>3. composed' \in Seq(Seq(Revisions)) /\ NoActivation' /\ NoneComposed'
  BY <1>1, <1>2 DEF PathsInv, NoActivation, NoneComposed
<1>4. Child' = l
  BY <1>1 DEF Child
<1>5. subgraph' = {l} /\ frontier' = {l} /\ nextFrontier' = {}
  BY <1>1, <1>2
<1>6. ScanBegins(left)'
  BY <1>1, <1>5 DEF ScanBegins
<1>7. Scanning(Child)'
  BY <1>4, <1>5 DEF Scanning, Linked
<1> QED  BY <1>1, <1>3, <1>6, <1>7 DEF PathsInv

\* What a search step, and a step of anything else, leaves alone.
SearchFrame == UNCHANGED <<parents, left, right, composeVars>>

(* The search does not touch what the composition starts with.             *)
LEMMA SearchPaths ==
  ASSUME IInv, PathsInv, SearchFrame, stage = "search", stage' \in {"search", "subgraph", "done"},
         stage' = "done" => answer' = NullRev
  PROVE  PathsInv'
<1>1. /\ left' = left /\ right' = right /\ parents' = parents /\ toCompose' = toCompose
      /\ UNCHANGED <<subgraph, frontier, nextFrontier, stack, visited, partial, composed>>
  BY DEF SearchFrame, composeVars
<1>2. /\ left \in Revisions /\ right \in Revisions /\ composed \in Seq(Seq(Revisions))
      /\ NoneComposed /\ ScanBegins(left) /\ NoActivation
  BY DEF PathsInv
<1>3. NoneComposed' /\ ScanBegins(left)' /\ NoActivation'
  BY <1>1, <1>2 DEF NoneComposed, ScanBegins, NoActivation
<1>4. PICK c : c = left
  OBVIOUS
<1>5. Child' = c
  BY <1>1, <1>2, <1>4 DEF NoneComposed, Child
<1>6. Scanning(c)'
  BY <1>1, <1>2, <1>4 DEF ScanBegins, Scanning, Linked
<1>7. Scanning(Child)'
  BY <1>5, <1>6 DEF Scanning, Linked
<1> QED  BY <1>1, <1>2, <1>3, <1>7 DEF PathsInv

LEMMA StutterPaths ==
  ASSUME PathsInv, UNCHANGED mbVars PROVE PathsInv'
<1>1. /\ parents' = parents /\ left' = left /\ right' = right /\ answer' = answer
      /\ stage' = stage /\ UNCHANGED searchVars
      /\ UNCHANGED <<toCompose, subgraph, frontier, nextFrontier, stack, visited, partial, composed>>
  BY DEF mbVars, searchVars, args, composeVars
<1>2. PICK c : c = Child
  OBVIOUS
<1>3. Child' = c
  BY <1>1, <1>2 DEF Child
<1>4. Scanning(Child) => Scanning(Child)'
  BY <1>1, <1>2, <1>3 DEF Scanning, Linked
<1>5. StackRevs' = StackRevs /\ Dead' = Dead
  BY <1>1 DEF StackRevs, Dead
<1>6. AllPassed => AllPassed'
  BY <1>1, <1>5 DEF AllPassed, PassedOver
<1>7. Descending => Descending'
  BY <1>1 DEF Descending, Ancestors, UpClosed
<1>8. \A p, m : IsPathTo(p, m)' <=> IsPathTo(p, m)
  BY <1>1, SameComposition
<1>9. Recursing(c) => Recursing(c)'
  BY <1>1, <1>5, <1>6, <1>7, <1>8 DEF Recursing, Linked
<1>10. Recursing(Child) => Recursing(Child)'
  BY <1>2, <1>3, <1>9 DEF Recursing, Linked
<1>11. (NoneComposed => NoneComposed') /\ (OneComposed => OneComposed')
       /\ (AllComposed => AllComposed') /\ (NoActivation => NoActivation')
  BY <1>1, <1>8 DEF NoneComposed, OneComposed, AllComposed, NoActivation
<1>12. ScanBegins(left) => ScanBegins(left)'
  BY <1>1 DEF ScanBegins
<1> QED  BY <1>1, <1>4, <1>10, <1>11, <1>12 DEF PathsInv

LEMMA SearchStepPaths ==
  ASSUME IInv, PathsInv, SearchStep PROVE PathsInv'
<1>1. CASE VisitAncestors \/ VisitDominators \/ NextPass \/ NextRound \/ Found \/ NotFound
  <2>1. SearchFrame /\ stage = "search" /\ stage' \in {"search", "subgraph", "done"}
    BY <1>1 DEF VisitAncestors, VisitDominators, NextPass, NextRound, Found, NotFound, RoundOver,
                SearchFrame, searchVars, args
  <2>2. stage' = "done" => answer' = NullRev
    <3>1. stage' = "done" => answer' = answer
      BY <1>1 DEF VisitAncestors, VisitDominators, NextPass, NextRound, Found, NotFound, RoundOver,
                  searchVars
    <3> QED  BY <2>1, <3>1 DEF IInv, Answered
  <2> QED  BY <2>1, <2>2, SearchPaths
<1> QED  BY <1>1, SameRevisionStep, ExpandFrontierStep, RelevantParentStep, SkipParentStep,
            ExploreParentStep, ExhaustedStep
         DEF SearchStep

LEMMA SearchNextPaths ==
  ASSUME IInv, PathsInv, [SearchNext]_mbVars PROVE PathsInv'
  BY SearchStepPaths, AskPaths, StutterPaths DEF SearchNext

LEMMA StepPaths ==
  ASSUME WalkInv, IInv, PathsInv, [Next]_vars PROVE PathsInv'
<1>1. CASE Update \/ Merge \/ Named
  <2>1. PICK l \in Revisions, r \in Revisions, useLca \in BOOLEAN : Ask(l, r, useLca)
    <3>1. result \subseteq Revisions /\ (walk.op = "update" => walk.base \in Revisions)
      BY DEF WalkInv, WalkTypes
    <3>2. CASE Update
      BY <3>1, <3>2 DEF Update, Returned
    <3>3. CASE Merge
      BY <3>1, <3>3 DEF Merge
    <3>4. CASE Named
      BY <3>1, <3>4 DEF Named
    <3> QED  BY <1>1, <3>2, <3>3, <3>4
  <2> QED  BY <2>1, AskPaths
<1>2. CASE UNCHANGED vars
  BY <1>2, StutterPaths DEF vars
<1> QED  BY <1>1, <1>2, SearchStepPaths, StutterPaths DEF Next

(* PathsWhole: the scan for a subgraph has not returned before a path was  *)
(* in it, and the recursion over it has taken no part of one for           *)
(* irrelevant, so that both change sets lead from the ancestor to their    *)
(* revision (find_subgraph_for_composite_search,                           *)
(* calculate_change_sets_recursive).                                       *)
THEOREM PathsAreWhole == Spec => []PathsWhole
<1>1. Init => PathsInv
  BY InitPaths DEF Init
<1>2. WalkInv /\ IInv /\ PathsInv /\ [Next]_vars => PathsInv'
  BY StepPaths
<1>3. PathsInv => PathsWhole
  BY DEF PathsInv, PathsWhole, AllComposed
<1> QED  BY <1>1, <1>2, <1>3, WalksInvariant, PTL DEF Spec
=============================================================================
