-------------------------- MODULE RefinementProofs --------------------------
(***************************************************************************)
(* What is proved of the refinement of a merkle tree for every fanout,     *)
(* every depth a hash can have, all contents of the two trees and every    *)
(* interleaving of the two peers: no command is refused, the done markers  *)
(* mean that everything has arrived, and nobody hangs up too early.        *)
(***************************************************************************)
EXTENDS Refinement, DataLemmas, FiniteSetTheorems

-----------------------------------------------------------------------------
(* The inductive invariant.                                                *)

TypeOK ==
  /\ role \in Roles
  /\ tree \in [Peers -> SUBSET Ids]
  /\ have \in [Peers -> SUBSET Ids]
  /\ chan \in [Peers -> Seq(Commands)]
  /\ had_refinements \in [Peers -> BOOLEAN]
  /\ tree_is_done \in [Peers -> BOOLEAN]
  /\ requested \in [Peers -> SUBSET Ids]
  /\ received \in [Peers -> SUBSET Ids]
  /\ sent_goodbye \in [Peers -> BOOLEAN]
  /\ received_goodbye \in [Peers -> BOOLEAN]

(* What may be on its way to p: nodes of the other side's tree or of less, *)
(* requests for what p has, by a side that may ask, and data for a side    *)
(* that takes it; nobody is ever told that something does not exist.       *)
Valid(p, m) ==
  /\ m.cmd = "refine" =>
       Len(m.pref) < Depth
       /\ \A s \in Slots : m.slots[s] \subseteq Below(tree[Other(p)], Extended(m.pref, s))
  /\ m.cmd = "send_data" => m.item \in tree[p] /\ IsSource(p)
  /\ m.cmd = "data" => m.item \in tree[Other(p)] /\ IsSink(p)
  /\ m.cmd # "nonexistant"

ContentsValid == \A p \in Peers : \A m \in Elems(chan[p]) : Valid(p, m)

Holdings ==
  \A p \in Peers :
    /\ tree[p] \subseteq have[p] /\ have[p] \subseteq tree[p] \cup tree[Other(p)]
    /\ role[p] = "source" => have[p] = tree[p]
    /\ received[p] \subseteq have[p]

(* What p has asked for is asked for or on its way.                        *)
Requests ==
  \A p \in Peers : \A x \in requested[p] :
    SendData(x) \in Elems(chan[Other(p)]) \/ Data(x) \in Elems(chan[p])

(* An item of the other side is here, on its way, asked for, named in a    *)
(* node on its way here, or below a node sent to the other side that the   *)
(* other side has too.                                                     *)
Expected(p, x) ==
  \/ x \in have[p]
  \/ Data(x) \in Elems(chan[p])
  \/ SendData(x) \in Elems(chan[Other(p)])
  \/ \E m \in Elems(chan[p]) : m.cmd = "refine" /\ \E s \in Slots : x \in m.slots[s]
  \/ \E m \in Elems(chan[Other(p)]) :
       m.cmd = "refine" /\ NodeExists(Other(p), m.pref) /\ x \in Below(Ids, m.pref)

NothingLost ==
  \A p \in Peers : IsSink(p) => \A x \in tree[Other(p)] : Expected(p, x)

IsToken(p, k) == k \in DOMAIN chan[p] /\ chan[p][k].cmd = "done"
Asking(m) == m.cmd \in {"refine", "send_data"}
Bearing(m) == m.cmd \in {"refine", "send_data", "data"}

(* There is one done marker at most, and none only when both are done.     *)
OneToken ==
  /\ \A p, q \in Peers : \A k \in DOMAIN chan[p], j \in DOMAIN chan[q] :
       IsToken(p, k) /\ IsToken(q, j) => p = q /\ k = j
  /\ (\A p \in Peers : \A k \in DOMAIN chan[p] : ~IsToken(p, k)) =>
       \A p \in Peers : tree_is_done[p]

(* While the marker is on its way to p, what is on its way to the other    *)
(* side, or to p behind the marker, was caused by refinements p has seen   *)
(* since it last sent the marker on.                                       *)
TokenMeans ==
  \A p \in Peers : \A k \in DOMAIN chan[p] : IsToken(p, k) =>
    LET q == Other(p)
        level == chan[p][k].level
    IN  /\ \A i \in DOMAIN chan[q] : Asking(chan[q][i]) => had_refinements[p]
        /\ \A i \in DOMAIN chan[p] : i > k /\ Asking(chan[p][i]) => had_refinements[q]
        /\ \A i \in DOMAIN chan[p] : i > k /\ Bearing(chan[p][i]) => had_refinements[p]
        /\ had_refinements[q] => had_refinements[p]
        /\ tree_is_done[p] => tree_is_done[q]

(* The levels the markers count are those of the nodes in flight.          *)
TokenLevel ==
  \A p \in Peers : \A k \in DOMAIN chan[p] : IsToken(p, k) =>
    LET q == Other(p)
        level == chan[p][k].level
    IN  /\ \A i \in DOMAIN chan[p] : chan[p][i].cmd = "refine" =>
             Len(chan[p][i].pref) >= IF i < k THEN level ELSE level + 2
        /\ \A i \in DOMAIN chan[q] : chan[q][i].cmd = "refine" =>
             Len(chan[q][i].pref) >= level + 1
        /\ had_refinements[p] => level < Depth
        /\ had_refinements[q] => level + 1 < Depth

(* Once a side is done nobody refines and nobody asks.                     *)
DoneIsQuiet ==
  (\E p \in Peers : tree_is_done[p]) =>
    \A p \in Peers : ~had_refinements[p] /\ \A m \in Elems(chan[p]) : ~Asking(m)

(* A goodbye follows all data.                                             *)
Goodbyes ==
  \A p \in Peers :
    LET q == Other(p)
    IN  /\ sent_goodbye[q] => tree_is_done[q] /\ requested[q] = {}
        /\ received_goodbye[p] => sent_goodbye[q] /\ \A m \in Elems(chan[p]) : m.cmd # "data"
        /\ \A i \in DOMAIN chan[p] : chan[p][i].cmd = "bye" =>
             sent_goodbye[q]
             /\ \A j \in DOMAIN chan[p] : j > i => chan[p][j].cmd # "data"

Complete ==
  \A p \in Peers : tree_is_done[p] /\ IsSink(p) => tree[Other(p)] \subseteq have[p]

Inv ==
  /\ TypeOK /\ ContentsValid /\ Holdings /\ Requests /\ NothingLost
  /\ OneToken /\ TokenMeans /\ TokenLevel /\ DoneIsQuiet /\ Goodbyes /\ Complete
-----------------------------------------------------------------------------
(* Prefixes, and the items below them.                                     *)

LEMMA PrefixOf ==
  ASSUME NEW x \in Ids, NEW n \in 0..Depth
  PROVE  /\ Prefix(x, n) \in Seq(Slots) /\ Len(Prefix(x, n)) = n
         /\ \A i \in 1..n : Prefix(x, n)[i] = x[i] /\ x[i] \in Slots
<1>1. x \in [1..Depth -> Slots] /\ Depth \in Nat
  BY IdsTyped
<1>2. \A i \in 1..n : x[i] \in Slots
  BY <1>1
<1>3. /\ SubSeq(x, 1, n) \in Seq(Slots)
      /\ Len(SubSeq(x, 1, n)) = IF 1 <= n THEN n - 1 + 1 ELSE 0
      /\ \A i \in 1 .. n - 1 + 1 : SubSeq(x, 1, n)[i] = x[1 + i - 1]
  <2>1. 1 \in Int /\ n \in Int
    OBVIOUS
  <2> QED  BY <1>2, <2>1, SubSeqProperties
<1> QED  BY <1>2, <1>3 DEF Prefix

(* What is below a prefix starts with it, digit by digit.                  *)
LEMMA BelowDigits ==
  ASSUME NEW S \in SUBSET Ids, NEW pref \in Seq(Slots), Len(pref) <= Depth, NEW x \in S
  PROVE  x \in Below(S, pref) <=> \A i \in 1..Len(pref) : x[i] = pref[i]
<1>1. Len(pref) \in 0..Depth /\ x \in Ids
  BY IdsTyped
<1>2. /\ Prefix(x, Len(pref)) \in Seq(Slots) /\ Len(Prefix(x, Len(pref))) = Len(pref)
      /\ \A i \in 1..Len(pref) : Prefix(x, Len(pref))[i] = x[i]
  BY <1>1, PrefixOf
<1>3. Prefix(x, Len(pref)) = pref <=> \A i \in 1..Len(pref) : x[i] = pref[i]
  <2>1. ASSUME \A i \in 1..Len(pref) : x[i] = pref[i] PROVE Prefix(x, Len(pref)) = pref
    BY <1>2, <2>1, SeqEqual
  <2> QED  BY <1>2, <2>1
<1> QED  BY <1>3 DEF Below

LEMMA ExtendedPrefix ==
  ASSUME NEW pref \in Seq(Slots), NEW s \in Slots
  PROVE  /\ Extended(pref, s) \in Seq(Slots) /\ Len(Extended(pref, s)) = Len(pref) + 1
         /\ \A i \in 1..Len(pref) : Extended(pref, s)[i] = pref[i]
         /\ Extended(pref, s)[Len(pref) + 1] = s
  BY AppendProperties DEF Extended

(* The slots of a node share out what is below its prefix.                 *)
LEMMA BelowSlots ==
  ASSUME NEW S \in SUBSET Ids, NEW pref \in Seq(Slots), Len(pref) < Depth
  PROVE  /\ \A s \in Slots : Below(S, Extended(pref, s)) \subseteq Below(S, pref)
         /\ \A x \in Below(S, pref) : \E s \in Slots : x \in Below(S, Extended(pref, s))
<1>0. Depth \in Nat /\ Len(pref) \in Nat /\ Len(pref) <= Depth /\ Len(pref) + 1 <= Depth
  BY IdsTyped
<1>1. ASSUME NEW s \in Slots, NEW x \in Below(S, Extended(pref, s)) PROVE x \in Below(S, pref)
  <2>1. x \in S
    BY <1>1 DEF Below
  <2>2. Len(Extended(pref, s)) <= Depth /\ Extended(pref, s) \in Seq(Slots)
    BY <1>0, ExtendedPrefix
  <2>3. \A i \in 1..Len(Extended(pref, s)) : x[i] = Extended(pref, s)[i]
    BY <1>1, <2>1, <2>2, BelowDigits
  <2>4. \A i \in 1..Len(pref) : x[i] = pref[i]
    BY <1>0, <2>3, ExtendedPrefix
  <2> QED  BY <1>0, <2>1, <2>4, BelowDigits
<1>2. ASSUME NEW x \in Below(S, pref)
      PROVE  \E s \in Slots : x \in Below(S, Extended(pref, s))
  <2>1. x \in S /\ x \in [1..Depth -> Slots]
    BY <1>2, IdsTyped DEF Below
  <2>2. PICK s \in Slots : s = x[Len(pref) + 1]
    BY <1>0, <2>1
  <2>3. Len(Extended(pref, s)) <= Depth /\ Extended(pref, s) \in Seq(Slots)
    BY <1>0, <2>2, ExtendedPrefix
  <2>4. \A i \in 1..Len(pref) : x[i] = pref[i]
    BY <1>0, <1>2, <2>1, BelowDigits
  <2>5. \A i \in 1..Len(Extended(pref, s)) : x[i] = Extended(pref, s)[i]
    <3> DEFINE e == Extended(pref, s)
    <3>1. /\ Len(e) = Len(pref) + 1 /\ e[Len(pref) + 1] = s
          /\ \A i \in 1..Len(pref) : e[i] = pref[i]
      BY <2>2, ExtendedPrefix
    <3> HIDE DEF e
    <3>2. \A i \in 1..Len(e) : x[i] = e[i]
      BY <1>0, <2>2, <2>4, <3>1
    <3> QED  BY <3>2 DEF e
  <2>6. x \in Below(S, Extended(pref, s))
    BY <2>1, <2>3, <2>5, BelowDigits
  <2> QED  BY <2>2, <2>6
<1> QED  BY <1>1, <1>2

LEMMA BelowMonotonic ==
  ASSUME NEW S, NEW T, S \subseteq T, NEW pref
  PROVE  Below(S, pref) \subseteq Below(T, pref) /\ Below(S, pref) \subseteq S
  BY DEF Below

(* A set of items is empty, a leaf or a subtree.                           *)
LEMMA SlotStates ==
  ASSUME NEW S \in SUBSET Ids
  PROVE  /\ IsLeaf(S) => S = {CHOOSE x \in S : TRUE}
         /\ ~(IsLeaf(S) /\ IsSubtree(S))
         /\ S # {} => IsLeaf(S) \/ IsSubtree(S)
         /\ IsLeaf(S) \/ IsSubtree(S) => S # {}
         /\ IsSubtree(S) => \E x, y \in S : x # y
         /\ \A T \in SUBSET S : IsSubtree(T) => IsSubtree(S)
<1>1. IsFiniteSet(S) /\ Cardinality(S) \in Nat /\ (Cardinality(S) = 0 <=> S = {})
  BY IdsTyped, FS_Subset, FS_EmptySet, FS_CardinalityType
<1>2. Cardinality(S) = 1 <=> \E x : S = {x}
  BY <1>1, FS_Singleton
<1>3. IsLeaf(S) => S = {CHOOSE x \in S : TRUE}
  BY <1>2 DEF IsLeaf
<1>4. ASSUME IsSubtree(S) PROVE \E x, y \in S : x # y
  <2>1. Cardinality(S) # 0 /\ Cardinality(S) # 1
    BY <1>1, <1>4 DEF IsSubtree
  <2>2. PICK x \in S : TRUE
    BY <1>1, <2>1
  <2>3. S # {x}
    BY <1>2, <2>1
  <2> QED  BY <2>2, <2>3
<1>5. ASSUME NEW T \in SUBSET S, IsSubtree(T) PROVE IsSubtree(S)
  <2>1. IsFiniteSet(T) /\ Cardinality(T) <= Cardinality(S) /\ Cardinality(T) \in Nat
    BY <1>1, FS_Subset, FS_CardinalityType
  <2> QED  BY <1>1, <1>5, <2>1 DEF IsSubtree
<1> QED  BY <1>1, <1>3, <1>4, <1>5 DEF IsLeaf, IsSubtree

LEMMA LeafItem ==
  ASSUME NEW S \in SUBSET Ids, IsLeaf(S)
  PROVE  \E x \in S : S = {x} /\ (CHOOSE y \in S : TRUE) = x
<1> DEFINE x == CHOOSE y \in S : TRUE
<1>1. S = {x}
  BY SlotStates
<1>2. x \in S
  <2> HIDE DEF x
  <2> QED  BY <1>1
<1> QED  BY <1>1, <1>2, Zenon

(* Two items part before their last digit, so a subtree is not at a leaf's *)
(* depth.                                                                  *)
LEMMA SubtreeIsShallow ==
  ASSUME NEW S \in SUBSET Ids, NEW pref \in Seq(Slots), Len(pref) <= Depth,
         NEW T \in SUBSET Below(S, pref), IsSubtree(T)
  PROVE  Len(pref) < Depth
<1>0. Depth \in Nat /\ Len(pref) \in Nat /\ T \in SUBSET S
  BY IdsTyped DEF Below
<1>1. PICK x \in T, y \in T : x # y
  BY <1>0, SlotStates
<1>2. SUFFICES ASSUME Len(pref) = Depth PROVE x = y
  BY <1>0, <1>1
<1>3. \A i \in 1..Depth : x[i] = pref[i] /\ y[i] = pref[i]
  BY <1>0, <1>2, BelowDigits
<1>4. x \in [1..Depth -> Slots] /\ y \in [1..Depth -> Slots]
  BY <1>0, IdsTyped
<1>5. x = [i \in 1..Depth |-> pref[i]] /\ y = [i \in 1..Depth |-> pref[i]]
  BY <1>3, <1>4
<1> QED  BY <1>5
-----------------------------------------------------------------------------
(* The reply to a node.                                                    *)

LEMMA PeersOpposed ==
  ASSUME TypeOK, NEW p \in Peers
  PROVE  /\ Other(p) \in Peers /\ Other(p) # p /\ Other(Other(p)) = p
         /\ role[p] \in {"source", "sink", "both"}
         /\ role[p] # "source" <=> IsSource(Other(p))
         /\ role[p] # "sink" <=> IsSink(Other(p))
         /\ IsSink(p) <=> role[p] # "source"
         /\ IsSource(p) <=> role[p] # "sink"
<1>1. Other(p) \in Peers /\ Other(p) # p /\ Other(Other(p)) = p
  BY DEF Peers, Other
<1>2. /\ role[p] \in {"source", "sink", "both"} /\ role[Other(p)] \in {"source", "sink", "both"}
      /\ role[p] = "source" <=> role[Other(p)] = "sink"
      /\ role[Other(p)] = "source" <=> role[p] = "sink"
  BY <1>1, RolesTyped DEF TypeOK
<1> QED  BY <1>1, <1>2 DEF IsSink, IsSource

LEMMA CommandsTyped ==
  /\ \A x \in Ids : SendData(x) \in Commands /\ Data(x) \in Commands /\ Nonexistant(x) \in Commands
  /\ \A n \in Nat : Done(n) \in Commands
  /\ \A S \in SUBSET Ids, pref \in Seq(Slots) : Refine(S, pref) \in Commands
  /\ Bye \in Commands
<1>1. \A S \in SUBSET Ids, pref \in Seq(Slots) : Refine(S, pref) \in Commands
  <2> SUFFICES ASSUME NEW S \in SUBSET Ids, NEW pref \in Seq(Slots) PROVE Refine(S, pref) \in Commands
    OBVIOUS
  <2>1. [s \in Slots |-> Below(S, Extended(pref, s))] \in [Slots -> SUBSET Ids]
    BY DEF Below
  <2> QED  BY <2>1 DEF Refine, Commands
<1> QED  BY <1>1 DEF Commands, SendData, Data, Nonexistant, Done, Bye

(* The reply for one slot: no more than p may send; what the other side    *)
(* has there is here, asked for or refined further, and what p has there   *)
(* is there, sent or refined further.                                      *)
LEMMA SlotReplied ==
  ASSUME TypeOK, NEW p \in Peers, NEW pref \in Seq(Slots), Len(pref) < Depth,
         NEW s \in Slots, NEW theirs \in SUBSET Below(tree[Other(p)], Extended(pref, s))
  PROVE  LET q == Other(p)
             out == SlotReply(p, pref, s, theirs)
         IN  /\ out \in Seq(Commands)
             /\ \A m \in Elems(out) :
                  /\ Bearing(m) /\ Valid(q, m)
                  /\ m.cmd = "refine" => Len(m.pref) = Len(pref) + 1
             /\ \A x \in theirs \ tree[p] : IsSink(p) =>
                  \/ x \in have[p] \cup requested[p] \cup received[p]
                  \/ SendData(x) \in Elems(out)
                  \/ \E m \in Elems(out) :
                       m.cmd = "refine" /\ NodeExists(q, m.pref) /\ x \in Below(Ids, m.pref)
             /\ \A x \in Below(tree[p], Extended(pref, s)) \ tree[q] :
                  NodeExists(p, pref) /\ IsSource(p) =>
                    \/ Data(x) \in Elems(out)
                    \/ \E m \in Elems(out) : m.cmd = "refine" /\ \E t \in Slots : x \in m.slots[t]
<1> DEFINE q == Other(p)
           ext == Extended(pref, s)
           ours == IF NodeExists(p, pref) THEN Below(tree[p], ext) ELSE {}
           wanted == IsLeaf(theirs) /\ theirs # ours
                       /\ (IsSubtree(ours) => theirs \cap have[p] = {})
           want == IF wanted THEN QueueSendData(p, CHOOSE x \in theirs : TRUE) ELSE <<>>
           given == IsLeaf(ours) /\ theirs # ours /\ ~IsSubtree(theirs)
           give == IF given THEN QueueData(p, CHOOSE x \in ours : TRUE) ELSE <<>>
           further == (IsSubtree(ours) \/ IsSubtree(theirs)) /\ theirs # ours
           more == IF further THEN <<Refine(ours, ext)>> ELSE <<>>
           out == SlotReply(p, pref, s, theirs)
<1>1. out = (want \o give) \o more
  BY DEF SlotReply
<1>2. /\ tree[p] \in SUBSET Ids /\ tree[q] \in SUBSET Ids /\ q \in Peers
      /\ ours \in SUBSET Ids /\ theirs \in SUBSET Ids
      /\ ours \subseteq Below(tree[p], ext) /\ ours \subseteq tree[p] /\ theirs \subseteq tree[q]
  BY PeersOpposed DEF TypeOK, Below
<1>3. ext \in Seq(Slots) /\ Len(ext) = Len(pref) + 1 /\ Len(ext) <= Depth
      /\ Len(ext) \in Nat /\ Depth \in Nat
  <2>1. Depth \in Nat /\ Len(pref) \in Nat /\ Len(pref) + 1 <= Depth
    BY IdsTyped
  <2> QED  BY <2>1, ExtendedPrefix
<1>4. further => Len(ext) < Depth
  BY <1>2, <1>3, SubtreeIsShallow
<1>5. ASSUME wanted PROVE \E x \in theirs : theirs = {x} /\ want = QueueSendData(p, x)
  <2> HIDE DEF ours
  <2>1. PICK x \in theirs : theirs = {x} /\ (CHOOSE y \in theirs : TRUE) = x
    BY <1>2, <1>5, LeafItem
  <2> QED  BY <1>5, <2>1
<1>6. ASSUME given PROVE \E x \in ours : ours = {x} /\ give = QueueData(p, x)
  <2> HIDE DEF ours
  <2>1. PICK x \in ours : ours = {x} /\ (CHOOSE y \in ours : TRUE) = x
    BY <1>2, <1>6, LeafItem
  <2> QED  BY <1>6, <2>1
<1>7. /\ (want = <<>>) \/ (\E x \in theirs : want = <<SendData(x)>> /\ role[p] # "source")
      /\ (give = <<>>) \/ (\E x \in ours : give = <<Data(x)>> /\ role[p] # "sink")
      /\ (more = <<>>) \/ (more = <<Refine(ours, ext)>> /\ Len(ext) < Depth)
  <2>1. (want = <<>>) \/ (\E x \in theirs : want = <<SendData(x)>> /\ role[p] # "source")
    <3>1. CASE ~wanted
      BY <3>1
    <3>2. CASE wanted
      <4> HIDE DEF want, wanted
      <4> QED  BY <1>5, <3>2 DEF QueueSendData
    <3> QED  BY <3>1, <3>2
  <2>2. (give = <<>>) \/ (\E x \in ours : give = <<Data(x)>> /\ role[p] # "sink")
    <3>1. CASE ~given
      BY <3>1
    <3>2. CASE given
      <4> HIDE DEF give, given
      <4> QED  BY <1>6, <3>2 DEF QueueData
    <3> QED  BY <3>1, <3>2
  <2>3. (more = <<>>) \/ (more = <<Refine(ours, ext)>> /\ Len(ext) < Depth)
    BY <1>4
  <2> QED  BY <2>1, <2>2, <2>3
<1>8. want \in Seq(Commands) /\ give \in Seq(Commands) /\ more \in Seq(Commands)
  <2> HIDE DEF want, give, more, ours, ext
  <2>1. \A m \in Commands : <<m>> \in Seq(Commands)
    OBVIOUS
  <2>2. <<>> \in Seq(Commands)
    OBVIOUS
  <2> QED  BY <1>2, <1>3, <1>7, <2>1, <2>2, CommandsTyped
<1>9. out \in Seq(Commands) /\ Elems(out) = Elems(want) \cup Elems(give) \cup Elems(more)
  <2> HIDE DEF want, give, more, out
  <2>1. want \o give \in Seq(Commands) /\ Elems(want \o give) = Elems(want) \cup Elems(give)
    BY <1>8, ElemsConcat
  <2> DEFINE both == want \o give
  <2>2. both \o more \in Seq(Commands) /\ Elems(both \o more) = Elems(both) \cup Elems(more)
    <3>1. both \in Seq(Commands)
      BY <2>1
    <3> HIDE DEF both
    <3> QED  BY <1>8, <3>1, ElemsConcat
  <2> QED  BY <1>1, <2>1, <2>2
<1>10. Elems(<<>>) = {} /\ \A m : Elems(<<m>>) = {m}
  BY DEF Elems
<1>11. ASSUME NEW m \in Elems(out)
       PROVE  Bearing(m) /\ Valid(q, m) /\ (m.cmd = "refine" => Len(m.pref) = Len(pref) + 1)
  <2>1. CASE m \in Elems(want)
    <3>1. PICK x \in theirs : m = SendData(x) /\ role[p] # "source"
      <4> HIDE DEF want
      <4> QED  BY <1>7, <1>10, <2>1
    <3> QED  BY <1>2, <3>1, PeersOpposed DEF SendData, Bearing, Valid
  <2>2. CASE m \in Elems(give)
    <3>1. PICK x \in ours : m = Data(x) /\ role[p] # "sink"
      <4> HIDE DEF give
      <4> QED  BY <1>7, <1>10, <2>2
    <3> QED  BY <1>2, <3>1, PeersOpposed DEF Data, Bearing, Valid
  <2>3. CASE m \in Elems(more)
    <3>1. m = Refine(ours, ext) /\ Len(ext) < Depth
      <4> HIDE DEF more
      <4> QED  BY <1>7, <1>10, <2>3
    <3>2. \A t \in Slots : Below(ours, Extended(ext, t)) \subseteq Below(tree[p], Extended(ext, t))
      BY <1>2, BelowMonotonic
    <3>3. m.cmd = "refine" /\ m.pref = ext /\ \A t \in Slots : m.slots[t] = Below(ours, Extended(ext, t))
      BY <3>1 DEF Refine
    <3> QED  BY <1>3, <3>1, <3>2, <3>3, PeersOpposed DEF Bearing, Valid
  <2> QED  BY <1>9, <1>11, <2>1, <2>2, <2>3
<1>12. further => Refine(ours, ext) \in Elems(out)
  BY <1>9, <1>10
<1>13. ASSUME NEW x \in theirs \ tree[p], IsSink(p)
       PROVE  \/ x \in have[p] \cup requested[p] \cup received[p]
              \/ SendData(x) \in Elems(out)
              \/ \E m \in Elems(out) :
                   m.cmd = "refine" /\ NodeExists(q, m.pref) /\ x \in Below(Ids, m.pref)
  <2>1. theirs # ours
    BY <1>2
  <2>2. CASE IsLeaf(theirs)
    <3>1. theirs = {x}
      BY <1>2, <1>13, <2>2, LeafItem
    <3>2. x \in have[p] \/ wanted
      BY <2>1, <2>2, <3>1
    <3>3. wanted => want = QueueSendData(p, x)
      BY <1>5, <3>1
    <3>4. want = <<SendData(x)>> => SendData(x) \in Elems(out)
      <4> HIDE DEF want, out
      <4> QED  BY <1>9, <1>10
    <3>5. role[p] # "source"
      BY <1>13, PeersOpposed
    <3> QED  BY <3>2, <3>3, <3>4, <3>5 DEF QueueSendData
  <2>3. CASE IsSubtree(theirs)
    <3> DEFINE m == Refine(ours, ext)
    <3>1. m \in Elems(out) /\ m.cmd = "refine" /\ m.pref = ext
      BY <1>12, <2>1, <2>3 DEF Refine
    <3>2. IsSubtree(Below(tree[q], ext))
      BY <1>2, <2>3, SlotStates DEF Below
    <3>3. x \in Below(Ids, ext)
      BY <1>2 DEF Below
    <3> HIDE DEF m, out, ext
    <3> QED  BY <3>1, <3>2, <3>3 DEF NodeExists
  <2> QED  BY <1>2, <2>2, <2>3, SlotStates
<1>14. ASSUME NEW x \in Below(tree[p], ext) \ tree[q], NodeExists(p, pref), IsSource(p)
       PROVE  \/ Data(x) \in Elems(out)
              \/ \E m \in Elems(out) : m.cmd = "refine" /\ \E t \in Slots : x \in m.slots[t]
  <2>1. x \in ours /\ theirs # ours /\ ours = Below(tree[p], ext)
    BY <1>2, <1>14
  <2>2. CASE further
    <3> DEFINE m == Refine(ours, ext)
    <3>1. m \in Elems(out) /\ m.cmd = "refine"
          /\ \A t \in Slots : m.slots[t] = Below(ours, Extended(ext, t))
      BY <1>12, <2>2 DEF Refine
    <3>2. x \in Below(ours, ext)
      BY <2>1 DEF Below
    <3>3. \E t \in Slots : x \in Below(ours, Extended(ext, t))
      <4> HIDE DEF ours, ext
      <4> QED  BY <1>2, <1>3, <1>4, <2>2, <3>2, BelowSlots
    <3> HIDE DEF m, out, ext, ours
    <3> QED  BY <3>1, <3>3
  <2>3. CASE ~further
    <3>1. IsLeaf(ours) /\ ~IsSubtree(theirs)
      BY <1>2, <2>1, <2>3, SlotStates
    <3>2. ours = {x} /\ given
      <4> HIDE DEF ours
      <4>1. ours = {x}
        BY <1>2, <2>1, <3>1, LeafItem
      <4> QED  BY <2>1, <3>1, <4>1
    <3>3. give = QueueData(p, x)
      BY <1>6, <3>2
    <3>4. role[p] # "sink"
      BY <1>14, PeersOpposed
    <3>5. give = <<Data(x)>>
      BY <3>3, <3>4 DEF QueueData
    <3> HIDE DEF give, out
    <3> QED  BY <1>9, <1>10, <3>5
  <2> QED  BY <2>2, <2>3
<1> HIDE DEF out
<1> QED  BY <1>9, <1>11, <1>13, <1>14 DEF out
(* The whole reply: the same for all slots of the node.                    *)
Replied(p, n, out) ==
  LET q == Other(p)
  IN  /\ out \in Seq(Commands)
      /\ \A m \in Elems(out) :
           /\ Bearing(m) /\ Valid(q, m)
           /\ m.cmd = "refine" => Len(m.pref) = Len(n.pref) + 1
      /\ IsSink(p) =>
           \A s \in Slots : \A x \in n.slots[s] :
             \/ x \in tree[p] \cup have[p] \cup requested[p] \cup received[p]
             \/ SendData(x) \in Elems(out)
             \/ \E m \in Elems(out) :
                  m.cmd = "refine" /\ NodeExists(q, m.pref) /\ x \in Below(Ids, m.pref)
      /\ NodeExists(p, n.pref) /\ IsSource(p) =>
           \A x \in tree[p] \cap Below(Ids, n.pref) :
             \/ x \in tree[q]
             \/ Data(x) \in Elems(out)
             \/ \E m \in Elems(out) : m.cmd = "refine" /\ \E t \in Slots : x \in m.slots[t]

LEMMA RefineReplied ==
  ASSUME TypeOK, NEW p \in Peers, NEW n \in Commands, n.cmd = "refine", Valid(p, n)
  PROVE  Replied(p, n, RefineReply(p, n))
<1> DEFINE q == Other(p)
           parts == [s \in 1..Fanout |-> SlotReply(p, n.pref, s, n.slots[s])]
           out == RefineReply(p, n)
<1>1. n.pref \in Seq(Slots) /\ n.slots \in [Slots -> SUBSET Ids] /\ Len(n.pref) < Depth
      /\ \A s \in Slots : n.slots[s] \in SUBSET Below(tree[q], Extended(n.pref, s))
  <2>1. n \in [cmd : {"refine"}, pref : Seq(Slots), slots : [Slots -> SUBSET Ids]]
    BY DEF Commands, Bye
  <2> QED  BY <2>1 DEF Valid
<1>2. Slots = 1..Fanout /\ Fanout \in Nat
  BY IdsTyped DEF Slots
<1>3. \A s \in Slots : parts[s] = SlotReply(p, n.pref, s, n.slots[s])
  BY <1>2
<1>4. \A s \in Slots : parts[s] \in Seq(Commands)
  BY <1>1, <1>3, SlotReplied
<1>5. parts \in [1..Fanout -> Seq(Commands)]
  BY <1>2, <1>4
<1>6. out \in Seq(Commands) /\ Elems(out) = UNION {Elems(parts[s]) : s \in Slots}
  <2> DEFINE E(u) == u = [k \in 0..Fanout |->
                           IF k = 0 THEN <<>> ELSE u[k-1] \o SlotReply(p, n.pref, k, n.slots[k])]
  <2>1. \A u : E(u) <=> Appending(u, Fanout, parts)
    <3> SUFFICES ASSUME NEW u PROVE E(u) <=> Appending(u, Fanout, parts)
      OBVIOUS
    <3>1. \A k \in 0..Fanout :
            (IF k = 0 THEN <<>> ELSE u[k-1] \o SlotReply(p, n.pref, k, n.slots[k]))
              = (IF k = 0 THEN <<>> ELSE u[k-1] \o parts[k])
      BY <1>2, <1>3
    <3>2. [k \in 0..Fanout |->
             IF k = 0 THEN <<>> ELSE u[k-1] \o SlotReply(p, n.pref, k, n.slots[k])]
            = [k \in 0..Fanout |-> IF k = 0 THEN <<>> ELSE u[k-1] \o parts[k]]
      <4> HIDE DEF parts
      <4> QED  BY <3>1, Zenon
    <3> HIDE DEF parts
    <3> QED  BY <3>2 DEF Appending
  <2>2. \E u : E(u)
    <3> HIDE DEF parts, E
    <3> QED  BY <1>2, <1>5, <2>1, AppendingExists
  <2> DEFINE upto == CHOOSE u : E(u)
  <2>3. E(upto)
    <3> HIDE DEF E
    <3> QED  BY <2>2
  <2>4. out = upto[Fanout]
    BY DEF RefineReply
  <2>5. Appending(upto, Fanout, parts)
    <3> HIDE DEF E, parts, upto
    <3> QED  BY <2>1, <2>3
  <2> HIDE DEF E, parts, upto, out
  <2> QED  BY <1>2, <1>5, <2>4, <2>5, AppendingElems
<1>7. ASSUME NEW s \in Slots
      PROVE  /\ \A m \in Elems(parts[s]) :
                  /\ Bearing(m) /\ Valid(q, m)
                  /\ m.cmd = "refine" => Len(m.pref) = Len(n.pref) + 1
             /\ \A x \in n.slots[s] \ tree[p] : IsSink(p) =>
                  \/ x \in have[p] \cup requested[p] \cup received[p]
                  \/ SendData(x) \in Elems(parts[s])
                  \/ \E m \in Elems(parts[s]) :
                       m.cmd = "refine" /\ NodeExists(q, m.pref) /\ x \in Below(Ids, m.pref)
             /\ \A x \in Below(tree[p], Extended(n.pref, s)) \ tree[q] :
                  NodeExists(p, n.pref) /\ IsSource(p) =>
                    \/ Data(x) \in Elems(parts[s])
                    \/ \E m \in Elems(parts[s]) :
                         m.cmd = "refine" /\ \E t \in Slots : x \in m.slots[t]
  <2> HIDE DEF parts
  <2> QED  BY <1>1, <1>3, SlotReplied
<1>8. \A s \in Slots : Elems(parts[s]) \subseteq Elems(out)
  <2> HIDE DEF parts, out
  <2> QED  BY <1>6
<1>9. \A m \in Elems(out) : \E s \in Slots : m \in Elems(parts[s])
  <2> HIDE DEF parts, out
  <2> QED  BY <1>6
<1>10. \A x \in tree[p] \cap Below(Ids, n.pref) :
         \E s \in Slots : x \in Below(tree[p], Extended(n.pref, s))
  <2>1. tree[p] \in SUBSET Ids
    BY DEF TypeOK
  <2>2. tree[p] \cap Below(Ids, n.pref) = Below(tree[p], n.pref)
    BY <2>1 DEF Below
  <2> QED  BY <1>1, <2>1, <2>2, BelowSlots
<1> HIDE DEF parts, out
<1>11. \A m \in Elems(out) :
         /\ Bearing(m) /\ Valid(q, m)
         /\ m.cmd = "refine" => Len(m.pref) = Len(n.pref) + 1
  BY <1>7, <1>9
<1>12. ASSUME IsSink(p), NEW s \in Slots, NEW x \in n.slots[s]
       PROVE  \/ x \in tree[p] \cup have[p] \cup requested[p] \cup received[p]
              \/ SendData(x) \in Elems(out)
              \/ \E m \in Elems(out) :
                   m.cmd = "refine" /\ NodeExists(q, m.pref) /\ x \in Below(Ids, m.pref)
  BY <1>7, <1>8, <1>12
<1>13. ASSUME NodeExists(p, n.pref), IsSource(p), NEW x \in tree[p] \cap Below(Ids, n.pref)
       PROVE  \/ x \in tree[q]
              \/ Data(x) \in Elems(out)
              \/ \E m \in Elems(out) : m.cmd = "refine" /\ \E t \in Slots : x \in m.slots[t]
  <2>1. PICK s \in Slots : x \in Below(tree[p], Extended(n.pref, s))
    BY <1>10
  <2> QED  BY <1>7, <1>8, <1>13, <2>1
<1> QED  BY <1>6, <1>11, <1>12, <1>13 DEF Replied, out
-----------------------------------------------------------------------------
(* What every step does to the channels and the goodbyes, index by index.  *)
Moved(p, out) ==
  LET q == Other(p)
      bye == tree_is_done'[p] /\ requested'[p] = {} /\ ~sent_goodbye[p]
  IN  /\ role' = role /\ tree' = tree
      /\ chan' \in [Peers -> Seq(Commands)]
      /\ sent_goodbye' \in [Peers -> BOOLEAN]
      /\ sent_goodbye'[q] = sent_goodbye[q]
      /\ sent_goodbye'[p] <=> sent_goodbye[p] \/ bye
      /\ Len(chan[q]) \in Nat /\ DOMAIN chan[q] = 1..Len(chan[q])
      /\ \A i \in DOMAIN chan[p] : i = 1 \/ i - 1 \in DOMAIN chan'[p]
      /\ \A i \in DOMAIN chan'[p] :
           i \in Nat \ {0} /\ i + 1 \in DOMAIN chan[p] /\ chan'[p][i] = chan[p][i+1]
      /\ \A i \in DOMAIN chan[q] : i \in DOMAIN chan'[q] /\ chan'[q][i] = chan[q][i]
      /\ \A i \in DOMAIN chan'[q] :
           \/ i \in DOMAIN chan[q]
           \/ i > Len(chan[q]) /\ i - Len(chan[q]) \in DOMAIN out
                /\ chan'[q][i] = out[i - Len(chan[q])]
           \/ i > Len(chan[q]) /\ i = Len(chan[q]) + Len(out) + 1 /\ bye /\ chan'[q][i] = Bye
      /\ \A i \in DOMAIN out :
           i + Len(chan[q]) \in DOMAIN chan'[q] /\ chan'[q][i + Len(chan[q])] = out[i]
      /\ Elems(chan[p]) \subseteq {Head(chan[p])} \cup Elems(chan'[p])
      /\ Elems(chan'[p]) \subseteq Elems(chan[p])
      /\ Elems(chan[q]) \cup Elems(out) \subseteq Elems(chan'[q])
      /\ Elems(chan'[q]) \subseteq Elems(chan[q]) \cup Elems(out) \cup {Bye}
      /\ 1 \in DOMAIN chan[p] /\ chan[p][1] = Head(chan[p])
      /\ Head(chan[p]) \in Commands /\ Head(chan[p]) \in Elems(chan[p])

LEMMA Moves ==
  ASSUME TypeOK, NEW p \in Peers, chan[p] # <<>>, NEW out \in Seq(Commands), Reply(p, out)
  PROVE  Moved(p, out)
<1> DEFINE q == Other(p)
           bye == tree_is_done'[p] /\ requested'[p] = {} /\ ~sent_goodbye[p]
           last == IF bye THEN <<Bye>> ELSE <<>>
           new == out \o last
<1>1. q \in Peers /\ q # p
  BY PeersOpposed
<1>2. chan \in [Peers -> Seq(Commands)] /\ chan[p] \in Seq(Commands) /\ chan[q] \in Seq(Commands)
  BY <1>1 DEF TypeOK
<1>3. last \in Seq(Commands) /\ Elems(last) \subseteq {Bye}
  BY CommandsTyped DEF Elems
<1>4. /\ new \in Seq(Commands) /\ Elems(new) = Elems(out) \cup Elems(last)
      /\ Len(out) \in Nat
      /\ \A i \in DOMAIN out : i \in DOMAIN new /\ new[i] = out[i]
      /\ \A i \in DOMAIN new :
           \/ i \in DOMAIN out
           \/ i > Len(out) /\ i - Len(out) \in DOMAIN last
                /\ new[i] = last[i - Len(out)]
  <2>1. last \in Seq(Commands)
    BY <1>3
  <2> HIDE DEF last
  <2> QED  BY <2>1, ConcatAt
<1>5. chan' = [chan EXCEPT ![p] = Tail(@), ![q] = @ \o out \o last]
  BY DEF Reply
<1>6. chan'[q] = chan[q] \o new /\ chan'[p] = Tail(chan[p])
  <2>1. chan'[q] = (chan[q] \o out) \o last /\ chan'[p] = Tail(chan[p])
    <3> HIDE DEF q, last
    <3> QED  BY <1>1, <1>2, <1>5
  <2>2. (chan[q] \o out) \o last = chan[q] \o (out \o last)
    <3>1. last \in Seq(Commands) /\ chan[q] \in Seq(Commands)
      BY <1>2, <1>3
    <3> DEFINE old == chan[q]
    <3>2. last \in Seq(Commands) /\ old \in Seq(Commands)
      BY <3>1
    <3> HIDE DEF old, last
    <3>3. (old \o out) \o last = old \o (out \o last)
      BY <3>2, ConcatAssociative
    <3> QED  BY <3>3 DEF old
  <2> QED  BY <2>1, <2>2
<1>7. /\ chan'[q] \in Seq(Commands) /\ Len(chan[q]) \in Nat /\ DOMAIN chan[q] = 1..Len(chan[q])
      /\ \A i \in DOMAIN chan[q] : i \in DOMAIN chan'[q] /\ chan'[q][i] = chan[q][i]
      /\ \A i \in DOMAIN chan'[q] :
           \/ i \in DOMAIN chan[q]
           \/ i > Len(chan[q]) /\ i - Len(chan[q]) \in DOMAIN new
                /\ chan'[q][i] = new[i - Len(chan[q])]
      /\ \A i \in DOMAIN new :
           i + Len(chan[q]) \in DOMAIN chan'[q] /\ chan'[q][i + Len(chan[q])] = new[i]
      /\ Elems(chan'[q]) = Elems(chan[q]) \cup Elems(new)
  <2>1. new \in Seq(Commands) /\ chan[q] \in Seq(Commands) /\ chan'[q] = chan[q] \o new
    BY <1>2, <1>4, <1>6
  <2> DEFINE old == chan[q]
             now == chan'[q]
  <2>2. new \in Seq(Commands) /\ old \in Seq(Commands) /\ now = old \o new
    BY <2>1
  <2> HIDE DEF new, old, now
  <2>3. /\ now \in Seq(Commands) /\ Len(old) \in Nat /\ DOMAIN old = 1..Len(old)
        /\ \A i \in DOMAIN old : i \in DOMAIN now /\ now[i] = old[i]
        /\ \A i \in DOMAIN now :
             \/ i \in DOMAIN old
             \/ i > Len(old) /\ i - Len(old) \in DOMAIN new /\ now[i] = new[i - Len(old)]
        /\ \A i \in DOMAIN new : i + Len(old) \in DOMAIN now /\ now[i + Len(old)] = new[i]
        /\ Elems(now) = Elems(old) \cup Elems(new)
    BY <2>2, ConcatAt
  <2> QED  BY <2>3 DEF old, now
<1>8. /\ chan'[p] \in Seq(Commands) /\ Head(chan[p]) \in Commands
      /\ 1 \in DOMAIN chan[p] /\ chan[p][1] = Head(chan[p])
      /\ \A i \in DOMAIN chan[p] : i = 1 \/ i - 1 \in DOMAIN chan'[p]
      /\ \A i \in DOMAIN chan'[p] :
           i \in Nat \ {0} /\ i + 1 \in DOMAIN chan[p] /\ chan'[p][i] = chan[p][i+1]
      /\ Elems(chan[p]) \subseteq {Head(chan[p])} \cup Elems(chan'[p])
      /\ Elems(chan'[p]) \subseteq Elems(chan[p]) /\ Head(chan[p]) \in Elems(chan[p])
  BY <1>2, <1>6, ElemsTail
<1>9. chan' \in [Peers -> Seq(Commands)]
  <2> HIDE DEF q, last
  <2>1. chan' = [r \in Peers |-> chan'[r]]
    BY <1>2, <1>5
  <2>2. Peers = {p, q}
    BY DEF Peers, Other, q
  <2> QED  BY <1>7, <1>8, <2>1, <2>2
<1>10. \A i \in DOMAIN last : bye /\ i = 1 /\ last[i] = Bye
  OBVIOUS
<1>11. ASSUME NEW i \in DOMAIN chan'[q]
       PROVE  \/ i \in DOMAIN chan[q]
              \/ i > Len(chan[q]) /\ i - Len(chan[q]) \in DOMAIN out
                   /\ chan'[q][i] = out[i - Len(chan[q])]
              \/ i > Len(chan[q]) /\ i = Len(chan[q]) + Len(out) + 1 /\ bye /\ chan'[q][i] = Bye
  <2> HIDE DEF new, last, bye
  <2>0. i \in Nat
    BY <1>7, <1>11, LenProperties
  <2>1. CASE i \notin DOMAIN chan[q] /\ i - Len(chan[q]) \in DOMAIN out
    BY <1>4, <1>7, <2>1
  <2>2. CASE i \notin DOMAIN chan[q] /\ i - Len(chan[q]) \notin DOMAIN out
    <3> DEFINE j == i - Len(chan[q])
    <3>1. i > Len(chan[q]) /\ j \in DOMAIN new /\ chan'[q][i] = new[j]
      BY <1>7, <2>2
    <3>2. j > Len(out) /\ j - Len(out) \in DOMAIN last /\ new[j] = last[j - Len(out)]
      <4> HIDE DEF j
      <4> QED  BY <1>4, <2>2, <3>1 DEF j
    <3>3. bye /\ j - Len(out) = 1 /\ new[j] = Bye
      BY <1>10, <3>2
    <3>4. i = Len(chan[q]) + Len(out) + 1 /\ chan'[q][i] = Bye
      <4>1. Len(chan[q]) \in Nat /\ Len(out) \in Nat
        BY <1>4, <1>7
      <4>2. chan'[q][i] = Bye
        BY <3>1, <3>3
      <4> HIDE DEF q
      <4> QED  BY <2>0, <3>3, <4>1, <4>2
    <3> QED  BY <3>1, <3>3, <3>4
  <2> QED  BY <2>1, <2>2
<1>12. \A i \in DOMAIN out :
         i + Len(chan[q]) \in DOMAIN chan'[q] /\ chan'[q][i + Len(chan[q])] = out[i]
  <2> HIDE DEF new, last, bye
  <2> QED  BY <1>4, <1>7
<1>13. /\ Elems(chan[q]) \cup Elems(out) \subseteq Elems(chan'[q])
       /\ Elems(chan'[q]) \subseteq Elems(chan[q]) \cup Elems(out) \cup {Bye}
  <2> HIDE DEF new, last
  <2> QED  BY <1>3, <1>4, <1>7
<1>14. /\ sent_goodbye' \in [Peers -> BOOLEAN] /\ sent_goodbye'[q] = sent_goodbye[q]
       /\ sent_goodbye'[p] <=> sent_goodbye[p] \/ bye
       /\ role' = role /\ tree' = tree
  <2>1. sent_goodbye' = [sent_goodbye EXCEPT ![p] = @ \/ bye] /\ role' = role /\ tree' = tree
    BY DEF Reply
  <2>2. bye \in BOOLEAN
    OBVIOUS
  <2> HIDE DEF bye
  <2> QED  BY <1>1, <2>1, <2>2, Zenon DEF TypeOK
<1> HIDE DEF new, last, bye, q
<1> QED  BY <1>7, <1>8, <1>9, <1>11, <1>12, <1>13, <1>14 DEF Moved, bye, q
-----------------------------------------------------------------------------
(* Every step: what it does to the items and to what is asked for.         *)
Handled(p, out) ==
  LET q == Other(p)
      h == Head(chan[p])
  IN  /\ Moved(p, out)
      /\ \A m \in Elems(out) : Valid(q, m) /\ m.cmd # "bye"
      /\ h.cmd = "refine" => Replied(p, h, out)
      /\ had_refinements' \in [Peers -> BOOLEAN] /\ had_refinements'[q] = had_refinements[q]
      /\ tree_is_done' \in [Peers -> BOOLEAN] /\ tree_is_done'[q] = tree_is_done[q]
      /\ tree_is_done[p] => tree_is_done'[p]
      /\ have' \in [Peers -> SUBSET Ids] /\ have'[q] = have[q] /\ have[p] \subseteq have'[p]
      /\ \A x \in have'[p] : x \in have[p] \/ h = Data(x)
      /\ received' \in [Peers -> SUBSET Ids] /\ received'[q] = received[q]
      /\ received'[p] \subseteq received[p] \cup have'[p]
      /\ requested' \in [Peers -> SUBSET Ids] /\ requested'[q] = requested[q]
      /\ \A x \in requested'[p] : x \in requested[p] \/ SendData(x) \in Elems(out)
      /\ \A x \in Ids : h = SendData(x) => Data(x) \in Elems(out)
      /\ \A x \in Ids : h = Data(x) => x \in have'[p] /\ x \notin requested'[p]
      /\ received_goodbye' \in [Peers -> BOOLEAN] /\ received_goodbye'[q] = received_goodbye[q]
      /\ received_goodbye'[p] => received_goodbye[p] \/ h.cmd = "bye"

LEMMA HandledTypeOK ==
  ASSUME TypeOK, NEW p \in Peers, NEW out, Handled(p, out)
  PROVE  TypeOK'
  BY DEF TypeOK, Handled, Moved

LEMMA HandledContents ==
  ASSUME TypeOK, ContentsValid, NEW p \in Peers, NEW out, Handled(p, out)
  PROVE  ContentsValid'
<1> DEFINE q == Other(p)
<1>1. q \in Peers /\ q # p /\ \A r \in Peers : r = p \/ r = q
  BY DEF Other, Peers
<1>2. role' = role /\ tree' = tree
      /\ Elems(chan'[p]) \subseteq Elems(chan[p])
      /\ Elems(chan'[q]) \subseteq Elems(chan[q]) \cup Elems(out) \cup {Bye}
  BY DEF Handled, Moved
<1>3. \A m \in Elems(out) : Valid(q, m)
  BY DEF Handled
<1>4. \A r, m : Valid(r, m)' <=> Valid(r, m)
  BY <1>2 DEF Valid, IsSource, IsSink
<1>5. \A r : Valid(r, Bye)
  BY DEF Valid, Bye
<1> QED  BY <1>1, <1>2, <1>3, <1>4, <1>5 DEF ContentsValid

LEMMA HandledHoldings ==
  ASSUME TypeOK, ContentsValid, Holdings, NEW p \in Peers, NEW out, Handled(p, out)
  PROVE  Holdings'
<1> DEFINE q == Other(p)
           h == Head(chan[p])
<1>1. q \in Peers /\ q # p /\ (\A r \in Peers : r = p \/ r = q) /\ Other(q) = p
  BY DEF Other, Peers
<1>2. role' = role /\ tree' = tree /\ have'[q] = have[q] /\ received'[q] = received[q]
      /\ have[p] \subseteq have'[p] /\ received'[p] \subseteq received[p] \cup have'[p]
  BY DEF Handled, Moved
<1>3. \A x \in have'[p] : x \in have[p] \/ h = Data(x)
  BY DEF Handled
<1>4. h \in Elems(chan[p])
  BY DEF Handled, Moved
<1>5. ASSUME NEW x, h = Data(x) PROVE x \in tree[q] /\ role[p] # "source"
  BY <1>4, <1>5 DEF ContentsValid, Valid, Data, IsSink
<1>6. /\ tree[p] \subseteq have'[p] /\ have'[p] \subseteq tree[p] \cup tree[q]
      /\ role[p] = "source" => have'[p] = tree[p]
      /\ received'[p] \subseteq have'[p]
  <2>1. /\ tree[p] \subseteq have[p] /\ have[p] \subseteq tree[p] \cup tree[q]
        /\ role[p] = "source" => have[p] = tree[p]
        /\ received[p] \subseteq have[p]
    BY DEF Holdings
  <2> QED  BY <1>2, <1>3, <1>5, <2>1
<1> QED  BY <1>1, <1>2, <1>6 DEF Holdings

LEMMA HandledRequests ==
  ASSUME TypeOK, Requests, NEW p \in Peers, NEW out, Handled(p, out)
  PROVE  Requests'
<1> DEFINE q == Other(p)
           h == Head(chan[p])
<1>1. q \in Peers /\ q # p /\ (\A r \in Peers : r = p \/ r = q) /\ Other(q) = p
  BY DEF Other, Peers
<1>2. /\ Elems(chan[p]) \subseteq {h} \cup Elems(chan'[p])
      /\ Elems(chan[q]) \cup Elems(out) \subseteq Elems(chan'[q])
  BY DEF Handled, Moved
<1>3. ASSUME NEW x \in requested'[p]
      PROVE  SendData(x) \in Elems(chan'[q]) \/ Data(x) \in Elems(chan'[p])
  <2>1. x \in Ids /\ h # Data(x) /\ (x \in requested[p] \/ SendData(x) \in Elems(out))
    BY <1>3 DEF Handled
  <2> QED  BY <1>2, <2>1 DEF Requests
<1>4. ASSUME NEW x \in requested'[q]
      PROVE  SendData(x) \in Elems(chan'[p]) \/ Data(x) \in Elems(chan'[q])
  <2>1. x \in Ids /\ x \in requested[q] /\ (h = SendData(x) => Data(x) \in Elems(out))
    BY <1>1, <1>4 DEF Handled
  <2>2. SendData(x) \in Elems(chan[p]) \/ Data(x) \in Elems(chan[q])
    BY <1>1, <2>1 DEF Requests
  <2> QED  BY <1>2, <2>1, <2>2
<1> QED  BY <1>1, <1>3, <1>4 DEF Requests

(* An item that is expected stays expected: the node that names it is      *)
(* answered by a request, a finer node or the item itself.                 *)
LEMMA HandledNothingLost ==
  ASSUME TypeOK, ContentsValid, Holdings, Requests, NothingLost,
         NEW p \in Peers, NEW out, Handled(p, out)
  PROVE  NothingLost'
<1> DEFINE q == Other(p)
           h == Head(chan[p])
<1>1. q \in Peers /\ q # p /\ (\A r \in Peers : r = p \/ r = q) /\ Other(q) = p
  BY DEF Other, Peers
<1>2. /\ Elems(chan[p]) \subseteq {h} \cup Elems(chan'[p])
      /\ Elems(chan[q]) \cup Elems(out) \subseteq Elems(chan'[q])
      /\ role' = role /\ tree' = tree
      /\ have[p] \subseteq have'[p] /\ have'[q] = have[q]
  BY DEF Handled, Moved
<1>3. \A r, pref : NodeExists(r, pref)' <=> NodeExists(r, pref)
  BY <1>2 DEF NodeExists
<1>4. \A r : IsSink(r)' <=> IsSink(r)
  BY <1>2 DEF IsSink
<1>5. tree[p] \in SUBSET Ids /\ tree[q] \in SUBSET Ids
  BY <1>1 DEF TypeOK
<1>6. ASSUME IsSink(p), NEW x \in tree[q] PROVE Expected(p, x)'
  <2>1. Expected(p, x)
    BY <1>1, <1>6 DEF NothingLost
  <2>2. CASE x \in have[p] \/ SendData(x) \in Elems(chan[q])
    BY <1>2, <2>2 DEF Expected
  <2>3. ASSUME Data(x) \in Elems(chan[p]) PROVE Expected(p, x)'
    <3>1. h = Data(x) => x \in have'[p]
      BY <1>5, <1>6 DEF Handled
    <3> QED  BY <1>2, <2>3, <3>1 DEF Expected
  <2>4. ASSUME NEW m \in Elems(chan[q]), m.cmd = "refine", NodeExists(q, m.pref),
               x \in Below(Ids, m.pref)
        PROVE  Expected(p, x)'
    <3>1. m \in Elems(chan'[q]) /\ NodeExists(q, m.pref)'
      BY <1>2, <1>3, <2>4
    <3> QED  BY <2>4, <3>1 DEF Expected
  <2>5. ASSUME NEW m \in Elems(chan[p]), m.cmd = "refine", NEW s \in Slots, x \in m.slots[s]
        PROVE  Expected(p, x)'
    <3>1. CASE m # h
      <4>1. m \in Elems(chan'[p])
        BY <1>2, <2>5, <3>1
      <4> QED  BY <2>5, <4>1 DEF Expected
    <3>2. CASE m = h
      <4>1. Replied(p, h, out)
        BY <2>5, <3>2 DEF Handled
      <4>2. \/ x \in tree[p] \cup have[p] \cup requested[p] \cup received[p]
            \/ SendData(x) \in Elems(out)
            \/ \E n \in Elems(out) :
                 n.cmd = "refine" /\ NodeExists(q, n.pref) /\ x \in Below(Ids, n.pref)
        BY <1>6, <2>5, <3>2, <4>1 DEF Replied
      <4>3. CASE x \in tree[p] \cup have[p] \cup received[p]
        BY <1>2, <4>3 DEF Holdings, Expected
      <4>4. CASE x \in requested[p]
        <5>1. SendData(x) \in Elems(chan[q]) \/ Data(x) \in Elems(chan[p])
          BY <4>4 DEF Requests
        <5> QED  BY <2>2, <2>3, <5>1
      <4>5. CASE SendData(x) \in Elems(out)
        BY <1>2, <4>5 DEF Expected
      <4>6. ASSUME NEW n \in Elems(out), n.cmd = "refine", NodeExists(q, n.pref),
                   x \in Below(Ids, n.pref)
            PROVE  Expected(p, x)'
        <5>1. n \in Elems(chan'[q]) /\ NodeExists(q, n.pref)'
          BY <1>2, <1>3, <4>6
        <5> QED  BY <4>6, <5>1 DEF Expected
      <4> QED  BY <4>2, <4>3, <4>4, <4>5, <4>6
    <3> QED  BY <3>1, <3>2
  <2> QED  BY <2>1, <2>2, <2>3, <2>4, <2>5 DEF Expected
<1>7. ASSUME IsSink(q), NEW x \in tree[p] PROVE Expected(q, x)'
  <2>1. Expected(q, x)
    BY <1>1, <1>7 DEF NothingLost
  <2>2. CASE x \in have[q] \/ Data(x) \in Elems(chan[q])
    BY <1>1, <1>2, <2>2 DEF Expected
  <2>3. ASSUME SendData(x) \in Elems(chan[p]) PROVE Expected(q, x)'
    <3>1. h = SendData(x) => Data(x) \in Elems(out)
      BY <1>5, <1>7 DEF Handled
    <3> QED  BY <1>1, <1>2, <2>3, <3>1 DEF Expected
  <2>4. ASSUME NEW m \in Elems(chan[q]), m.cmd = "refine", NEW s \in Slots, x \in m.slots[s]
        PROVE  Expected(q, x)'
    <3>1. m \in Elems(chan'[q])
      BY <1>2, <2>4
    <3> QED  BY <2>4, <3>1 DEF Expected
  <2>5. ASSUME NEW m \in Elems(chan[p]), m.cmd = "refine", NodeExists(p, m.pref),
               x \in Below(Ids, m.pref)
        PROVE  Expected(q, x)'
    <3>1. CASE m # h
      <4>1. m \in Elems(chan'[p]) /\ NodeExists(p, m.pref)'
        BY <1>2, <1>3, <2>5, <3>1
      <4> QED  BY <1>1, <2>5, <4>1 DEF Expected
    <3>2. CASE m = h
      <4>1. Replied(p, h, out) /\ IsSource(p)
        BY <1>1, <1>7, <2>5, <3>2, PeersOpposed DEF Handled
      <4>2. \/ x \in tree[q]
            \/ Data(x) \in Elems(out)
            \/ \E n \in Elems(out) : n.cmd = "refine" /\ \E t \in Slots : x \in n.slots[t]
        BY <1>7, <2>5, <3>2, <4>1 DEF Replied
      <4>3. CASE x \in tree[q]
        BY <1>1, <1>2, <4>3 DEF Holdings, Expected
      <4>4. CASE Data(x) \in Elems(out)
        BY <1>2, <4>4 DEF Expected
      <4>5. ASSUME NEW n \in Elems(out), n.cmd = "refine", NEW t \in Slots, x \in n.slots[t]
            PROVE  Expected(q, x)'
        <5>1. n \in Elems(chan'[q])
          BY <1>2, <4>5
        <5> QED  BY <4>5, <5>1 DEF Expected
      <4> QED  BY <4>2, <4>3, <4>4, <4>5
    <3> QED  BY <3>1, <3>2
  <2> QED  BY <1>1, <2>1, <2>2, <2>3, <2>4, <2>5 DEF Expected
<1> QED  BY <1>1, <1>2, <1>4, <1>6, <1>7 DEF NothingLost
LEMMA HandledGoodbyes ==
  ASSUME TypeOK, Goodbyes, NEW p \in Peers, NEW out, Handled(p, out),
         tree_is_done[p] => Elems(out) = {},
         tree_is_done'[p] => \A m \in Elems(out) : m.cmd # "data"
  PROVE  Goodbyes'
<1> DEFINE q == Other(p)
           h == Head(chan[p])
<1>1. q \in Peers /\ q # p /\ (\A r \in Peers : r = p \/ r = q) /\ Other(q) = p
  BY DEF Other, Peers
<1>2. /\ sent_goodbye'[q] = sent_goodbye[q]
      /\ sent_goodbye'[p] <=>
           sent_goodbye[p] \/ (tree_is_done'[p] /\ requested'[p] = {} /\ ~sent_goodbye[p])
      /\ tree_is_done'[q] = tree_is_done[q] /\ (tree_is_done[p] => tree_is_done'[p])
      /\ requested'[q] = requested[q]
      /\ \A x \in requested'[p] : x \in requested[p] \/ SendData(x) \in Elems(out)
      /\ received_goodbye'[q] = received_goodbye[q]
      /\ received_goodbye'[p] => received_goodbye[p] \/ h.cmd = "bye"
      /\ Elems(chan'[p]) \subseteq Elems(chan[p])
      /\ Elems(chan'[q]) \subseteq Elems(chan[q]) \cup Elems(out) \cup {Bye}
  BY DEF Handled, Moved
<1>3. /\ \A i \in DOMAIN chan'[p] :
           i \in Nat \ {0} /\ i + 1 \in DOMAIN chan[p] /\ chan'[p][i] = chan[p][i+1]
      /\ 1 \in DOMAIN chan[p] /\ chan[p][1] = h
      /\ \A i \in DOMAIN chan[q] : i \in DOMAIN chan'[q] /\ chan'[q][i] = chan[q][i]
      /\ DOMAIN chan[q] = 1..Len(chan[q]) /\ Len(chan[q]) \in Nat
  BY DEF Handled, Moved
<1>4. (tree_is_done[p] => Elems(out) = {})
      /\ (tree_is_done'[p] => \A m \in Elems(out) : m.cmd # "data")
  OBVIOUS
<1>5. Bye.cmd = "bye"
  BY DEF Bye
<1>6. ASSUME sent_goodbye'[p] PROVE tree_is_done'[p] /\ requested'[p] = {}
  <2>1. sent_goodbye[p] => tree_is_done[p] /\ requested[p] = {}
    BY <1>1 DEF Goodbyes
  <2> QED  BY <1>2, <1>4, <1>6, <2>1
<1>7. ASSUME sent_goodbye'[q] PROVE tree_is_done'[q] /\ requested'[q] = {}
  BY <1>1, <1>2, <1>7 DEF Goodbyes
<1>8. ASSUME received_goodbye'[p]
      PROVE  sent_goodbye'[q] /\ \A m \in Elems(chan'[p]) : m.cmd # "data"
  <2>1. CASE received_goodbye[p]
    BY <1>2, <2>1 DEF Goodbyes
  <2>2. CASE h.cmd = "bye"
    <3>1. sent_goodbye[q] /\ \A j \in DOMAIN chan[p] : j > 1 => chan[p][j].cmd # "data"
      BY <1>3, <2>2 DEF Goodbyes
    <3>2. ASSUME NEW i \in DOMAIN chan'[p] PROVE chan'[p][i].cmd # "data"
      <4>1. i + 1 \in DOMAIN chan[p] /\ i + 1 > 1 /\ chan'[p][i] = chan[p][i+1]
        BY <1>3
      <4> QED  BY <3>1, <4>1
    <3> QED  BY <1>2, <3>1, <3>2 DEF Elems
  <2> QED  BY <1>2, <1>8, <2>1, <2>2
<1>9. ASSUME received_goodbye'[q]
      PROVE  sent_goodbye'[p] /\ \A m \in Elems(chan'[q]) : m.cmd # "data"
  <2>1. sent_goodbye[p] /\ tree_is_done[p] /\ \A m \in Elems(chan[q]) : m.cmd # "data"
    BY <1>1, <1>2, <1>9 DEF Goodbyes
  <2> QED  BY <1>2, <1>4, <1>5, <2>1
<1>10. ASSUME NEW i \in DOMAIN chan'[p], chan'[p][i].cmd = "bye"
       PROVE  sent_goodbye'[q] /\ \A j \in DOMAIN chan'[p] : j > i => chan'[p][j].cmd # "data"
  <2>1. i \in Nat /\ i + 1 \in DOMAIN chan[p] /\ chan[p][i+1].cmd = "bye"
    BY <1>3, <1>10
  <2>2. sent_goodbye[q] /\ \A j \in DOMAIN chan[p] : j > i + 1 => chan[p][j].cmd # "data"
    BY <2>1 DEF Goodbyes
  <2>3. ASSUME NEW j \in DOMAIN chan'[p], j > i PROVE chan'[p][j].cmd # "data"
    <3>1. j + 1 \in DOMAIN chan[p] /\ j + 1 > i + 1 /\ chan'[p][j] = chan[p][j+1]
      BY <1>3, <2>1, <2>3
    <3> QED  BY <2>2, <3>1
  <2> QED  BY <1>2, <2>2, <2>3
<1>11. ASSUME NEW i \in DOMAIN chan'[q], chan'[q][i].cmd = "bye"
       PROVE  sent_goodbye'[p] /\ \A j \in DOMAIN chan'[q] : j > i => chan'[q][j].cmd # "data"
  <2>1. CASE i \in DOMAIN chan[q]
    <3>1. sent_goodbye[p] /\ tree_is_done[p]
          /\ \A j \in DOMAIN chan[q] : j > i => chan[q][j].cmd # "data"
      BY <1>1, <1>3, <1>11, <2>1 DEF Goodbyes
    <3>2. ASSUME NEW j \in DOMAIN chan'[q], j > i PROVE chan'[q][j].cmd # "data"
      <4>1. j \in DOMAIN chan[q] \/ chan'[q][j] \in Elems(out) \/ chan'[q][j] = Bye
        BY DEF Handled, Moved, Elems
      <4> QED  BY <1>3, <1>4, <1>5, <3>1, <3>2, <4>1
    <3> QED  BY <1>2, <3>1, <3>2
  <2>2. CASE i \notin DOMAIN chan[q]
    <3>1. /\ i = Len(chan[q]) + Len(out) + 1
          /\ tree_is_done'[p] /\ requested'[p] = {} /\ ~sent_goodbye[p]
      <4>1. \/ chan'[q][i] \in Elems(out)
            \/ /\ i = Len(chan[q]) + Len(out) + 1
               /\ tree_is_done'[p] /\ requested'[p] = {} /\ ~sent_goodbye[p]
        BY <2>2 DEF Handled, Moved, Elems
      <4>2. chan'[q][i] \notin Elems(out)
        BY <1>11 DEF Handled
      <4> QED  BY <4>1, <4>2
    <3>2. \A m \in Elems(out) : m.cmd # "data"
      BY <1>2, <1>4, <3>1
    <3>3. ASSUME NEW j \in DOMAIN chan'[q], j > i PROVE chan'[q][j].cmd # "data"
      <4>1. \/ j \in DOMAIN chan[q] \/ chan'[q][j] \in Elems(out) \/ chan'[q][j] = Bye
        BY DEF Handled, Moved, Elems
      <4>2. i > Len(chan[q])
        BY <2>2 DEF Handled, Moved
      <4>3. i \in Nat
        <5>1. chan'[q] \in Seq(Commands)
          BY <1>1 DEF Handled, Moved
        <5> QED  BY <1>11, <5>1, LenProperties
      <4> QED  BY <1>3, <1>5, <3>2, <3>3, <4>1, <4>2, <4>3
    <3> QED  BY <1>2, <3>1, <3>3
  <2> QED  BY <2>1, <2>2
<1> QED  BY <1>1, <1>6, <1>7, <1>8, <1>9, <1>10, <1>11 DEF Goodbyes

-----------------------------------------------------------------------------
(* The steps that do not handle a done marker.                             *)
Plain(p, out) ==
  LET q == Other(p)
      h == Head(chan[p])
  IN  /\ Handled(p, out) /\ h.cmd # "done"
      /\ \A m \in Elems(out) :
           /\ Bearing(m) /\ Asking(h)
           /\ Asking(m) => had_refinements'[p]
           /\ m.cmd = "refine" => h.cmd = "refine" /\ Len(m.pref) = Len(h.pref) + 1
      /\ had_refinements[p] => had_refinements'[p]
      /\ had_refinements'[p] => had_refinements[p] \/ h.cmd = "refine"
      /\ tree_is_done' = tree_is_done

(* Where the commands and the done marker are after such a step.           *)
LEMMA PlainIndices ==
  ASSUME TypeOK, NEW p \in Peers, NEW out, Plain(p, out)
  PROVE  LET q == Other(p)
             h == Head(chan[p])
         IN  /\ \A i \in DOMAIN chan'[p] :
                  i \in Nat \ {0} /\ i + 1 \in DOMAIN chan[p] /\ chan'[p][i] = chan[p][i+1]
             /\ \A i \in DOMAIN chan[p] : i = 1 \/ i - 1 \in DOMAIN chan'[p]
             /\ 1 \in DOMAIN chan[p] /\ chan[p][1] = h /\ h.cmd # "done"
             /\ \A i \in DOMAIN chan[q] : i \in DOMAIN chan'[q] /\ chan'[q][i] = chan[q][i]
             /\ DOMAIN chan[q] = 1..Len(chan[q]) /\ Len(chan[q]) \in Nat
             /\ \A i \in DOMAIN chan'[q] :
                  \/ i \in DOMAIN chan[q]
                  \/ i > Len(chan[q]) /\ chan'[q][i] \in Elems(out)
                  \/ i > Len(chan[q]) /\ chan'[q][i] = Bye
             /\ \A k : IsToken(p, k)' <=> k \in DOMAIN chan'[p] /\ IsToken(p, k+1)
             /\ \A k : IsToken(q, k)' <=> IsToken(q, k)
<1> DEFINE q == Other(p)
           h == Head(chan[p])
<1>1. q \in Peers /\ q # p /\ (\A r \in Peers : r = p \/ r = q) /\ Other(q) = p
  BY DEF Other, Peers
<1>2. /\ \A i \in DOMAIN chan'[p] :
           i \in Nat \ {0} /\ i + 1 \in DOMAIN chan[p] /\ chan'[p][i] = chan[p][i+1]
      /\ \A i \in DOMAIN chan[p] : i = 1 \/ i - 1 \in DOMAIN chan'[p]
      /\ 1 \in DOMAIN chan[p] /\ chan[p][1] = h /\ h.cmd # "done"
      /\ \A i \in DOMAIN chan[q] : i \in DOMAIN chan'[q] /\ chan'[q][i] = chan[q][i]
      /\ DOMAIN chan[q] = 1..Len(chan[q]) /\ Len(chan[q]) \in Nat
  BY DEF Plain, Handled, Moved
<1>3. ASSUME NEW i \in DOMAIN chan'[q]
      PROVE  \/ i \in DOMAIN chan[q]
             \/ i > Len(chan[q]) /\ chan'[q][i] \in Elems(out)
             \/ i > Len(chan[q]) /\ chan'[q][i] = Bye
  <2>1. \/ i \in DOMAIN chan[q]
        \/ i > Len(chan[q]) /\ i - Len(chan[q]) \in DOMAIN out
             /\ chan'[q][i] = out[i - Len(chan[q])]
        \/ i > Len(chan[q]) /\ chan'[q][i] = Bye
    BY DEF Plain, Handled, Moved
  <2> QED  BY <2>1 DEF Elems
<1>4. \A m \in Elems(out) : Bearing(m)
  BY DEF Plain
<1>5. ~Asking(Bye) /\ ~Bearing(Bye) /\ Bye.cmd # "done" /\ \A m : Bearing(m) => m.cmd # "done"
  BY DEF Asking, Bearing, Bye
<1>6. /\ \A k : IsToken(p, k)' <=> k \in DOMAIN chan'[p] /\ IsToken(p, k+1)
      /\ \A k : IsToken(q, k)' <=> IsToken(q, k)
  <2>1. ASSUME NEW k PROVE IsToken(p, k)' <=> k \in DOMAIN chan'[p] /\ IsToken(p, k+1)
    BY <1>2 DEF IsToken
  <2>2. ASSUME NEW k PROVE IsToken(q, k)' <=> IsToken(q, k)
    <3>1. IsToken(q, k) => IsToken(q, k)'
      BY <1>2 DEF IsToken
    <3>2. ASSUME IsToken(q, k)' PROVE IsToken(q, k)
      BY <1>2, <1>3, <1>4, <1>5, <3>2 DEF IsToken
    <3> QED  BY <3>1, <3>2
  <2> QED  BY <2>1, <2>2
<1> HIDE DEF q, h
<1> QED  BY <1>2, <1>3, <1>6 DEF q, h

LEMMA PlainTokens ==
  ASSUME TypeOK, OneToken, TokenMeans, NEW p \in Peers, NEW out, Plain(p, out)
  PROVE  OneToken' /\ TokenMeans'
<1> DEFINE q == Other(p)
           h == Head(chan[p])
<1>1. q \in Peers /\ q # p /\ (\A r \in Peers : r = p \/ r = q) /\ Other(q) = p
  BY DEF Other, Peers
<1>2. /\ \A i \in DOMAIN chan'[p] :
           i \in Nat \ {0} /\ i + 1 \in DOMAIN chan[p] /\ chan'[p][i] = chan[p][i+1]
      /\ \A i \in DOMAIN chan[p] : i = 1 \/ i - 1 \in DOMAIN chan'[p]
      /\ 1 \in DOMAIN chan[p] /\ chan[p][1] = h /\ h.cmd # "done"
      /\ \A i \in DOMAIN chan[q] : i \in DOMAIN chan'[q] /\ chan'[q][i] = chan[q][i]
      /\ DOMAIN chan[q] = 1..Len(chan[q]) /\ Len(chan[q]) \in Nat
  BY PlainIndices
<1>3. \A i \in DOMAIN chan'[q] :
        \/ i \in DOMAIN chan[q]
        \/ i > Len(chan[q]) /\ chan'[q][i] \in Elems(out)
        \/ i > Len(chan[q]) /\ chan'[q][i] = Bye
  BY PlainIndices
<1>4. /\ \A m \in Elems(out) : Bearing(m) /\ Asking(h) /\ (Asking(m) => had_refinements'[p])
      /\ had_refinements'[q] = had_refinements[q]
      /\ had_refinements[p] => had_refinements'[p]
      /\ had_refinements'[p] => had_refinements[p] \/ Asking(h)
      /\ tree_is_done' = tree_is_done
  BY DEF Plain, Handled, Asking
<1>5. ~Asking(Bye) /\ ~Bearing(Bye) /\ Bye.cmd # "done" /\ \A m : Bearing(m) => m.cmd # "done"
  BY DEF Asking, Bearing, Bye
<1>6. /\ \A k : IsToken(p, k)' <=> k \in DOMAIN chan'[p] /\ IsToken(p, k+1)
      /\ \A k : IsToken(q, k)' <=> IsToken(q, k)
  BY PlainIndices
<1>7. OneToken'
  <2>1. ASSUME NEW r \in Peers, NEW s \in Peers, NEW k \in DOMAIN chan'[r], NEW j \in DOMAIN chan'[s],
               IsToken(r, k)', IsToken(s, j)'
        PROVE  r = s /\ k = j
    <3>1. CASE r = p /\ s = p
      <4>1. IsToken(p, k+1) /\ IsToken(p, j+1) /\ k \in Nat /\ j \in Nat
        BY <1>2, <1>6, <2>1, <3>1
      <4>2. k + 1 = j + 1
        BY <4>1 DEF OneToken, IsToken
      <4> QED  BY <3>1, <4>1, <4>2
    <3>2. CASE r = q /\ s = q
      BY <1>1, <1>6, <2>1, <3>2 DEF OneToken, IsToken
    <3>3. CASE r = p /\ s = q
      <4>1. IsToken(p, k+1) /\ IsToken(q, j)
        BY <1>6, <2>1, <3>3
      <4> QED  BY <1>1, <4>1 DEF OneToken, IsToken
    <3>4. CASE r = q /\ s = p
      <4>1. IsToken(p, j+1) /\ IsToken(q, k)
        BY <1>6, <2>1, <3>4
      <4> QED  BY <1>1, <4>1 DEF OneToken, IsToken
    <3> QED  BY <1>1, <3>1, <3>2, <3>3, <3>4
  <2>2. ASSUME \A r \in Peers : \A k \in DOMAIN chan'[r] : ~IsToken(r, k)'
        PROVE  \A r \in Peers : tree_is_done'[r]
    <3>1. \A k \in DOMAIN chan[q] : ~IsToken(q, k)
      BY <1>1, <1>2, <1>6, <2>2
    <3>2. ASSUME NEW k \in DOMAIN chan[p] PROVE ~IsToken(p, k)
      <4>1. CASE k = 1
        BY <1>2, <4>1 DEF IsToken
      <4>2. CASE k # 1
        <5>1. k - 1 \in DOMAIN chan'[p] /\ k - 1 \in Nat
          BY <1>2, <4>2
        <5>2. (k - 1) + 1 = k
          <6>1. k \in Nat
            BY <3>2, LenProperties DEF TypeOK
          <6> QED  BY <6>1
        <5> QED  BY <1>6, <2>2, <5>1, <5>2
      <4> QED  BY <4>1, <4>2
    <3> QED  BY <1>1, <1>4, <3>1, <3>2 DEF OneToken
  <2> QED  BY <2>1, <2>2 DEF OneToken
<1>8. ASSUME NEW k \in DOMAIN chan'[p], IsToken(p, k)'
      PROVE  /\ \A i \in DOMAIN chan'[q] : Asking(chan'[q][i]) => had_refinements'[p]
             /\ \A i \in DOMAIN chan'[p] : i > k /\ Asking(chan'[p][i]) => had_refinements'[q]
             /\ \A i \in DOMAIN chan'[p] : i > k /\ Bearing(chan'[p][i]) => had_refinements'[p]
             /\ had_refinements'[q] => had_refinements'[p]
             /\ tree_is_done'[p] => tree_is_done'[q]
  <2>1. IsToken(p, k+1) /\ k + 1 \in DOMAIN chan[p] /\ k \in Nat
    BY <1>2, <1>6, <1>8
  <2>2. /\ \A i \in DOMAIN chan[q] : Asking(chan[q][i]) => had_refinements[p]
        /\ \A i \in DOMAIN chan[p] : i > k + 1 /\ Asking(chan[p][i]) => had_refinements[q]
        /\ \A i \in DOMAIN chan[p] : i > k + 1 /\ Bearing(chan[p][i]) => had_refinements[p]
        /\ had_refinements[q] => had_refinements[p]
        /\ tree_is_done[p] => tree_is_done[q]
    BY <2>1 DEF TokenMeans
  <2>3. ASSUME NEW i \in DOMAIN chan'[q], Asking(chan'[q][i]) PROVE had_refinements'[p]
    BY <1>2, <1>3, <1>4, <1>5, <2>2, <2>3
  <2>4. ASSUME NEW i \in DOMAIN chan'[p], i > k
        PROVE  i + 1 \in DOMAIN chan[p] /\ i + 1 > k + 1 /\ chan'[p][i] = chan[p][i+1]
    BY <1>2, <2>1, <2>4
  <2> QED  BY <1>4, <2>2, <2>3, <2>4
<1>9. ASSUME NEW k \in DOMAIN chan'[q], IsToken(q, k)'
      PROVE  /\ \A i \in DOMAIN chan'[p] : Asking(chan'[p][i]) => had_refinements'[q]
             /\ \A i \in DOMAIN chan'[q] : i > k /\ Asking(chan'[q][i]) => had_refinements'[p]
             /\ \A i \in DOMAIN chan'[q] : i > k /\ Bearing(chan'[q][i]) => had_refinements'[q]
             /\ had_refinements'[p] => had_refinements'[q]
             /\ tree_is_done'[q] => tree_is_done'[p]
  <2>1. IsToken(q, k) /\ k \in DOMAIN chan[q]
    BY <1>6, <1>9 DEF IsToken
  <2>2. /\ \A i \in DOMAIN chan[p] : Asking(chan[p][i]) => had_refinements[q]
        /\ \A i \in DOMAIN chan[q] : i > k /\ Asking(chan[q][i]) => had_refinements[p]
        /\ \A i \in DOMAIN chan[q] : i > k /\ Bearing(chan[q][i]) => had_refinements[q]
        /\ had_refinements[p] => had_refinements[q]
        /\ tree_is_done[q] => tree_is_done[p]
    BY <1>1, <2>1 DEF TokenMeans
  <2>3. Asking(h) => had_refinements[q]
    BY <1>2, <2>2
  <2>4. ASSUME NEW i \in DOMAIN chan'[p], Asking(chan'[p][i]) PROVE had_refinements'[q]
    BY <1>2, <1>4, <2>2, <2>4
  <2>5. ASSUME NEW i \in DOMAIN chan'[q], i > k
        PROVE  /\ Asking(chan'[q][i]) => had_refinements'[p]
               /\ Bearing(chan'[q][i]) => had_refinements'[q]
    BY <1>2, <1>3, <1>4, <1>5, <2>2, <2>3, <2>5
  <2> QED  BY <1>4, <2>2, <2>3, <2>4, <2>5
<1>10. TokenMeans'
  BY <1>1, <1>8, <1>9 DEF TokenMeans
<1> QED  BY <1>7, <1>10

LEMMA PlainLevels ==
  ASSUME TypeOK, ContentsValid, TokenLevel, NEW p \in Peers, NEW out, Plain(p, out)
  PROVE  TokenLevel'
<1> DEFINE q == Other(p)
           h == Head(chan[p])
<1>1. q \in Peers /\ q # p /\ (\A r \in Peers : r = p \/ r = q) /\ Other(q) = p
  BY DEF Other, Peers
<1>2. /\ \A i \in DOMAIN chan'[p] :
           i \in Nat \ {0} /\ i + 1 \in DOMAIN chan[p] /\ chan'[p][i] = chan[p][i+1]
      /\ \A i \in DOMAIN chan[p] : i = 1 \/ i - 1 \in DOMAIN chan'[p]
      /\ 1 \in DOMAIN chan[p] /\ chan[p][1] = h /\ h.cmd # "done"
      /\ \A i \in DOMAIN chan[q] : i \in DOMAIN chan'[q] /\ chan'[q][i] = chan[q][i]
      /\ DOMAIN chan[q] = 1..Len(chan[q]) /\ Len(chan[q]) \in Nat
  BY PlainIndices
<1>3. \A i \in DOMAIN chan'[q] :
        \/ i \in DOMAIN chan[q]
        \/ i > Len(chan[q]) /\ chan'[q][i] \in Elems(out)
        \/ i > Len(chan[q]) /\ chan'[q][i] = Bye
  BY PlainIndices
<1>4. /\ \A m \in Elems(out) :
           m.cmd = "refine" => h.cmd = "refine" /\ Len(m.pref) = Len(h.pref) + 1
      /\ had_refinements'[q] = had_refinements[q]
      /\ had_refinements'[p] => had_refinements[p] \/ h.cmd = "refine"
  BY DEF Plain, Handled
<1>5. h.cmd = "refine" => Len(h.pref) \in Nat /\ Len(h.pref) < Depth
  <2>1. h \in Elems(chan[p]) /\ h \in Commands
    BY DEF Plain, Handled, Moved
  <2>2. h.cmd = "refine" => h.pref \in Seq(Slots)
    BY <2>1 DEF Commands, Bye
  <2> QED  BY <2>1, <2>2 DEF ContentsValid, Valid
<1>6. /\ \A k : IsToken(p, k)' <=> k \in DOMAIN chan'[p] /\ IsToken(p, k+1)
      /\ \A k : IsToken(q, k)' <=> IsToken(q, k)
  BY PlainIndices
<1>7. \A r \in Peers : \A k : IsToken(r, k) => chan[r][k].level \in Nat /\ k \in Nat
  <2> SUFFICES ASSUME NEW r \in Peers, NEW k, IsToken(r, k)
               PROVE  chan[r][k].level \in Nat /\ k \in Nat
    OBVIOUS
  <2>1. chan[r] \in Seq(Commands) /\ k \in DOMAIN chan[r] /\ chan[r][k].cmd = "done"
    BY DEF TypeOK, IsToken
  <2>2. k \in Nat /\ chan[r][k] \in Commands
    BY <2>1, LenProperties, ElementOfSeq
  <2> QED  BY <2>1, <2>2 DEF Commands, Bye
<1>8. Bye.cmd # "refine" /\ Depth \in Nat
  BY IdsTyped DEF Bye
<1>9. ASSUME NEW k \in DOMAIN chan'[p], IsToken(p, k)'
      PROVE  LET level == chan'[p][k].level
             IN  /\ \A i \in DOMAIN chan'[p] : chan'[p][i].cmd = "refine" =>
                      Len(chan'[p][i].pref) >= IF i < k THEN level ELSE level + 2
                 /\ \A i \in DOMAIN chan'[q] : chan'[q][i].cmd = "refine" =>
                      Len(chan'[q][i].pref) >= level + 1
                 /\ had_refinements'[p] => level < Depth
                 /\ had_refinements'[q] => level + 1 < Depth
  <2> DEFINE level == chan[p][k+1].level
  <2>1. IsToken(p, k+1) /\ k + 1 \in DOMAIN chan[p] /\ k \in Nat \ {0} /\ chan'[p][k].level = level
        /\ level \in Nat
    BY <1>2, <1>6, <1>7, <1>9
  <2>2. /\ \A i \in DOMAIN chan[p] : chan[p][i].cmd = "refine" =>
             Len(chan[p][i].pref) >= IF i < k + 1 THEN level ELSE level + 2
        /\ \A i \in DOMAIN chan[q] : chan[q][i].cmd = "refine" =>
             Len(chan[q][i].pref) >= level + 1
        /\ had_refinements[p] => level < Depth
        /\ had_refinements[q] => level + 1 < Depth
    BY <2>1 DEF TokenLevel
  <2> HIDE DEF level
  <2>3. h.cmd = "refine" => Len(h.pref) >= level
    BY <1>2, <2>1, <2>2
  <2>4. ASSUME NEW i \in DOMAIN chan'[p], chan'[p][i].cmd = "refine"
        PROVE  Len(chan'[p][i].pref) >= IF i < k THEN level ELSE level + 2
    <3>1. i \in Nat /\ i + 1 \in DOMAIN chan[p] /\ chan'[p][i] = chan[p][i+1]
      BY <1>2
    <3>2. Len(chan[p][i+1].pref) >= IF i + 1 < k + 1 THEN level ELSE level + 2
      BY <2>2, <2>4, <3>1
    <3> QED  BY <2>1, <3>1, <3>2
  <2>5. ASSUME NEW i \in DOMAIN chan'[q], chan'[q][i].cmd = "refine"
        PROVE  Len(chan'[q][i].pref) >= level + 1
    BY <1>2, <1>3, <1>4, <1>5, <1>8, <2>1, <2>2, <2>3, <2>5, SMTT(30)
  <2>6. had_refinements'[p] => level < Depth
    BY <1>4, <1>5, <1>8, <2>1, <2>2, <2>3
  <2>7. had_refinements'[q] => level + 1 < Depth
    BY <1>4, <2>2
  <2> QED  BY <2>1, <2>4, <2>5, <2>6, <2>7
<1>10. ASSUME NEW k \in DOMAIN chan'[q], IsToken(q, k)'
       PROVE  LET level == chan'[q][k].level
              IN  /\ \A i \in DOMAIN chan'[q] : chan'[q][i].cmd = "refine" =>
                       Len(chan'[q][i].pref) >= IF i < k THEN level ELSE level + 2
                  /\ \A i \in DOMAIN chan'[p] : chan'[p][i].cmd = "refine" =>
                       Len(chan'[p][i].pref) >= level + 1
                  /\ had_refinements'[q] => level < Depth
                  /\ had_refinements'[p] => level + 1 < Depth
  <2> DEFINE level == chan[q][k].level
  <2>1. IsToken(q, k) /\ k \in DOMAIN chan[q] /\ chan'[q][k].level = level
        /\ level \in Nat /\ k \in Nat /\ k <= Len(chan[q])
    BY <1>1, <1>2, <1>6, <1>7, <1>10 DEF IsToken
  <2>2. /\ \A i \in DOMAIN chan[q] : chan[q][i].cmd = "refine" =>
             Len(chan[q][i].pref) >= IF i < k THEN level ELSE level + 2
        /\ \A i \in DOMAIN chan[p] : chan[p][i].cmd = "refine" =>
             Len(chan[p][i].pref) >= level + 1
        /\ had_refinements[q] => level < Depth
        /\ had_refinements[p] => level + 1 < Depth
    BY <1>1, <2>1 DEF TokenLevel
  <2> HIDE DEF level
  <2>3. h.cmd = "refine" => Len(h.pref) >= level + 1
    BY <1>2, <2>2
  <2>4. ASSUME NEW i \in DOMAIN chan'[p], chan'[p][i].cmd = "refine"
        PROVE  Len(chan'[p][i].pref) >= level + 1
    BY <1>2, <2>2, <2>4
  <2>5. ASSUME NEW i \in DOMAIN chan'[q], chan'[q][i].cmd = "refine"
        PROVE  Len(chan'[q][i].pref) >= IF i < k THEN level ELSE level + 2
    <3>1. CASE i \in DOMAIN chan[q]
      BY <1>2, <2>2, <2>5, <3>1
    <3>2. CASE i \notin DOMAIN chan[q]
      <4>1. i > Len(chan[q]) /\ chan'[q][i] \in Elems(out)
        BY <1>3, <1>8, <2>5, <3>2
      <4>2. Len(chan'[q][i].pref) = Len(h.pref) + 1 /\ Len(h.pref) >= level + 1
            /\ Len(h.pref) \in Nat
        BY <1>4, <1>5, <2>3, <2>5, <4>1
      <4>3. i \in Nat
        <5>1. chan'[q] \in Seq(Commands)
          BY <1>1 DEF Plain, Handled, Moved
        <5> QED  BY <2>5, <5>1, LenProperties
      <4> QED  BY <1>2, <2>1, <4>1, <4>2, <4>3
    <3> QED  BY <3>1, <3>2
  <2>6. had_refinements'[p] => level + 1 < Depth
    BY <1>4, <1>5, <1>8, <2>1, <2>2, <2>3
  <2>7. had_refinements'[q] => level < Depth
    BY <1>4, <2>2
  <2> QED  BY <2>1, <2>4, <2>5, <2>6, <2>7
<1> QED  BY <1>1, <1>9, <1>10 DEF TokenLevel

LEMMA PlainQuiet ==
  ASSUME TypeOK, DoneIsQuiet, NEW p \in Peers, NEW out, Plain(p, out)
  PROVE  /\ DoneIsQuiet'
         /\ (\E r \in Peers : tree_is_done[r]) => Elems(out) = {} /\ ~Asking(Head(chan[p]))
<1> DEFINE q == Other(p)
           h == Head(chan[p])
<1>1. q \in Peers /\ q # p /\ (\A r \in Peers : r = p \/ r = q) /\ Other(q) = p
  BY DEF Other, Peers
<1>2. /\ h \in Elems(chan[p]) /\ tree_is_done' = tree_is_done
      /\ Elems(chan'[p]) \subseteq Elems(chan[p])
      /\ Elems(chan'[q]) \subseteq Elems(chan[q]) \cup Elems(out) \cup {Bye}
      /\ \A m \in Elems(out) : Asking(h)
      /\ had_refinements'[q] = had_refinements[q]
      /\ had_refinements'[p] => had_refinements[p] \/ Asking(h)
  BY DEF Plain, Handled, Moved, Asking
<1>3. ~Asking(Bye)
  BY DEF Asking, Bye
<1> QED  BY <1>1, <1>2, <1>3 DEF DoneIsQuiet

LEMMA PlainComplete ==
  ASSUME Complete, NEW p \in Peers, NEW out, Plain(p, out)
  PROVE  Complete'
<1>1. Peers = {p, Other(p)}
  BY DEF Other, Peers
<1>2. /\ role' = role /\ tree' = tree /\ tree_is_done' = tree_is_done
      /\ have[p] \subseteq have'[p] /\ have'[Other(p)] = have[Other(p)]
  BY DEF Plain, Handled, Moved
<1> QED  BY <1>1, <1>2 DEF Complete, IsSink

LEMMA PlainInv ==
  ASSUME Inv, NEW p \in Peers, NEW out, Plain(p, out)
  PROVE  Inv'
<1>1. Handled(p, out) /\ tree_is_done' = tree_is_done
  BY DEF Plain
<1>2. TypeOK' /\ ContentsValid' /\ Holdings' /\ Requests' /\ NothingLost'
  BY <1>1, HandledTypeOK, HandledContents, HandledHoldings, HandledRequests, HandledNothingLost
     DEF Inv
<1>3. OneToken' /\ TokenMeans' /\ TokenLevel' /\ DoneIsQuiet' /\ Complete'
  BY PlainTokens, PlainLevels, PlainQuiet, PlainComplete DEF Inv
<1>4. tree_is_done[p] => Elems(out) = {}
  BY PlainQuiet DEF Inv
<1>5. Goodbyes'
  BY <1>1, <1>4, HandledGoodbyes DEF Inv
<1> QED  BY <1>2, <1>3, <1>5 DEF Inv
-----------------------------------------------------------------------------
(* The handlers.                                                           *)

LEMMA HeadTyped ==
  ASSUME Inv, NEW p \in Peers, chan[p] # <<>>
  PROVE  /\ Head(chan[p]) \in Commands /\ Valid(p, Head(chan[p]))
         /\ Head(chan[p]).cmd \in {"send_data", "data"} => Head(chan[p]).item \in Ids
<1>1. chan[p] \in Seq(Commands)
  BY DEF Inv, TypeOK
<1>2. Head(chan[p]) \in Commands /\ Head(chan[p]) \in Elems(chan[p])
  BY <1>1, ElemsTail
<1>3. Valid(p, Head(chan[p]))
  BY <1>2 DEF Inv, ContentsValid
<1> QED  BY <1>2, <1>3 DEF Commands, Bye

LEMMA NoElems == Elems(<<>>) = {} /\ \A m : Elems(<<m>>) = {m}
  BY DEF Elems

LEMMA RefineStep ==
  ASSUME Inv, NEW p \in Peers, ProcessRefine(p)
  PROVE  Inv'
<1> DEFINE q == Other(p)
           h == Head(chan[p])
           out == RefineReply(p, h)
<1>1. h.cmd = "refine" /\ h \in Commands /\ Valid(p, h) /\ chan[p] # <<>> /\ TypeOK /\ q \in Peers
      /\ q # p
  BY HeadTyped, PeersOpposed DEF ProcessRefine, Incoming, Inv
<1>2. Replied(p, h, out)
  BY <1>1, RefineReplied
<1>3. out \in Seq(Commands)
  BY <1>2 DEF Replied
<1>4. /\ requested' = [requested EXCEPT ![p] = @ \cup Asked(out)]
      /\ had_refinements' = [had_refinements EXCEPT ![p] = TRUE]
      /\ UNCHANGED <<have, received, tree_is_done, received_goodbye>>
      /\ Reply(p, out)
  BY DEF ProcessRefine
<1>5. Moved(p, out)
  <2> HIDE DEF out
  <2> QED  BY <1>1, <1>3, <1>4, Moves
<1>6. ASSUME NEW x \in Asked(out) PROVE x \in Ids /\ SendData(x) \in Elems(out)
  <2>1. PICK i \in DOMAIN out : out[i].cmd = "send_data" /\ x = out[i].item
    BY DEF Asked
  <2>2. out[i] \in Elems(out) /\ out[i] \in Commands
    BY <1>3, <2>1, LenProperties, ElementOfSeq DEF Elems
  <2> HIDE DEF out
  <2>3. out[i] = SendData(x) /\ x \in Ids
    BY <2>1, <2>2 DEF Commands, Bye, SendData
  <2> QED  BY <2>2, <2>3
<1>7. /\ requested' \in [Peers -> SUBSET Ids] /\ requested'[q] = requested[q]
      /\ \A x \in requested'[p] : x \in requested[p] \/ SendData(x) \in Elems(out)
  <2> HIDE DEF out
  <2> QED  BY <1>1, <1>4, <1>6 DEF TypeOK
<1>8. /\ had_refinements' \in [Peers -> BOOLEAN] /\ had_refinements'[q] = had_refinements[q]
      /\ had_refinements'[p]
  BY <1>1, <1>4 DEF TypeOK
<1>9. h.cmd = "refine" /\ \A x : h # SendData(x) /\ h # Data(x)
  BY <1>1 DEF SendData, Data
<1>10. \A m \in Elems(out) :
         /\ Bearing(m) /\ Valid(q, m) /\ m.cmd # "bye"
         /\ m.cmd = "refine" => Len(m.pref) = Len(h.pref) + 1
  BY <1>2 DEF Replied, Bearing
<1> HIDE DEF out, h, q
<1>11. Handled(p, out)
  BY <1>1, <1>2, <1>4, <1>5, <1>7, <1>8, <1>9, <1>10 DEF Handled, TypeOK, q, h
<1>12. Plain(p, out)
  BY <1>4, <1>8, <1>9, <1>10, <1>11 DEF Plain, Asking, q, h
<1> QED  BY <1>12, PlainInv

LEMMA SendDataStep ==
  ASSUME Inv, NEW p \in Peers, ProcessSendData(p)
  PROVE  Inv'
<1> DEFINE q == Other(p)
           h == Head(chan[p])
           x == h.item
           out == <<Data(x)>>
<1>1. h.cmd = "send_data" /\ h \in Commands /\ Valid(p, h) /\ x \in Ids /\ chan[p] # <<>>
      /\ TypeOK /\ q \in Peers /\ q # p
  BY HeadTyped, PeersOpposed DEF ProcessSendData, Incoming, Inv
<1>2. x \in tree[p] /\ role[p] # "sink" /\ x \in have[p]
  BY <1>1, PeersOpposed DEF Valid, Inv, Holdings
<1>3. Reply(p, out) /\ UNCHANGED <<have, requested, received, had_refinements, tree_is_done,
                                   received_goodbye>>
  BY <1>2 DEF ProcessSendData, QueueData
<1>4. out \in Seq(Commands) /\ Elems(out) = {Data(x)}
  BY <1>1, NoElems, CommandsTyped
<1>5. Moved(p, out)
  <2> HIDE DEF out
  <2> QED  BY <1>1, <1>3, <1>4, Moves
<1>6. Valid(q, Data(x)) /\ Bearing(Data(x)) /\ Data(x).cmd = "data" /\ ~Asking(Data(x))
  BY <1>1, <1>2, PeersOpposed DEF Valid, Data, Bearing, Asking
<1>7. \A y : h # Data(y) /\ (h = SendData(y) => y = x)
  BY <1>1 DEF Data, SendData
<1> HIDE DEF out, h, q, x
<1>8. Handled(p, out)
  BY <1>1, <1>3, <1>4, <1>5, <1>6, <1>7 DEF Handled, TypeOK, q, h
<1>9. Plain(p, out)
  BY <1>1, <1>3, <1>4, <1>6, <1>8 DEF Plain, Asking, q, h
<1> QED  BY <1>9, PlainInv

LEMMA DataStep ==
  ASSUME Inv, NEW p \in Peers, ProcessData(p)
  PROVE  Inv'
<1> DEFINE q == Other(p)
           h == Head(chan[p])
           x == h.item
           out == <<>>
<1>1. h.cmd = "data" /\ h \in Commands /\ x \in Ids /\ chan[p] # <<>>
      /\ TypeOK /\ q \in Peers /\ q # p
  BY HeadTyped, PeersOpposed DEF ProcessData, Incoming, Inv
<1>2. /\ have' = [have EXCEPT ![p] = @ \cup {x}]
      /\ requested' = [requested EXCEPT ![p] = @ \ {x}]
      /\ received' = [received EXCEPT ![p] = @ \cup {x}]
      /\ UNCHANGED <<had_refinements, tree_is_done, received_goodbye>>
      /\ Reply(p, out)
  BY DEF ProcessData
<1>3. out \in Seq(Commands) /\ Elems(out) = {}
  BY NoElems
<1>4. Moved(p, out)
  <2> HIDE DEF out
  <2> QED  BY <1>1, <1>2, <1>3, Moves
<1>5. h = Data(x) /\ \A y : h # SendData(y) /\ (h = Data(y) => y = x)
  BY <1>1 DEF Data, SendData, Commands, Bye
<1> HIDE DEF out, h, q, x
<1>6. /\ have' \in [Peers -> SUBSET Ids] /\ have'[q] = have[q] /\ have'[p] = have[p] \cup {x}
      /\ received' \in [Peers -> SUBSET Ids] /\ received'[q] = received[q]
      /\ received'[p] = received[p] \cup {x}
      /\ requested' \in [Peers -> SUBSET Ids] /\ requested'[q] = requested[q]
      /\ requested'[p] = requested[p] \ {x}
  BY <1>1, <1>2 DEF TypeOK
<1>7. Handled(p, out)
  BY <1>1, <1>2, <1>3, <1>4, <1>5, <1>6 DEF Handled, TypeOK, q, h
<1>8. Plain(p, out)
  BY <1>1, <1>2, <1>3, <1>7 DEF Plain, q, h
<1> QED  BY <1>8, PlainInv

LEMMA ByeStep ==
  ASSUME Inv, NEW p \in Peers, ProcessBye(p)
  PROVE  Inv'
<1> DEFINE q == Other(p)
           h == Head(chan[p])
           out == <<>>
<1>1. h.cmd = "bye" /\ h \in Commands /\ chan[p] # <<>> /\ TypeOK /\ q \in Peers /\ q # p
  BY HeadTyped, PeersOpposed DEF ProcessBye, Incoming, Inv
<1>2. /\ received_goodbye' = [received_goodbye EXCEPT ![p] = TRUE]
      /\ UNCHANGED <<have, requested, received, had_refinements, tree_is_done>>
      /\ Reply(p, out)
  BY DEF ProcessBye
<1>3. out \in Seq(Commands) /\ Elems(out) = {}
  BY NoElems
<1>4. Moved(p, out)
  <2> HIDE DEF out
  <2> QED  BY <1>1, <1>2, <1>3, Moves
<1>5. \A y : h # SendData(y) /\ h # Data(y)
  BY <1>1 DEF Data, SendData
<1>6. received_goodbye' \in [Peers -> BOOLEAN] /\ received_goodbye'[q] = received_goodbye[q]
  BY <1>1, <1>2 DEF TypeOK
<1> HIDE DEF out, h, q
<1>7. Handled(p, out)
  BY <1>1, <1>2, <1>3, <1>4, <1>5, <1>6 DEF Handled, TypeOK, q, h
<1>8. Plain(p, out)
  BY <1>1, <1>2, <1>3, <1>7 DEF Plain, q, h
<1> QED  BY <1>8, PlainInv
(* The done marker: a side without refinements since the last one knows    *)
(* that the other side has none either, that nobody asks, and that no item *)
(* is behind the marker.                                                   *)
LEMMA DoneStep ==
  ASSUME Inv, NEW p \in Peers, ProcessDone(p)
  PROVE  Inv'
<1> DEFINE q == Other(p)
           h == Head(chan[p])
           level == h.level
           out == IF tree_is_done[p] THEN <<>> ELSE <<Done(level + 1)>>
<1>1. q \in Peers /\ q # p /\ (\A r \in Peers : r = p \/ r = q) /\ Other(q) = p
  BY DEF Other, Peers
<1>2. /\ TypeOK /\ ContentsValid /\ Holdings /\ Requests /\ NothingLost /\ OneToken
      /\ TokenMeans /\ TokenLevel /\ DoneIsQuiet /\ Goodbyes /\ Complete
  BY DEF Inv
<1>3. h.cmd = "done" /\ h \in Commands /\ level \in Nat /\ chan[p] # <<>>
  BY HeadTyped DEF ProcessDone, Incoming, Commands, Bye
<1>4. out \in Seq(Commands) /\ \A m \in Elems(out) : m = Done(level + 1) /\ ~tree_is_done[p]
  BY <1>3, NoElems, CommandsTyped
<1>5. /\ UNCHANGED <<have, requested, received, received_goodbye>>
      /\ Reply(p, out)
      /\ had_refinements' = [had_refinements EXCEPT ![p] = @ /\ level < 255 /\ tree_is_done[p]]
      /\ \/ (~had_refinements[p] \/ level >= 255)
             /\ tree_is_done' = [tree_is_done EXCEPT ![p] = TRUE]
         \/ had_refinements[p] /\ level < 255 /\ tree_is_done' = tree_is_done
  BY DEF ProcessDone
<1>6. Moved(p, out)
  <2> HIDE DEF out
  <2> QED  BY <1>2, <1>3, <1>4, <1>5, Moves
<1>7. IsToken(p, 1) /\ 1 \in DOMAIN chan[p] /\ chan[p][1] = h
  BY <1>3, <1>6 DEF Moved, IsToken
<1>8. /\ \A i \in DOMAIN chan[q] : Asking(chan[q][i]) => had_refinements[p]
      /\ \A i \in DOMAIN chan[p] : i > 1 /\ Asking(chan[p][i]) => had_refinements[q]
      /\ \A i \in DOMAIN chan[p] : i > 1 /\ Bearing(chan[p][i]) => had_refinements[p]
      /\ had_refinements[q] => had_refinements[p]
      /\ tree_is_done[p] => tree_is_done[q]
  BY <1>2, <1>7 DEF TokenMeans
<1>9. /\ \A i \in DOMAIN chan[p] : i > 1 /\ chan[p][i].cmd = "refine" => Len(chan[p][i].pref) >= level + 2
      /\ \A i \in DOMAIN chan[q] : chan[q][i].cmd = "refine" => Len(chan[q][i].pref) >= level + 1
      /\ had_refinements[p] => level < Depth
      /\ had_refinements[q] => level + 1 < Depth
  <2>1. LET l == chan[p][1].level
        IN  /\ \A i \in DOMAIN chan[p] : chan[p][i].cmd = "refine" =>
                 Len(chan[p][i].pref) >= IF i < 1 THEN l ELSE l + 2
            /\ \A i \in DOMAIN chan[q] : chan[q][i].cmd = "refine" =>
                 Len(chan[q][i].pref) >= l + 1
            /\ had_refinements[p] => l < Depth
            /\ had_refinements[q] => l + 1 < Depth
    BY <1>2, <1>7 DEF TokenLevel
  <2>2. \A i \in DOMAIN chan[p] : i > 1 => ~(i < 1)
    <3>1. chan[p] \in Seq(Commands)
      BY <1>2 DEF TypeOK
    <3> QED  BY <3>1, LenProperties
  <2>3. chan[p][1].level = level
    BY <1>7
  <2> HIDE DEF level, h
  <2>4. \A i \in DOMAIN chan[p] : i > 1 /\ chan[p][i].cmd = "refine" => Len(chan[p][i].pref) >= level + 2
    BY <2>1, <2>2, <2>3
  <2> QED  BY <2>1, <2>3, <2>4
<1>10. had_refinements[p] => level < 255
  <2>1. level \in Nat /\ Depth \in Nat /\ Depth <= 255
    BY <1>3, IdsTyped
  <2> HIDE DEF level
  <2> QED  BY <1>9, <2>1
<1>11. tree_is_done[p] => ~had_refinements[p] /\ tree_is_done[q]
  BY <1>2, <1>8 DEF DoneIsQuiet
<1>12. tree_is_done \in [Peers -> BOOLEAN] /\ had_refinements \in [Peers -> BOOLEAN]
  BY <1>2 DEF TypeOK
<1>13. /\ tree_is_done' \in [Peers -> BOOLEAN] /\ tree_is_done'[q] = tree_is_done[q]
       /\ tree_is_done'[p] <=> ~had_refinements[p]
       /\ tree_is_done[p] => tree_is_done'[p]
  <2>1. CASE had_refinements[p]
    <3>1. tree_is_done' = tree_is_done
      BY <1>3, <1>5, <1>10, <2>1
    <3> QED  BY <1>11, <1>12, <2>1, <3>1
  <2>2. CASE ~had_refinements[p]
    <3>1. tree_is_done' = [tree_is_done EXCEPT ![p] = TRUE]
      BY <1>5, <2>2
    <3> QED  BY <1>1, <1>12, <2>2, <3>1
  <2> QED  BY <2>1, <2>2
<1>14. /\ had_refinements' \in [Peers -> BOOLEAN] /\ had_refinements'[q] = had_refinements[q]
       /\ ~had_refinements'[p]
  <2>1. had_refinements[p] /\ level < 255 /\ tree_is_done[p] <=> FALSE
    BY <1>11, Zenon
  <2>2. had_refinements' = [had_refinements EXCEPT ![p] = FALSE]
    BY <1>5, <2>1
  <2> QED  BY <1>1, <1>12, <2>2
<1>15. \A m : m = Done(level + 1) => m.cmd = "done" /\ m.level = level + 1 /\ Valid(q, m)
  BY DEF Done, Valid
<1>16. \A y : h # SendData(y) /\ h # Data(y)
  BY <1>3 DEF SendData, Data
<1>17. ~Asking(Bye) /\ ~Bearing(Bye) /\ Bye.cmd # "done" /\ Bye.cmd # "refine"
       /\ \A m : m.cmd = "done" => ~Asking(m) /\ ~Bearing(m) /\ m.cmd # "refine"
  BY DEF Asking, Bearing, Bye
<1>18. Handled(p, out)
  <2> HIDE DEF out, level
  <2> QED  BY <1>2, <1>3, <1>4, <1>5, <1>6, <1>13, <1>14, <1>15, <1>16 DEF Handled, TypeOK
<1> HIDE DEF level
<1>19. TypeOK' /\ ContentsValid' /\ Holdings' /\ Requests' /\ NothingLost'
  <2> HIDE DEF out
  <2> QED  BY <1>2, <1>18, HandledTypeOK, HandledContents, HandledHoldings, HandledRequests,
              HandledNothingLost
<1>20. Goodbyes'
  <2>1. tree_is_done[p] => Elems(out) = {}
    BY NoElems
  <2>2. \A m \in Elems(out) : m.cmd # "data"
    BY <1>4, <1>15
  <2> HIDE DEF out
  <2> QED  BY <1>2, <1>18, <2>1, <2>2, HandledGoodbyes
<1>21. /\ \A i \in DOMAIN chan'[p] :
            i \in Nat \ {0} /\ i + 1 \in DOMAIN chan[p] /\ chan'[p][i] = chan[p][i+1]
       /\ \A i \in DOMAIN chan[q] : i \in DOMAIN chan'[q] /\ chan'[q][i] = chan[q][i]
       /\ DOMAIN chan[q] = 1..Len(chan[q]) /\ Len(chan[q]) \in Nat
       /\ role' = role /\ tree' = tree
  BY <1>6 DEF Moved
<1>22. ASSUME NEW k, IsToken(p, k) PROVE k = 1
  BY <1>2, <1>7, <1>22 DEF OneToken, IsToken
<1>23. \A k : ~IsToken(q, k)
  <2>1. ASSUME NEW k, IsToken(q, k) PROVE FALSE
    BY <1>1, <1>2, <1>7, <2>1 DEF OneToken, IsToken
  <2> QED  BY <2>1
<1>24. \A k : ~IsToken(p, k)'
  <2> SUFFICES ASSUME NEW k, IsToken(p, k)' PROVE FALSE
    OBVIOUS
  <2>1. k \in Nat \ {0} /\ IsToken(p, k + 1)
    BY <1>21 DEF IsToken
  <2> QED  BY <1>22, <2>1
<1>25. ASSUME NEW i \in DOMAIN chan'[p]
       PROVE  /\ Asking(chan'[p][i]) => had_refinements[q]
              /\ Bearing(chan'[p][i]) => had_refinements[p]
              /\ chan'[p][i].cmd = "refine" => Len(chan'[p][i].pref) >= level + 2
  <2>1. i + 1 \in DOMAIN chan[p] /\ i + 1 > 1 /\ chan'[p][i] = chan[p][i+1]
    BY <1>21
  <2> QED  BY <1>8, <1>9, <2>1
<1>26. ASSUME NEW i \in DOMAIN chan'[q]
       PROVE  \/ i \in DOMAIN chan[q] /\ chan'[q][i] = chan[q][i]
              \/ i = Len(chan[q]) + 1 /\ chan'[q][i] = Done(level + 1) /\ ~tree_is_done[p]
              \/ i > Len(chan[q]) /\ chan'[q][i] = Bye
  <2>1. \/ i \in DOMAIN chan[q]
        \/ i > Len(chan[q]) /\ i - Len(chan[q]) \in DOMAIN out
             /\ chan'[q][i] = out[i - Len(chan[q])]
        \/ i > Len(chan[q]) /\ chan'[q][i] = Bye
    <3> HIDE DEF out
    <3> QED  BY <1>6 DEF Moved
  <2>2. ASSUME NEW j \in DOMAIN out PROVE j = 1 /\ out[j] = Done(level + 1) /\ ~tree_is_done[p]
    OBVIOUS
  <2>3. i \in Nat
    <3>1. chan'[q] \in Seq(Commands)
      BY <1>1, <1>6 DEF Moved
    <3> QED  BY <1>26, <3>1, LenProperties
  <2> HIDE DEF out, h, q
  <2>4. CASE i - Len(chan[q]) \in DOMAIN out /\ i > Len(chan[q])
             /\ chan'[q][i] = out[i - Len(chan[q])]
    BY <1>21, <2>2, <2>3, <2>4
  <2> QED  BY <1>21, <2>1, <2>4
<1>27. \A k : IsToken(q, k)' => /\ k = Len(chan[q]) + 1 /\ ~tree_is_done[p]
                               /\ chan'[q][k] = Done(level + 1) /\ k \in DOMAIN chan'[q]
  <2> SUFFICES ASSUME NEW k, IsToken(q, k)'
               PROVE  /\ k = Len(chan[q]) + 1 /\ ~tree_is_done[p]
                      /\ chan'[q][k] = Done(level + 1) /\ k \in DOMAIN chan'[q]
    OBVIOUS
  <2>1. k \in DOMAIN chan'[q] /\ chan'[q][k].cmd = "done"
    BY DEF IsToken
  <2>2. k \in DOMAIN chan[q] => chan[q][k].cmd # "done"
    BY <1>23 DEF IsToken
  <2> QED  BY <1>17, <1>26, <2>1, <2>2
<1>28. ~tree_is_done[p] =>
         \E k \in DOMAIN chan'[q] : chan'[q][k].cmd = "done"
  <2>1. SUFFICES ASSUME ~tree_is_done[p] PROVE \E k \in DOMAIN chan'[q] : chan'[q][k].cmd = "done"
    OBVIOUS
  <2>2. 1 \in DOMAIN out /\ out[1] = Done(level + 1)
    BY <2>1
  <2>3. 1 + Len(chan[q]) \in DOMAIN chan'[q] /\ chan'[q][1 + Len(chan[q])] = Done(level + 1)
    <3> HIDE DEF out
    <3> QED  BY <1>6, <2>2 DEF Moved
  <2>4. chan'[q][1 + Len(chan[q])].cmd = "done"
    BY <1>15, <2>3
  <2> QED  BY <2>3, <2>4
<1>29. OneToken'
  <2>1. ASSUME NEW r \in Peers, NEW t \in Peers, NEW k \in DOMAIN chan'[r], NEW j \in DOMAIN chan'[t],
               IsToken(r, k)', IsToken(t, j)'
        PROVE  r = t /\ k = j
    BY <1>1, <1>24, <1>27, <2>1
  <2>2. ASSUME \A r \in Peers : \A k \in DOMAIN chan'[r] : ~IsToken(r, k)'
        PROVE  \A r \in Peers : tree_is_done'[r]
    <3>1. tree_is_done[p]
      BY <1>1, <1>27, <1>28, <2>2 DEF IsToken
    <3> QED  BY <1>1, <1>11, <1>13, <3>1
  <2> QED  BY <2>1, <2>2 DEF OneToken
<1>30. ASSUME NEW k \in DOMAIN chan'[q], IsToken(q, k)'
       PROVE  /\ \A i \in DOMAIN chan'[p] : Asking(chan'[p][i]) => had_refinements'[q]
              /\ \A i \in DOMAIN chan'[q] : ~(i > k /\ Bearing(chan'[q][i]))
              /\ tree_is_done'[q] => tree_is_done'[p]
  <2>1. k = Len(chan[q]) + 1 /\ ~tree_is_done[p]
    BY <1>27, <1>30
  <2>2. ASSUME NEW i \in DOMAIN chan'[q], i > k PROVE ~Bearing(chan'[q][i])
    BY <1>15, <1>17, <1>21, <1>26, <2>1, <2>2
  <2>3. tree_is_done[q] => ~had_refinements[p]
    BY <1>1, <1>2 DEF DoneIsQuiet
  <2> QED  BY <1>13, <1>14, <1>25, <2>2, <2>3
<1>31. TokenMeans'
  <2>1. \A m : Asking(m) => Bearing(m)
    BY DEF Asking, Bearing
  <2> QED  BY <1>1, <1>14, <1>24, <1>30, <2>1 DEF TokenMeans
<1>32. TokenLevel'
  <2>1. ASSUME NEW k \in DOMAIN chan'[q], IsToken(q, k)'
        PROVE  LET l == chan'[q][k].level
               IN  /\ \A i \in DOMAIN chan'[q] : chan'[q][i].cmd = "refine" =>
                        Len(chan'[q][i].pref) >= IF i < k THEN l ELSE l + 2
                   /\ \A i \in DOMAIN chan'[p] : chan'[p][i].cmd = "refine" =>
                        Len(chan'[p][i].pref) >= l + 1
                   /\ had_refinements'[q] => l < Depth
                   /\ had_refinements'[p] => l + 1 < Depth
    <3>1. k = Len(chan[q]) + 1 /\ chan'[q][k].level = level + 1
      BY <1>15, <1>27, <2>1
    <3>2. ASSUME NEW i \in DOMAIN chan'[q], chan'[q][i].cmd = "refine"
          PROVE  i < k /\ Len(chan'[q][i].pref) >= level + 1
      <4>1. i \in DOMAIN chan[q] /\ chan'[q][i] = chan[q][i]
        BY <1>15, <1>17, <1>26, <3>2
      <4> QED  BY <1>9, <1>21, <3>1, <3>2, <4>1
    <3>3. ASSUME NEW i \in DOMAIN chan'[p], chan'[p][i].cmd = "refine"
          PROVE  Len(chan'[p][i].pref) >= (level + 1) + 1
      <4>1. Len(chan'[p][i].pref) >= level + 2 /\ (level + 1) + 1 = level + 2
        BY <1>3, <1>25, <3>3 DEF level
      <4> QED  BY <4>1
    <3> QED  BY <1>9, <1>14, <3>1, <3>2, <3>3
  <2> QED  BY <1>1, <1>24, <2>1 DEF TokenLevel, IsToken
<1>33. (\E r \in Peers : tree_is_done'[r]) => ~had_refinements[p] /\ ~had_refinements[q]
  <2>1. tree_is_done[q] => ~had_refinements[p]
    BY <1>1, <1>2 DEF DoneIsQuiet
  <2> QED  BY <1>1, <1>8, <1>13, <2>1
<1>34. DoneIsQuiet'
  <2>1. SUFFICES ASSUME ~had_refinements[p], ~had_refinements[q]
                 PROVE  \A r \in Peers : ~had_refinements'[r] /\ \A m \in Elems(chan'[r]) : ~Asking(m)
    BY <1>33 DEF DoneIsQuiet
  <2>2. ASSUME NEW i \in DOMAIN chan'[p] PROVE ~Asking(chan'[p][i])
    BY <1>25, <2>1
  <2>3. ASSUME NEW i \in DOMAIN chan'[q] PROVE ~Asking(chan'[q][i])
    BY <1>8, <1>15, <1>17, <1>26, <2>1
  <2> QED  BY <1>1, <1>14, <2>1, <2>2, <2>3 DEF Elems
<1>35. Complete'
  <2>1. ASSUME ~had_refinements[p], IsSink(p), NEW x \in tree[q] PROVE x \in have[p]
    <3>1. Expected(p, x)
      BY <1>2, <2>1 DEF NothingLost
    <3>2. ASSUME NEW m \in Elems(chan[p]) PROVE ~Bearing(m)
      <4>1. PICK i \in DOMAIN chan[p] : m = chan[p][i]
        BY <3>2 DEF Elems
      <4>2. i \in Nat \ {0}
        BY <1>2, <4>1, LenProperties DEF TypeOK
      <4> QED  BY <1>3, <1>7, <1>8, <1>17, <2>1, <4>1, <4>2
    <3>3. \A m \in Elems(chan[q]) : ~Asking(m)
      BY <1>8, <2>1 DEF Elems
    <3>4. Bearing(Data(x)) /\ Asking(SendData(x)) /\ \A m : m.cmd = "refine" => Asking(m) /\ Bearing(m)
      BY DEF Bearing, Asking, Data, SendData
    <3> QED  BY <3>1, <3>2, <3>3, <3>4 DEF Expected
  <2> QED  BY <1>1, <1>2, <1>5, <1>13, <1>21, <2>1 DEF Complete, IsSink
<1> QED  BY <1>19, <1>20, <1>29, <1>31, <1>32, <1>34, <1>35 DEF Inv

-----------------------------------------------------------------------------
(* The invariant, and what follows from it.                                *)

LEMMA BelowRoot == \A S \in SUBSET Ids : Below(S, Root) = S
<1> SUFFICES ASSUME NEW S \in SUBSET Ids, NEW x \in S PROVE x \in Below(S, Root)
  BY DEF Below
<1>1. Root \in Seq(Slots) /\ Len(Root) = 0 /\ Len(Root) <= Depth
  BY IdsTyped DEF Root
<1>2. \A i \in 1..Len(Root) : x[i] = Root[i]
  BY <1>1
<1> QED  BY <1>1, <1>2, BelowDigits

(* At the start the client's root is on its way, with the marker behind.   *)
LEMMA InvInit == Init => Inv
<1> SUFFICES ASSUME Init PROVE Inv
  OBVIOUS
<1> DEFINE c == "client"
           s == "server"
           node == Refine(tree[c], Root)
<1>1. c \in Peers /\ s \in Peers /\ Other(c) = s /\ Other(s) = c /\ c # s
      /\ \A p \in Peers : p = c \/ p = s
  BY DEF Peers, Other
<1>2. tree \in [Peers -> SUBSET Ids] /\ tree[c] \in SUBSET Ids /\ tree[s] \in SUBSET Ids /\ have = tree
  BY <1>1 DEF Init
<1>3. Root \in Seq(Slots) /\ Len(Root) = 0 /\ Depth \in Nat /\ 0 < Depth
  BY IdsTyped DEF Root
<1>4. node \in Commands /\ Done(0) \in Commands /\ <<node, Done(0)>> \in Seq(Commands)
  <2>1. \A S \in SUBSET Ids : Refine(S, Root) \in Commands
    BY <1>3, CommandsTyped
  <2>2. Done(0) \in Commands
    BY CommandsTyped
  <2>3. node \in Commands
    BY <1>2, <2>1
  <2> HIDE DEF node
  <2> QED  BY <2>2, <2>3
<1>5. node.cmd = "refine" /\ node.pref = Root
      /\ \A t \in Slots : node.slots[t] = Below(tree[c], Extended(Root, t))
  BY DEF Refine
<1>6. Done(0).cmd = "done" /\ Done(0).level = 0
  BY DEF Done
<1> HIDE DEF node
<1>7. /\ chan[c] = <<>> /\ chan[s] = <<node, Done(0)>> /\ chan \in [Peers -> Seq(Commands)]
  <2>1. chan = [client |-> <<>>, server |-> <<node, Done(0)>>]
    BY DEF Init, node
  <2>2. chan.client = <<>> /\ chan.server = <<node, Done(0)>> /\ DOMAIN chan = Peers
    BY <2>1 DEF Peers
  <2>3. chan = [p \in Peers |-> chan[p]]
    BY <2>1 DEF Peers
  <2>4. <<>> \in Seq(Commands)
    OBVIOUS
  <2>5. \A p \in Peers : chan[p] \in Seq(Commands)
    BY <1>1, <1>4, <2>2, <2>4
  <2> QED  BY <2>2, <2>3, <2>5
<1>8. /\ DOMAIN chan[s] = {1, 2} /\ chan[s][1] = node /\ chan[s][2] = Done(0)
      /\ DOMAIN chan[c] = {}
  BY <1>7
<1>9. Elems(chan[c]) = {} /\ Elems(chan[s]) = {node, Done(0)}
  BY <1>8 DEF Elems
<1>10. TypeOK
  BY <1>2, <1>7 DEF Init, TypeOK
<1>11. ContentsValid
  <2>1. Valid(s, node)
    BY <1>1, <1>3, <1>5 DEF Valid
  <2>2. Valid(s, Done(0))
    BY <1>6 DEF Valid
  <2> QED  BY <1>1, <1>9, <2>1, <2>2 DEF ContentsValid
<1>12. Holdings /\ Requests
  BY <1>2 DEF Init, Holdings, Requests
<1>13. NothingLost
  <2>1. ASSUME NEW x \in tree[s] PROVE Expected(c, x)
    <3>1. NodeExists(s, node.pref)
      BY <1>5 DEF NodeExists
    <3>2. x \in Ids
      BY <1>2
    <3>3. x \in Below(Ids, Root)
      BY <3>2, BelowRoot
    <3> QED  BY <1>1, <1>5, <1>9, <3>1, <3>3 DEF Expected
  <2>2. ASSUME NEW x \in tree[c] PROVE Expected(s, x)
    <3>2. x \in Below(tree[c], Root)
      BY <1>2, BelowRoot
    <3>3. PICK t \in Slots : x \in Below(tree[c], Extended(Root, t))
      BY <1>2, <1>3, <3>2, BelowSlots
    <3> QED  BY <1>5, <1>9, <3>3 DEF Expected
  <2> QED  BY <1>1, <2>1, <2>2 DEF NothingLost
<1>14. \A p \in Peers : ~had_refinements[p] /\ ~tree_is_done[p] /\ ~sent_goodbye[p] /\ ~received_goodbye[p]
  BY DEF Init
<1>15. \A p \in Peers : \A k \in DOMAIN chan[p] : IsToken(p, k) <=> p = s /\ k = 2
  BY <1>1, <1>5, <1>6, <1>8 DEF IsToken
<1>16. OneToken
  BY <1>1, <1>8, <1>15 DEF OneToken
<1>17. TokenMeans
  <2>1. \A i \in DOMAIN chan[s] : ~(i > 2)
    BY <1>8
  <2> QED  BY <1>1, <1>8, <1>14, <1>15, <2>1 DEF TokenMeans
<1>18. TokenLevel
  <2>1. \A i \in DOMAIN chan[s] : chan[s][i].cmd = "refine" => i = 1 /\ Len(chan[s][i].pref) = 0
    BY <1>3, <1>5, <1>6, <1>8
  <2> QED  BY <1>1, <1>6, <1>8, <1>14, <1>15, <2>1 DEF TokenLevel
<1>19. DoneIsQuiet /\ Complete
  BY <1>14 DEF DoneIsQuiet, Complete
<1>20. Goodbyes
  <2>1. \A p \in Peers : \A i \in DOMAIN chan[p] : chan[p][i].cmd # "bye"
    BY <1>1, <1>5, <1>6, <1>8
  <2> QED  BY <1>1, <1>14, <2>1 DEF Goodbyes
<1> QED  BY <1>10, <1>11, <1>12, <1>13, <1>16, <1>17, <1>18, <1>19, <1>20 DEF Inv

LEMMA InvNext == Inv /\ [Next]_vars => Inv'
<1>1. ASSUME Inv, NEW p \in Peers, Process(p) PROVE Inv'
  BY <1>1, RefineStep, DoneStep, SendDataStep, DataStep, ByeStep DEF Process
<1>2. ASSUME Inv, UNCHANGED vars PROVE Inv'
  BY <1>2 DEF vars, Inv, TypeOK, ContentsValid, Valid, Holdings, Requests, NothingLost, Expected,
     NodeExists, OneToken, TokenMeans, TokenLevel, DoneIsQuiet, Goodbyes, Complete, IsToken,
     IsSink, IsSource
<1> QED  BY <1>1, <1>2 DEF Next, Terminated
-----------------------------------------------------------------------------
(* The theorems.                                                           *)

(* The inductive invariant holds of every reachable state.                 *)
THEOREM Invariant == Spec => []Inv
<1> QED  BY InvInit, InvNext, PTL DEF Spec

(* The checks of dispatch_payload never reject a command: roles fit, and   *)
(* no refinement comes for a tree its receiver has marked as done.         *)
THEOREM NeverRefused == Spec => []NoProtocolError
<1>1. Inv => NoProtocolError
  <2> SUFFICES ASSUME Inv, NEW p \in Peers, chan[p] # <<>> PROVE Accepted(p, Head(chan[p]))
    BY DEF NoProtocolError
  <2>1. TypeOK /\ ContentsValid /\ DoneIsQuiet
    BY DEF Inv
  <2>2. Head(chan[p]) \in Elems(chan[p])
    <3>1. chan[p] \in Seq(Commands)
      BY <2>1 DEF TypeOK
    <3> QED  BY <3>1, ElemsTail
  <2>3. Valid(p, Head(chan[p])) /\ (tree_is_done[p] => ~Asking(Head(chan[p])))
    BY <2>1, <2>2 DEF ContentsValid, DoneIsQuiet
  <2>4. role[p] \in {"source", "sink", "both"}
    BY <2>1, PeersOpposed
  <2> QED  BY <2>3, <2>4 DEF Accepted, Valid, Asking, IsSource, IsSink
<1> QED  BY <1>1, Invariant, PTL

(* A tree that a side has marked as done is complete on that side.         *)
THEOREM DoneIsComplete == Spec => []DoneMeansComplete
<1>1. Inv => DoneMeansComplete
  <2> SUFFICES ASSUME Inv, NEW p \in Peers, tree_is_done[p]
               PROVE  /\ InFlight(p, "refine") = {}
                      /\ IsSink(p) => tree[Other(p)] \subseteq have[p]
    BY DEF DoneMeansComplete
  <2>1. \A i \in DOMAIN chan[p] : ~Asking(chan[p][i])
    BY DEF Inv, DoneIsQuiet, Elems
  <2> QED  BY <2>1 DEF Inv, Complete, InFlight, Asking
<1> QED  BY <1>1, Invariant, PTL

(* Nothing is lost when a side hangs up.                                   *)
THEOREM HangUpIsSafe == Spec => []NothingCutOff
<1>1. Inv => NothingCutOff
  <2> SUFFICES ASSUME Inv, NEW p \in Peers, Closed(p)
               PROVE  /\ InFlight(p, "send_data") \cup InFlight(p, "data")
                            \cup InFlight(p, "refine") = {}
                      /\ requested[Other(p)] = {}
    BY DEF NothingCutOff
  <2>1. Other(p) \in Peers /\ Other(Other(p)) = p
    BY DEF Other, Peers
  <2>2. /\ tree_is_done[p] /\ requested[Other(p)] = {}
        /\ \A m \in Elems(chan[p]) : m.cmd # "data"
    BY <2>1 DEF Inv, Goodbyes, Closed
  <2>3. \A m \in Elems(chan[p]) : ~Asking(m)
    BY <2>2 DEF Inv, DoneIsQuiet
  <2>4. \A i \in DOMAIN chan[p] : chan[p][i] \in Elems(chan[p])
    BY DEF Elems
  <2> QED  BY <2>2, <2>3, <2>4 DEF InFlight, Asking
<1> QED  BY <1>1, Invariant, PTL

(* What each side holds after a session.                                   *)
THEOREM PostStateHolds == Spec => []PostState
<1>1. Inv => PostState
  <2> SUFFICES ASSUME Inv PROVE PostState
    OBVIOUS
  <2>1. TypeOK /\ Holdings /\ Goodbyes /\ Complete
    BY DEF Inv
  <2>2. \A p \in Peers : Other(p) \in Peers /\ Other(Other(p)) = p
    BY DEF Other, Peers
  <2>3. ASSUME NEW p \in Peers, Closed(p) PROVE tree_is_done[p]
    BY <2>1, <2>2, <2>3 DEF Goodbyes, Closed
  <2>4. ASSUME NEW p \in Peers, Closed(p), IsSink(p) PROVE tree[Other(p)] \subseteq have[p]
    BY <2>1, <2>3, <2>4 DEF Complete
  <2>5. ASSUME Finished, \A p \in Peers : role[p] = "both" PROVE have["client"] = have["server"]
    <3>1. \A p \in Peers : tree[Other(p)] \subseteq have[p]
      BY <2>4, <2>5 DEF Finished, IsSink
    <3>2. "client" \in Peers /\ "server" \in Peers /\ Other("client") = "server" /\ Other("server") = "client"
      BY DEF Peers, Other
    <3> QED  BY <2>1, <3>1, <3>2 DEF Holdings
  <2> QED  BY <2>1, <2>4, <2>5 DEF PostState, Holdings
<1> QED  BY <1>1, Invariant, PTL
=============================================================================
