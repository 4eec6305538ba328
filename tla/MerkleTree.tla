----------------------------- MODULE MerkleTree -----------------------------
(***************************************************************************)
(* The merkle trees netsync compares (merkle_tree.cc).  An item's hash is  *)
(* a sequence of Depth digits; a node lives at a prefix of such a          *)
(* sequence; its slots are empty, a live or dead leaf, or a subtree.  The  *)
(* hash of a node is modelled as the contents that are hashed, so two      *)
(* hashes are equal exactly when the texts of the nodes are (SHA1 is taken *)
(* to have no collisions).                                                 *)
(***************************************************************************)
EXTENDS Naturals, Sequences, FiniteSets, FiniteSetsExt, Functions

CONSTANTS Fanout,   \* slots of a node (constants::merkle_num_slots)
          Depth,    \* digits of a hash
          Leaves    \* the hashes that may be inserted

Slots == 0..(Fanout - 1)

ASSUME LeavesTyped ==
  Fanout \in Nat \ {0} /\ Depth \in Nat \ {0} /\ Leaves \subseteq [1..Depth -> Slots]

EmptyHash == <<>>   \* the id() put in a subtree slot whose node has changed
Root == <<>>        \* get_root_prefix()

VARIABLES tab,      \* merkle_table: the nodes by prefix
          alive     \* history: what was inserted last for each leaf

vars == <<tab, alive>>

-----------------------------------------------------------------------------
(* pick_slot_and_prefix_for_value.                                         *)
PrefixAt(leaf, level) == SubSeq(leaf, 1, level)
SlotAt(leaf, level) == leaf[level + 1]

Empty == [st |-> "empty", val |-> EmptyHash]
Subtree(h) == [st |-> "subtree", val |-> h]
Leaf(leaf, live_p) == [st |-> IF live_p THEN "live" ELSE "dead", val |-> leaf]
IsLeaf(e) == e.st \in {"live", "dead"}

EmptyNode == [total |-> 0, slots |-> [s \in Slots |-> Empty]]

(* Variant: the number stored in the node is not updated.                  *)
WithLeaf_Uncounted(node, slot, leaf, live_p) ==
  [total |-> node.total, slots |-> [node.slots EXCEPT ![slot] = Leaf(leaf, live_p)]]

(* A node about to receive a leaf in an empty slot.                        *)
WithLeaf(node, slot, leaf, live_p) ==
  [total |-> node.total + 1,
   slots |-> [node.slots EXCEPT ![slot] = Leaf(leaf, live_p)]]

WithSlot(t, pref, slot, e) == [t EXCEPT ![pref].slots[slot] = e]

(* Variant: a subtree slot keeps its hash.                                 *)
WithStaleSubtree_Kept(t, pref, slot) ==
  IF t[pref].slots[slot].st = "subtree" THEN t
  ELSE WithSlot(t, pref, slot, Subtree(EmptyHash))

(* Something changed below the slot: its hash is to be recalculated.       *)
WithStaleSubtree(t, pref, slot) == WithSlot(t, pref, slot, Subtree(EmptyHash))

(* insert_into_merkle_tree.                                                *)
RECURSIVE Inserted(_, _, _, _)
Inserted(t, live_p, leaf, level) ==
  LET pref == PrefixAt(leaf, level)
      slot == SlotAt(leaf, level)
      old  == t[pref].slots[slot]
  IN  CASE pref \notin DOMAIN t ->
             [q \in DOMAIN t \cup {pref} |->
                IF q = pref THEN WithLeaf(EmptyNode, slot, leaf, live_p) ELSE t[q]]
        [] pref \in DOMAIN t /\ old.st = "empty" ->
             [t EXCEPT ![pref] = WithLeaf(@, slot, leaf, live_p)]
        [] pref \in DOMAIN t /\ IsLeaf(old) /\ old.val = leaf ->
             WithSlot(t, pref, slot, Leaf(leaf, live_p))
        [] pref \in DOMAIN t /\ IsLeaf(old) /\ old.val # leaf ->
             LET pushed == Inserted(t, old.st = "live", old.val, level + 1)
             IN  WithStaleSubtree(Inserted(pushed, live_p, leaf, level + 1), pref, slot)
        [] pref \in DOMAIN t /\ old.st = "subtree" ->
             WithStaleSubtree(Inserted(t, live_p, leaf, level + 1), pref, slot)

(* hash_merkle_node: what write_node puts down for the node at pref.       *)
HashOf(t, pref) == [level |-> Len(pref), pref |-> pref, node |-> t[pref]]

(* recalculate_merkle_codes: only the subtree slots whose hash is empty    *)
(* are descended into.                                                     *)
RECURSIVE Recalculated(_, _)
Recalculated(t, pref) ==
  LET stale == {s \in Slots : t[pref].slots[s] = Subtree(EmptyHash)}
      below == FoldSet(LAMBDA s, u : Recalculated(u, Append(pref, s)), t, stale)
  IN  [below EXCEPT ![pref].slots =
         [s \in Slots |-> IF s \in stale THEN Subtree(HashOf(below, Append(pref, s)))
                                         ELSE @[s]]]

-----------------------------------------------------------------------------
(* make_root_node.                                                         *)
Init ==
  /\ tab = [p \in {Root} |-> EmptyNode]
  /\ alive = [l \in {} |-> TRUE]

Insert(leaf, live_p) ==
  /\ tab' = Inserted(tab, live_p, leaf, 0)
  /\ alive' = [l \in DOMAIN alive \cup {leaf} |->
                 IF l = leaf THEN live_p ELSE alive[l]]

Recalculate ==
  /\ tab' = Recalculated(tab, Root)
  /\ UNCHANGED alive

Next ==
  \/ \E leaf \in Leaves, live_p \in BOOLEAN : Insert(leaf, live_p)
  \/ Recalculate

Spec == Init /\ [][Next]_vars

-----------------------------------------------------------------------------
(* Properties.                                                             *)

(* The leaves of the set L below a prefix.                                 *)
Below(L, pref) == {l \in L : PrefixAt(l, Len(pref)) = pref}

Prefixes == UNION {[1..n -> Slots] : n \in 0..Depth}

(* The one tree for a set of leaves, from its definition: a node wherever  *)
(* two leaves share a prefix, and the root; hashes left out.               *)
ReferenceSlot(a, pref, s) ==
  LET L == Below(DOMAIN a, Append(pref, s))
  IN  CASE L = {} -> Empty
        [] Cardinality(L) = 1 -> LET l == CHOOSE l \in L : TRUE IN Leaf(l, a[l])
        [] OTHER -> Subtree(EmptyHash)

Reference(a) ==
  LET nodes == {p \in Prefixes : p = Root \/ Cardinality(Below(DOMAIN a, p)) > 1}
  IN  [p \in nodes |-> [s \in Slots |-> ReferenceSlot(a, p, s)]]

WithoutHashes(t) ==
  [p \in DOMAIN t |->
    [s \in Slots |-> IF t[p].slots[s].st = "subtree" THEN Subtree(EmptyHash)
                                                     ELSE t[p].slots[s]]]

(* Whatever the order of the inserts, with leaves pushed down, revived and *)
(* killed, the table is the one tree of the leaves inserted; the number    *)
(* stored in a node is that of its slots in use.  Two peers with the same  *)
(* items have the same tree, which is what comparing hashes relies on.     *)
Canonical ==
  /\ WithoutHashes(tab) = Reference(alive)
  /\ \A p \in DOMAIN tab :
       tab[p].total = Cardinality({s \in Slots : tab[p].slots[s].st # "empty"})

(* Recalculation trusts the hashes that are not empty: such a hash is that *)
(* of the node below as it is now, all the way down, never one of an       *)
(* earlier state of the subtree.                                           *)
NoStaleHash ==
  \A p \in DOMAIN tab, s \in Slots :
    LET e == tab[p].slots[s]
    IN  e.st = "subtree" /\ e.val # EmptyHash => e.val = HashOf(tab, Append(p, s))
=============================================================================
