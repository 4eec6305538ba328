----------------------------- MODULE ItemStore ------------------------------
(***************************************************************************)
(* What the writers of the database promise its readers: a set of items    *)
(* that only grows, one item at a time, each written when all it refers to *)
(* is already there.                                                       *)
(***************************************************************************)
CONSTANTS Items, Needs(_), InitDb
VARIABLE items

Init == items = InitDb

Put(x) ==
  /\ Needs(x) \subseteq items
  /\ items' = items \cup {x}

Next == \E x \in Items : Put(x)

Spec == Init /\ [][Next]_items
=============================================================================
