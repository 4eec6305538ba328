--------------------------- MODULE RevisionWalks ----------------------------
(* The walks over the whole ancestry graph: the candidates for an update   *)
(* (update.cc: acceptable_descendent, calculate_update_set), the heads of  *)
(* a set (revision.cc: erase_ancestors), what is new in one revision       *)
(* (ancestry_difference), both by calculate_ancestors_from_graph, and the  *)
(* order in which revisions are sent and rebuilt (toposort).               *)
(*                                                                         *)
(* Sets are iterated in the order of hashes and multimaps in the order of  *)
(* the database's rows, that is in any order.                              *)
EXTENDS Ancestry, Sequences, SequencesExt

CONSTANT Walks  \* what is asked: [op, revs, base]

\* Revisions are looked up before a walk begins, and an update without a
\* base is refused (commands.cc).
ASSUME WalksTyped ==
  \A w \in Walks :
    /\ w.op \in {"none", "update", "erase", "difference", "sort"}
    /\ w.revs \subseteq Revisions
    /\ w.op \in {"update", "difference"} => w.base \in Revisions

VARIABLES
  walk,        \* the request; of an update, revs are the acceptable revisions
  at,          \* where the walk is
  toTraverse, seen,  \* calculate_update_set: to_traverse, visited
  candidates,  \* its candidates; the argument of erase_ancestors
  todo,        \* the revisions whose ancestors are still to be calculated
  stk,         \* calculate_ancestors_from_graph: its stack
  ancestors,   \* its map from the revisions that are done to their ancestors
  union,       \* the total union of the calls so far
  baseUnion,   \* ancestry_difference: the union of the call for a
  edges,       \* toposort: the edges that are still in the graph
  pcount, roots, sorted,
  result       \* what the walk returns

updateVars == <<toTraverse, seen, candidates>>
ancestorVars == <<todo, stk, ancestors, union, baseUnion>>
topoVars == <<edges, pcount, roots, sorted>>
walkVars == <<walk, at, updateVars, ancestorVars, topoVars, result>>

Places == {"traverse", "erase", "difference", "base", "sort", "done"}

Graph == {e \in (Revisions \cup {NullRev}) \X Revisions : e[1] \in ParentIds(e[2])}

\* acceptable_descendent: its branch cert, and the hook on test results.
AcceptableDescendent(n) == n \in walk.revs

WalkInit ==
  /\ parents \in Ancestries /\ walk \in Walks
  /\ at = CASE walk.op = "update" -> "traverse"
            [] walk.op = "erase" -> "erase"
            [] walk.op = "difference" -> "difference"
            [] walk.op = "sort" -> "sort"
            [] walk.op = "none" -> "done"
  /\ candidates = IF walk.op = "erase" THEN walk.revs
                  ELSE IF walk.op = "update" /\ AcceptableDescendent(walk.base) THEN {walk.base}
                  ELSE {}
  /\ toTraverse \in IF walk.op = "update" THEN SetToSeqs(Children(walk.base)) ELSE {<<>>}
  /\ seen = {}
  /\ todo = IF walk.op \in {"erase", "difference"} THEN walk.revs ELSE {}
  /\ stk = <<>> /\ ancestors = <<>> /\ union = {} /\ baseUnion = {}
  /\ edges = Graph
  /\ pcount = [n \in Revisions \cup {NullRev} |-> Cardinality(ParentIds(n))]
  /\ roots = <<NullRev>> /\ sorted = <<>>
  /\ result = IF walk.op = "none" THEN walk.revs ELSE {}
-----------------------------------------------------------------------------
(* calculate_update_set                                                    *)

Target == toTraverse[Len(toTraverse)]
Others == SubSeq(toTraverse, 1, Len(toTraverse) - 1)

\* This revision was reached before over another path.
SkipTraversed ==
  /\ at = "traverse" /\ toTraverse # <<>> /\ Target \in seen
  /\ toTraverse' = Others
  /\ UNCHANGED <<parents, walk, at, seen, candidates, ancestorVars, topoVars, result>>

\* Variant: the descendents of an unacceptable revision are not looked at.
Traverse_Acceptable ==
  /\ at = "traverse" /\ toTraverse # <<>> /\ Target \notin seen
  /\ seen' = seen \cup {Target}
  /\ candidates' = candidates \cup {n \in {Target} : AcceptableDescendent(n)}
  /\ IF AcceptableDescendent(Target)
     THEN \E cs \in SetToSeqs(Children(Target)) : toTraverse' = Others \o cs
     ELSE toTraverse' = Others
  /\ UNCHANGED <<parents, walk, at, ancestorVars, topoVars, result>>

Traverse ==
  /\ at = "traverse" /\ toTraverse # <<>> /\ Target \notin seen
  /\ seen' = seen \cup {Target}
  /\ candidates' = candidates \cup {n \in {Target} : AcceptableDescendent(n)}
  /\ \E cs \in SetToSeqs(Children(Target)) : toTraverse' = Others \o cs
  /\ UNCHANGED <<parents, walk, at, ancestorVars, topoVars, result>>

StartErase ==
  /\ at = "traverse" /\ toTraverse = <<>>
  /\ at' = "erase" /\ todo' = candidates
  /\ UNCHANGED <<parents, walk, updateVars, stk, ancestors, union, baseUnion, topoVars, result>>
-----------------------------------------------------------------------------
(* calculate_ancestors_from_graph                                          *)

Calculating == stk # <<>>
Us == stk[Len(stk)]

Undone(n) == ParentIds(n) \ DOMAIN ancestors

PushParent ==
  /\ Calculating
  /\ \E p \in Undone(Us) : stk' = Append(stk, p)
  /\ UNCHANGED <<parents, walk, at, updateVars, todo, ancestors, union, baseUnion, topoVars, result>>

\* All parents are done: the node takes their ancestors and them.
Inherited(n) == UNION {{p} \cup ancestors[p] : p \in ParentIds(n)}

PopNode ==
  /\ Calculating /\ Undone(Us) = {}
  /\ ancestors' = [n \in DOMAIN ancestors \cup {Us} |->
                     IF n \in DOMAIN ancestors THEN ancestors[n] ELSE Inherited(Us)]
  /\ IF at = "base" THEN baseUnion' = baseUnion \cup Inherited(Us) /\ UNCHANGED union
     ELSE union' = union \cup Inherited(Us) /\ UNCHANGED baseUnion
  /\ stk' = SubSeq(stk, 1, Len(stk) - 1)
  /\ UNCHANGED <<parents, walk, at, updateVars, todo, topoVars, result>>

\* Variant: the revision itself stays out of the union.
StartNode_NotItself ==
  /\ at \in {"erase", "difference"} /\ ~Calculating
  /\ \E n \in todo : stk' = <<n>> /\ todo' = todo \ {n}
  /\ UNCHANGED <<parents, walk, at, updateVars, ancestors, union, baseUnion, topoVars, result>>

\* The next revision of the set, in any order; a difference takes the
\* revision itself into the union.
StartNode ==
  /\ at \in {"erase", "difference"} /\ ~Calculating
  /\ \E n \in todo :
       /\ stk' = <<n>> /\ todo' = todo \ {n}
       /\ union' = IF at = "difference" THEN union \cup {n} ELSE union
  /\ UNCHANGED <<parents, walk, at, updateVars, ancestors, baseUnion, topoVars, result>>

\* erase_ancestors: what is in no ancestry of another.
EraseAncestors ==
  /\ at = "erase" /\ ~Calculating /\ todo = {}
  /\ result' = candidates \ union
  /\ at' = "done"
  /\ UNCHANGED <<parents, walk, updateVars, ancestorVars, topoVars>>

StartBase ==
  /\ at = "difference" /\ ~Calculating /\ todo = {}
  /\ at' = "base" /\ stk' = <<walk.base>> /\ baseUnion' = {walk.base}
  /\ UNCHANGED <<parents, walk, updateVars, todo, ancestors, union, topoVars, result>>

\* ancestry_difference: what is new in a, without the null revision.
TakeDifference ==
  /\ at = "base" /\ ~Calculating
  /\ result' = (baseUnion \ union) \ {NullRev}
  /\ at' = "done"
  /\ UNCHANGED <<parents, walk, updateVars, ancestorVars, topoVars>>
-----------------------------------------------------------------------------
(* toposort                                                                *)

\* Variant: a child is taken when its first parent is.
Freed_First(n) == {c \in Revisions : <<n, c>> \in edges}

Freed(n) == {c \in Revisions : <<n, c>> \in edges /\ pcount[c] = 1}

SortRoot ==
  /\ at = "sort" /\ roots # <<>>
  /\ LET n == Head(roots)
     IN /\ sorted' = IF n \in walk.revs THEN Append(sorted, n) ELSE sorted
        /\ pcount' = [c \in DOMAIN pcount |-> IF <<n, c>> \in edges THEN pcount[c] - 1 ELSE pcount[c]]
        /\ edges' = {e \in edges : e[1] # n}
        /\ \E cs \in SetToSeqs(Freed(n)) : roots' = Tail(roots) \o cs
  /\ UNCHANGED <<parents, walk, at, updateVars, ancestorVars, result>>

\* I(graph.empty())
SortDone ==
  /\ at = "sort" /\ roots = <<>>
  /\ at' = IF edges = {} THEN "done" ELSE "sort"
  /\ UNCHANGED <<parents, walk, updateVars, ancestorVars, topoVars, result>>

WalkNext ==
  \/ SkipTraversed \/ Traverse \/ StartErase
  \/ PushParent \/ PopNode \/ StartNode \/ EraseAncestors \/ StartBase \/ TakeDifference
  \/ SortRoot \/ SortDone
-----------------------------------------------------------------------------
Returned(op) == at = "done" /\ walk.op = op

\* An update is offered exactly the newest acceptable descendents of its base,
\* also where the branch is left and entered again on the way; a merge is
\* offered exactly the heads.
TargetsRight ==
  /\ Returned("update") =>
       result = HeadsOf({n \in walk.revs : walk.base \in Ancestors(n)})
  /\ Returned("erase") => result = HeadsOf(walk.revs)

\* What is new in a revision is its ancestry without that of the others,
\* although all calls share one map of what was calculated before.
DifferenceRight ==
  Returned("difference") =>
    result = Ancestors(walk.base) \ UNION {Ancestors(b) : b \in walk.revs}

\* Sorting gives every revision asked for once, parents first, and leaves no
\* edge behind.
SortedRight ==
  (at = "sort" /\ roots = <<>>) \/ Returned("sort") =>
    /\ edges = {}
    /\ Len(sorted) = Cardinality(walk.revs) /\ Range(sorted) = walk.revs
    /\ \A i, j \in DOMAIN sorted : i < j => sorted[j] \notin Ancestors(sorted[i])
=============================================================================
