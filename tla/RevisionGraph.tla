--------------------------- MODULE RevisionGraph ----------------------------
(* Commands over the ancestry graph: what a walk returns is what the search *)
(* for an ancestor is asked for.  "update" chooses among the candidates and *)
(* takes the change set from its base to the one chosen; "merge" takes two  *)
(* of the heads of a branch (get_branch_heads); "diff", "explicit_merge"    *)
(* and "lcad" take two revisions from their arguments; netsync and          *)
(* "db changesetify" sort and compare ancestries only (commands.cc).        *)
EXTENDS MergeBase, RevisionWalks

vars == <<mbVars, walkVars>>

NoWalk == [op |-> "none", revs |-> {}, base |-> NullRev]

Init == SearchInit /\ WalkInit

\* The walk has returned, and its locals are gone.
WalkGone ==
  /\ walk' = NoWalk /\ at' = "done" /\ result' = {}
  /\ toTraverse' = <<>> /\ seen' = {} /\ candidates' = {}
  /\ todo' = {} /\ stk' = <<>> /\ ancestors' = <<>> /\ union' = {} /\ baseUnion' = {}
  /\ edges' = {} /\ pcount' = <<>> /\ roots' = <<>> /\ sorted' = <<>>

\* CMD(update): the only candidate, or one that the user has chosen; without
\* one, or with the base itself, nothing is to be done.
Update == /\ Returned("update")
          /\ \E chosen \in result \ {walk.base} : Ask(walk.base, chosen, TRUE)
          /\ WalkGone

\* CMD(merge), try_one_merge: two heads, with or without --lca.
Merge == /\ Returned("erase")
         /\ \E l, r \in result, useLca \in BOOLEAN : l # r /\ Ask(l, r, useLca)
         /\ WalkGone

\* Revisions named on the command line: diff and lcad take the same twice.
Named == /\ Returned("none")
         /\ \E l, r \in result, useLca \in BOOLEAN : Ask(l, r, useLca)
         /\ WalkGone

Next == \/ Update \/ Merge \/ Named
        \/ SearchStep /\ UNCHANGED walkVars
        \/ WalkNext /\ UNCHANGED mbVars

Spec == Init /\ [][Next]_vars /\ WF_vars(Next)

\* Every command comes to the end of its walk and of its search: maps and
\* worklists grow only as far as the ancestry goes.
Ends == <>[](at = "done" /\ stage \in {"idle", "done"})
=============================================================================
