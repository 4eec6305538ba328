----------------------------- MODULE MergeBase ------------------------------
(* The search for the ancestor of a merge, and the composition of the      *)
(* change sets from it to both sides (revision.cc: ensure_parents_loaded,  *)
(* expand_ancestors, expand_dominators, find_intersecting_node,            *)
(* find_common_ancestor_for_merge, find_least_common_ancestor,             *)
(* find_subgraph_for_composite_search, calculate_change_sets_recursive;    *)
(* its callers try_one_merge and calculate_arbitrary_change_set).          *)
(*                                                                         *)
(* Revisions are numbered in the order in which they are met; revisions    *)
(* that are met together, the parents of one child, in the order of their  *)
(* hashes, that is in any order.  The sets of a node grow from round to    *)
(* round, in place, in descending order of the numbers; what a search      *)
(* returns is the lowest number that the two sets share after a round.     *)
EXTENDS Ancestry, Sequences, SequencesExt

VARIABLES
  left, right, lca,  \* the arguments; whether app.use_lca is set
  passes,    \* the order in which a round runs its passes
  ctx,       \* the interner: a revision's number is its place here
  anc, dom,  \* the maps from revisions to what is known of their ancestors and dominators
  pending,   \* the passes of this round that have not begun
  pass,      \* the pass that runs
  nodes,     \* the nodes that it has still to visit
  changed,   \* whether something_changed in this round
  answer,    \* the ancestor; NullRev while there is none
  stage      \* what the caller does

args == <<parents, left, right, lca, passes>>
searchVars == <<args, ctx, anc, dom, pending, pass, nodes, changed, answer>>

VARIABLES
  toCompose, \* the children that a change set is still to be composed for
  subgraph, frontier, nextFrontier,  \* find_subgraph_for_composite_search
  stack,     \* the activations of calculate_change_sets_recursive
  visited,   \* its visited_nodes
  partial,   \* its partial_csets, a change set as the path that it follows
  composed   \* the change sets composed so far

composeVars == <<toCompose, subgraph, frontier, nextFrontier, stack, visited, partial, composed>>
mbVars == <<searchVars, stage, composeVars>>

Stages == {"idle", "search", "subgraph", "compose", "done"}

Num(n) == CHOOSE i \in DOMAIN ctx : ctx[i] = n
Met == {ctx[i] : i \in DOMAIN ctx}

Grown(f, S) == [m \in DOMAIN f \cup S |-> IF m \in DOMAIN f THEN f[m] ELSE {}]

\* The entries of the map are visited highest number first.
Highest(n) == n \in nodes /\ \A m \in nodes : Num(m) <= Num(n)

\* A merge expands both maps, in the order the compiler gives the operands of |.
PassOrders(useLca) ==
  IF useLca THEN {<<"ancestors">>}
  ELSE {<<"ancestors", "dominators">>, <<"dominators", "ancestors">>}
-----------------------------------------------------------------------------
SearchInit ==
  /\ parents \in Ancestries
  /\ left = NullRev /\ right = NullRev /\ lca = FALSE /\ passes = <<>>
  /\ ctx = <<>> /\ anc = <<>> /\ dom = <<>>
  /\ pending = <<>> /\ pass = "none" /\ nodes = {} /\ changed = FALSE
  /\ answer = NullRev /\ stage = "idle"
  /\ toCompose = <<>> /\ subgraph = {} /\ frontier = {} /\ nextFrontier = {}
  /\ stack = <<>> /\ visited = {} /\ partial = <<>> /\ composed = <<>>

\* The caller asks for the ancestor of l and r and for the change sets from
\* it.  The search for a least common ancestor answers at once for l = r;
\* the one for a merge does not look whether they are the same.
Ask(l, r, useLca) ==
  /\ stage = "idle"
  /\ left' = l /\ right' = r /\ lca' = useLca
  /\ passes' \in PassOrders(useLca)
  /\ ctx' = IF l = r THEN <<l>> ELSE <<l, r>>
  /\ anc' = [n \in {l, r} |-> {}]
  /\ dom' = IF useLca THEN <<>> ELSE [n \in {l, r} |-> {}]
  /\ pass' = Head(passes') /\ pending' = Tail(passes')
  /\ nodes' = {l, r}
  /\ IF l = r /\ useLca THEN answer' = l /\ stage' = "subgraph"
     ELSE answer' = NullRev /\ stage' = "search"
  /\ toCompose' = <<l, r>> /\ subgraph' = {l} /\ frontier' = {l}
  /\ UNCHANGED <<parents, changed, nextFrontier, stack, visited, partial, composed>>

\* ensure_parents_loaded: parents met for the first time are numbered.
LoadParents(n) == \E s \in SetToSeqs(parents[n] \ Met) : ctx' = ctx \o s

AncestorsOnVisit(n) ==
  {n} \cup parents[n] \cup UNION {Grown(anc, parents[n])[p] : p \in parents[n] \cup {n}}

\* Variant: a visit always counts as a change.
VisitAncestors_Always ==
  /\ stage = "search" /\ pass = "ancestors"
  /\ \E n \in nodes :
       /\ Highest(n)
       /\ LoadParents(n) /\ nodes' = nodes \ {n}
       /\ anc' = [Grown(anc, parents[n]) EXCEPT ![n] = AncestorsOnVisit(n)]
  /\ changed' = TRUE
  /\ UNCHANGED <<args, dom, pending, pass, answer, stage, composeVars>>

\* expand_ancestors, pass 2, one node.  (A bitset that only becomes longer
\* counts as changed in the code: one more round, with the same sets.)
VisitAncestors ==
  /\ stage = "search" /\ pass = "ancestors"
  /\ \E n \in nodes :
       /\ Highest(n)
       /\ LoadParents(n) /\ nodes' = nodes \ {n}
       /\ anc' = [Grown(anc, parents[n]) EXCEPT ![n] = AncestorsOnVisit(n)]
       /\ changed' = (changed \/ AncestorsOnVisit(n) # anc[n])
  /\ UNCHANGED <<args, dom, pending, pass, answer, stage, composeVars>>

\* Variant: what some parent is dominated by.
SharedDominators_Some(n) ==
  {d \in Revisions : \E p \in parents[n] : d \in Grown(dom, parents[n])[p]}

\* What all parents of n are known to be dominated by; nothing without parents.
SharedDominators(n) ==
  {d \in Revisions : parents[n] # {} /\ \A p \in parents[n] : d \in Grown(dom, parents[n])[p]}

DominatorsOnVisit(n) == dom[n] \cup {n} \cup SharedDominators(n)

\* Variant: only the last node of the pass says whether something changed.
VisitDominators_LastOnly ==
  /\ stage = "search" /\ pass = "dominators"
  /\ \E n \in nodes :
       /\ Highest(n)
       /\ LoadParents(n) /\ nodes' = nodes \ {n}
       /\ dom' = [Grown(dom, parents[n]) EXCEPT ![n] = DominatorsOnVisit(n)]
       /\ changed' = (DominatorsOnVisit(n) # dom[n])
  /\ UNCHANGED <<args, anc, pending, pass, answer, stage, composeVars>>

\* expand_dominators, pass 2, one node.
VisitDominators ==
  /\ stage = "search" /\ pass = "dominators"
  /\ \E n \in nodes :
       /\ Highest(n)
       /\ LoadParents(n) /\ nodes' = nodes \ {n}
       /\ dom' = [Grown(dom, parents[n]) EXCEPT ![n] = DominatorsOnVisit(n)]
       /\ changed' = (changed \/ DominatorsOnVisit(n) # dom[n])
  /\ UNCHANGED <<args, anc, pending, pass, answer, stage, composeVars>>

StartPass(which, rest) ==
  /\ pass' = which /\ pending' = rest
  /\ nodes' = IF which = "ancestors" THEN DOMAIN anc ELSE DOMAIN dom

NextPass ==
  /\ stage = "search" /\ nodes = {} /\ pending # <<>>
  /\ StartPass(Head(pending), Tail(pending))
  /\ UNCHANGED <<args, ctx, anc, dom, changed, answer, stage, composeVars>>

\* find_intersecting_node: the lowest number in both sets.
Intersecting(n, S, T) == n \in S \cap T /\ \A m \in S \cap T : Num(n) <= Num(m)

\* The set of right that a search holds on to.  For right = left a merge has
\* inserted a second set under the same number, which does nothing: the set
\* is not in the map, and no round adds to it.
RightSet(f) == IF right = left THEN {} ELSE f[right]

\* The sets compared after a round, in this order.
Compared == IF lca THEN << <<anc[left], RightSet(anc)>> >>
            ELSE << <<anc[left], RightSet(dom)>>, <<RightSet(anc), dom[left]>> >>
Meeting == {i \in DOMAIN Compared : Compared[i][1] \cap Compared[i][2] # {}}

RoundOver == stage = "search" /\ nodes = {} /\ pending = <<>>

Found ==
  /\ RoundOver /\ changed
  /\ \E i \in Meeting : /\ \A k \in Meeting : i <= k
                       /\ \E n \in Revisions : /\ Intersecting(n, Compared[i][1], Compared[i][2])
                                               /\ answer' = n
  /\ stage' = "subgraph"
  /\ UNCHANGED <<args, ctx, anc, dom, pending, pass, nodes, changed, composeVars>>

NextRound ==
  /\ RoundOver /\ changed /\ Meeting = {}
  /\ StartPass(Head(passes), Tail(passes))
  /\ changed' = FALSE
  /\ UNCHANGED <<args, ctx, anc, dom, answer, stage, composeVars>>

NotFound ==
  /\ RoundOver /\ ~changed
  /\ stage' = "done"
  /\ UNCHANGED <<searchVars, composeVars>>
-----------------------------------------------------------------------------
(* calculate_composite_change_set(answer, child), for left and then right. *)

Child == Head(toCompose)

\* A scan starts from the child that is next.
SubgraphSeed(children) == {children[i] : i \in DOMAIN children \cap {1}}

\* The change set of this child is ready; what the next call starts with.
FinishComposite(path) ==
  /\ composed' = Append(composed, path)
  /\ toCompose' = Tail(toCompose)
  /\ stage' = IF Len(toCompose) = 1 THEN "done" ELSE "subgraph"
  /\ subgraph' = SubgraphSeed(Tail(toCompose)) /\ frontier' = subgraph' /\ nextFrontier' = {}
  /\ stack' = <<>> /\ visited' = {} /\ partial' = <<>>

SameRevision ==
  /\ stage = "subgraph" /\ answer = Child
  /\ FinishComposite(<<answer>>)
  /\ UNCHANGED searchVars

\* The parents of a frontier node that the scan takes before it returns.
Scanned(ps) == {ps[i] : i \in {j \in DOMAIN ps : \A k \in 1..(j - 1) : ps[k] # answer}}

\* calculate_change_sets_recursive is entered for rev.
Entered(rev) == {[rev |-> rev, edges |-> ps] : ps \in SetToSeqs(parents[rev])}

\* One frontier node: its parents join the subgraph.
ScanNode(n, seen) ==
  /\ subgraph' = subgraph \cup seen
  /\ frontier' = IF frontier = {n} THEN nextFrontier \cup seen ELSE frontier \ {n}
  /\ nextFrontier' = IF frontier = {n} THEN {} ELSE nextFrontier \cup seen

\* The scan returns at the ancestor, or when there is nothing left to scan.
ExpandFrontier ==
  /\ stage = "subgraph" /\ answer # Child
  /\ \E n \in frontier : \E ps \in SetToSeqs(parents[n]) :
       /\ ScanNode(n, Scanned(ps))
       /\ IF answer \in Scanned(ps) \/ frontier' = {}
          THEN /\ stage' = "compose"
               /\ \E frame \in Entered(Child) : stack' = <<frame>>
               /\ visited' = {Child}
          ELSE UNCHANGED <<stage, stack, visited>>
  /\ UNCHANGED <<searchVars, toCompose, partial, composed>>

Top == stack[Len(stack)]
Callers == SubSeq(stack, 1, Len(stack) - 1)

\* partial_csets.insert
Cached(rev, path) == [n \in DOMAIN partial \cup {rev} |-> IF n = rev THEN path ELSE partial[n]]

\* Variant: irrelevant activations are cached too.
Return_Cached(relevant, path) ==
  IF Len(stack) = 1 THEN FinishComposite(IF relevant THEN path ELSE <<>>)
  ELSE /\ stack' = Callers
       /\ partial' = Cached(Top.rev, path)
       /\ UNCHANGED <<stage, toCompose, subgraph, frontier, nextFrontier, visited, composed>>

\* An activation returns: true with the path to its revision, or false.
Return(relevant, path) ==
  IF Len(stack) = 1 THEN FinishComposite(IF relevant THEN path ELSE <<>>)
  ELSE /\ stack' = Callers
       /\ partial' = IF relevant THEN Cached(Top.rev, path) ELSE partial
       /\ UNCHANGED <<stage, toCompose, subgraph, frontier, nextFrontier, visited, composed>>

\* The next edge of the innermost activation leads to a parent with a path.
RelevantParent ==
  /\ stage = "compose" /\ Top.edges # <<>>
  /\ LET p == Head(Top.edges)
     IN \/ p = answer /\ Return(TRUE, <<answer, Top.rev>>)
        \/ p \in DOMAIN partial /\ Return(TRUE, Append(partial[p], Top.rev))
  /\ UNCHANGED searchVars

\* It was explored in vain, or is outside of the subgraph.
SkipParent ==
  /\ stage = "compose" /\ Top.edges # <<>>
  /\ LET p == Head(Top.edges)
     IN /\ p # answer /\ p \notin DOMAIN partial
        /\ p \in visited \/ p \notin subgraph
  /\ stack' = [stack EXCEPT ![Len(stack)].edges = Tail(@)]
  /\ UNCHANGED <<searchVars, stage, toCompose, subgraph, frontier, nextFrontier, visited, partial, composed>>

\* It has not been seen: the function calls itself.
ExploreParent ==
  /\ stage = "compose" /\ Top.edges # <<>>
  /\ LET p == Head(Top.edges)
     IN /\ p # answer /\ p \notin visited /\ p \in subgraph
        /\ visited' = visited \cup {p}
        /\ \E frame \in Entered(p) : stack' = Append(stack, frame)
  /\ UNCHANGED <<searchVars, stage, toCompose, subgraph, frontier, nextFrontier, partial, composed>>

Exhausted ==
  /\ stage = "compose" /\ Top.edges = <<>>
  /\ Return(FALSE, <<>>)
  /\ UNCHANGED searchVars

SearchStep ==
  \/ VisitAncestors \/ VisitDominators \/ NextPass \/ NextRound \/ Found \/ NotFound
  \/ SameRevision \/ ExpandFrontier
  \/ RelevantParent \/ SkipParent \/ ExploreParent \/ Exhausted

SearchNext == SearchStep \/ \E l, r \in Revisions, useLca \in BOOLEAN : Ask(l, r, useLca)

SearchSpec == SearchInit /\ [][SearchNext]_mbVars
-----------------------------------------------------------------------------
Acceptable ==
  IF lca THEN Ancestors(left) \cap Ancestors(right)
  ELSE (Ancestors(left) \cap Dominators(right)) \cup
       (Ancestors(right) \cap Dominators(left))

\* Type correctness.
SearchTypeOK ==
  /\ parents \in [Revisions -> SUBSET Revisions]
  /\ left \in Revisions \cup {NullRev} /\ right \in Revisions \cup {NullRev} /\ lca \in BOOLEAN
  /\ ctx \in Seq(Revisions)
  /\ anc \in [DOMAIN anc -> SUBSET Revisions] /\ DOMAIN anc \subseteq Revisions
  /\ dom \in [DOMAIN dom -> SUBSET Revisions] /\ DOMAIN dom \subseteq Revisions
  /\ answer \in Revisions \cup {NullRev}
  /\ stage \in Stages

\* Whatever the order in which sets are expanded in place and numbers are
\* given, what is returned descends to both sides, and for a merge no path
\* to one of them avoids it.
AnswerSound == answer # NullRev => answer \in Acceptable

\* A search gives up only when there is nothing to find: the sets have not
\* stopped to grow while an entry was still to be updated.  The exception is
\* the merge of a revision with itself, for which the code finds nothing.
AnswerComplete ==
  stage = "done" /\ answer = NullRev => Acceptable = {} \/ (left = right /\ ~lca)

\* p follows parents from the answer to n, one edge after the other.
IsPathTo(p, n) ==
  /\ p # <<>> /\ p[1] = answer /\ p[Len(p)] = n
  /\ \A i \in 1..(Len(p) - 1) : p[i] \in parents[p[i + 1]]

\* Both change sets are composed of the edges of one path from the ancestor:
\* the scan has not returned before a path was in the subgraph, and no part
\* of it was taken for irrelevant.
PathsWhole ==
  stage = "done" /\ answer # NullRev =>
    /\ Len(composed) = 2
    /\ IsPathTo(composed[1], left) /\ IsPathTo(composed[2], right)
=============================================================================
