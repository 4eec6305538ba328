--------------------------- MODULE ChangeSetMerge ---------------------------
(* The merge of two change sets from one ancestor (change_set.cc): each     *)
(* side gets a change set that adds what the other has done, such that both *)
(* ways from the ancestor are the same change set.                          *)
(*                                                                          *)
(* Conflicting renames are resolved by a hook (external: it answers with    *)
(* either of the two names), conflicting contents by a merge of texts       *)
(* (external: its result has the marks of both).                            *)
EXTENDS ChangeSet

\* ensure_no_rename_clobbers: where a thing of the ancestor that only a knows
\* is under b, b has put nothing.
NoRenameClobbers(a, b) ==
  LET known == Paths(Located(b.first))
      used == Paths(Located(b.second))
  IN \A p \in Paths(Located(a.first)) \ known : Reconstructed(p, b.first, b.second) \notin used

\* extend_renumbering_via_added_files: a file that b adds is what a has in the
\* same directory under the same name, if that is a file.
AddedInBoth(a, b, same) ==
  LET fresh == {e.tid : e \in {x \in b.first : x.type = "file" /\ x.name = NoName}}
      added == {e \in Named(b.second) : e.tid \in fresh}
      parent(e) == IF e.parent \in DOMAIN same THEN same[e.parent] ELSE e.parent
      match(e) == {x \in a.second : x.type = "file" /\ x.parent = parent(e) /\ x.name = e.name}
  IN [t \in {e.tid : e \in {x \in added : match(x) # {}}} |->
        (CHOOSE x \in match(At(b.second, t)) : TRUE).tid]

\* The first half of merge_disjoint_analyses: what of b is what of a.
Renumbering(a, b) ==
  LET bFirst == Ensured(<<"b", "all">>, "old", b.first, Missing(a.first, b.first))
      aFirst == Ensured(<<"a", "all">>, "old", a.first, Missing(bFirst, a.first))
      aAll == [first |-> aFirst, second |-> Ensured(<<"a", "all">>, "new", a.second, Missing(aFirst, a.second))]
      bAll == [first |-> bFirst, second |-> Ensured(<<"b", "all">>, "new", b.second, Missing(bFirst, b.second))]
      same == Identified(Located(bFirst), Located(aFirst))
      more == AddedInBoth(aAll, bAll, same)
  IN [t \in DOMAIN same \cup DOMAIN more |-> IF t \in DOMAIN same THEN same[t] ELSE more[t]]

Common(a, b) == Tids(a.first) \cap Tids(b.first)

\* What both have changed, and not in the same way.
Conflicts(a, b) ==
  {t \in Common(a, b) : LET x == At(a.second, t)
                            y == At(b.second, t)
                        IN x # y /\ At(a.first, t) # x /\ At(b.first, t) # y}

\* resolve_conflict: a deletion goes before a rename, else a hook chooses
\* among the two paths, and a's is looked at first.
Resolutions(a, b) ==
  LET answers(t) ==
        LET x == At(a.second, t)
            y == At(b.second, t)
        IN CASE x.name = NoName -> {x}
             [] x.name # NoName /\ y.name = NoName -> {y}
             [] x.name # NoName /\ y.name # NoName ->
                  IF FullPath(a.second, t) = FullPath(b.second, t) THEN {x} ELSE {x, y}
  IN {f \in [Conflicts(a, b) -> a.second \cup b.second] : \A t \in DOMAIN f : f[t] \in answers(t)}

\* project_missing_changes: what a has done and b has not, after b.  None if
\* the two do not agree on the ancestor.
MissingChanges(a, b, resolved) ==
  LET ours == {t \in Common(a, b) : LET x == At(a.second, t)
                                        y == At(b.second, t)
                                    IN /\ x # y /\ At(a.first, t) # x
                                       /\ At(b.first, t) = y \/ resolved[t] = x}
      alone == Tids(a.first) \ Tids(b.first)
      first == {At(b.second, t) : t \in ours} \cup {At(a.first, t) : t \in alone}
      second == {At(a.second, t) : t \in ours \cup alone}
      allFirst == first \cup {e \in b.second : e.tid \notin Tids(first)}
  IN IF \E t \in Common(a, b) : At(a.first, t) # At(b.first, t) THEN {}
     ELSE {[first |-> allFirst, second |-> second \cup {e \in allFirst : e.tid \notin Tids(second)}]}

\* rebuild_analysis: the same with identifiers of its own.
Rebuilt(an) ==
  LET f == [t \in Tids(an.first) |-> <<Append(t[1], "again"), t[2], t[3]>>]
  IN [first |-> Renumbered(an.first, f), second |-> Renumbered(an.second, f)]

Composites(an, then) ==
  IF Sane(then.first) /\ Sane(then.second) THEN {Compose(c) : c \in ConcatenatedAnalyses(an, Rebuilt(then))} ELSE {}

\* merge_disjoint_analyses: b as it is renumbered, and what is to be done after
\* a and after b.  Both ways are the same rearrangement, or the merge fails.
MergedAnalyses(a, b) ==
  LET same == Renumbering(a, b)
      bb == [first |-> Renumbered(b.first, same), second |-> Renumbered(b.second, same)]
  IN IF ~NoRenameClobbers(a, b) \/ ~NoRenameClobbers(b, a) \/ ~Sane(bb.first) \/ ~Sane(bb.second) THEN {}
     ELSE {m \in UNION {{[other |-> bb, afterA |-> x, afterB |-> y] :
                           x \in MissingChanges(bb, a, f), y \in MissingChanges(a, bb, f)} : f \in Resolutions(a, bb)} :
             /\ Composites(a, m.afterA) # {}
             /\ Composites(a, m.afterA) = Composites(b, m.afterB)}
-----------------------------------------------------------------------------
(* The deltas                                                               *)

\* The merge of two texts: what one has taken out or put in is out or in.
MergedText(anc, l, r) == (l \cap r) \cup ((l \cup r) \ anc)

\* project_missing_deltas: those of a's deltas that b has to get.  A delta goes
\* to the ancestor's path and from there to b's; a file that b deletes gets
\* none.  Where b has a delta of its own, an addition goes before a change and
\* two changes are merged.
MissingDeltas(a, b, an, bn, afterA) ==
  LET inAnc == [p \in DOMAIN a.deltas |-> Reconstructed(p, an.second, an.first)]
      inB == [p \in DOMAIN a.deltas |-> Reconstructed(inAnc[p], bn.first, bn.second)]
      inMerged == [p \in DOMAIN a.deltas |-> Reconstructed(p, afterA.first, afterA.second)]
      wanted == {p \in DOMAIN a.deltas : inAnc[p] \notin b.re.deleted \/ inMerged[p] \in a.re.added}
      both == {p \in wanted : inB[p] \in DOMAIN b.deltas}
      theirs(p) == b.deltas[inB[p]]
      apart == {p \in both : a.deltas[p].from # theirs(p).from}
      changed == {p \in both \ apart : a.deltas[p].to # theirs(p).to}
      result(p) == IF p \notin changed THEN a.deltas[p]
                   ELSE Delta(theirs(p).to, MergedText(theirs(p).from, a.deltas[p].to, theirs(p).to))
      news == (wanted \ both) \cup {p \in apart : a.deltas[p].from = NoContent}
              \cup {p \in changed : result(p).to # theirs(p).to}
  IN IF \/ \E p \in wanted \ both : inMerged[p] \in DOMAIN b.deltas
        \/ \E p \in apart : a.deltas[p].from # NoContent /\ theirs(p).from # NoContent
        \/ Cardinality({inMerged[p] : p \in news}) # Cardinality(news)
     THEN {}
     ELSE {[q \in {inMerged[p] : p \in news} |-> result(CHOOSE p \in news : inMerged[p] = q)]}

\* The second half of merge_change_sets: both ways with their deltas are the
\* same change set, or the merge fails.
MergedOver(a, b, an, m) ==
  UNION {
    LET left == [re |-> Compose(m.afterA), deltas |-> ds[1]]
        right == [re |-> Compose(m.afterB), deltas |-> ds[2]]
        viaA == ConcatenatedSets(a, left)
    IN IF viaA = {} \/ viaA # ConcatenatedSets(b, right) THEN {}
       ELSE {[left |-> l, right |-> r] : l \in Finished(left.re, left.deltas), r \in Finished(right.re, right.deltas)}
    : ds \in MissingDeltas(b, a, m.other, an, m.afterB) \X MissingDeltas(a, b, an, m.other, m.afterA)}

\* merge_change_sets: what is to be done after a and after b.
MergedSets(a, b) ==
  UNION {UNION {MergedOver(a, b, an, m) : m \in UNION {MergedAnalyses(an, bn) : bn \in SaneChangeSet(b, <<"b">>)}} :
           an \in SaneChangeSet(a, <<"a">>)}
=============================================================================
