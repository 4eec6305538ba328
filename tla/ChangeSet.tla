----------------------------- MODULE ChangeSet ------------------------------
(* Change sets (change_set.cc): what one says of files and directories is  *)
(* analyzed into two states of a tree, before and after; change sets are   *)
(* concatenated by identifying the state after the first with the one      *)
(* before the second.                                                      *)
(*                                                                         *)
(* A path is a sequence of names, a content a set of marks and no content  *)
(* the empty set.  A path_state is a set of entries.  An operation returns *)
(* the set of its possible results: none where an I() or N() fails.  The   *)
(* code keeps one entry of two that come to bear one tid, here the state   *)
(* is insane.  A directory is never deleted: "drop <directory>" is         *)
(* disabled (work.cc:214).                                                 *)
EXTENDS Naturals, Sequences, FiniteSets, SequencesExt

Root == <<>>
NoName == ""
NoContent == {}

\* A path_rearrangement: sets of paths, and the renames of both kinds.
Rearrangement(deleted, renamed, added) ==
  [deleted |-> deleted, renamed |-> renamed, added |-> added]
NoChange == Rearrangement({}, {}, {})

Item(t, p, type, n) == [tid |-> t, parent |-> p, type |-> type, name |-> n]

\* What does not exist in a state is in it without a name, below the root.
Null(t, type) == Item(t, Root, type, NoName)

Tids(st) == {e.tid : e \in st}
At(st, t) == CHOOSE e \in st : e.tid = t
Named(st) == {e \in st : e.name # NoName}

\* get_full_path
RECURSIVE FullPath(_, _)
FullPath(st, t) == IF t = Root THEN <<>> ELSE LET e == At(st, t) IN Append(FullPath(st, e.parent), e.name)

\* index_entries
Located(st) == {[path |-> FullPath(st, e.tid), type |-> e.type, tid |-> e.tid] : e \in Named(st)}
Paths(L) == {l.path : l \in L}

RECURSIVE Below(_, _)
Below(st, S) ==
  LET T == S \cup {e.tid : e \in {x \in st : x.parent \in S}}
  IN IF T = S THEN S ELSE Below(st, T)

\* sanity_check_path_state: every entry is below the root, and no two entries
\* of a directory have one name.
Sane(st) ==
  /\ Cardinality(Tids(st)) = Cardinality(st) /\ Root \notin Tids(st)
  /\ Tids(st) \subseteq Below(st, {Root})
  /\ \A e \in st : e.parent # Root => At(st, e.parent).type = "dir"
  /\ \A e \in st \ Named(st) : e.parent = Root
  /\ Cardinality({<<e.parent, e.name>> : e \in Named(st)}) = Cardinality(Named(st))

\* sanity_check_path_analysis
SaneAnalysis(an) ==
  /\ Sane(an.first) /\ Sane(an.second)
  /\ {<<e.tid, e.type>> : e \in an.first} = {<<e.tid, e.type>> : e \in an.second}
-----------------------------------------------------------------------------
(* analyze_rearrangement and compose_rearrangement                         *)

\* A transient identifier: who needed it first, in which state, and where.
Tid(who, side, p) == IF p = <<>> THEN Root ELSE <<who, side, p>>

Files(ps) == {[path |-> p, type |-> "file"] : p \in ps}
Above(S) == UNION {{[path |-> SubSeq(n.path, 1, i), type |-> "dir"] : i \in 1..(Len(n.path) - 1)} : n \in S}

\* ensure_file_in_map, ensure_dir_in_map: S is mentioned in an empty state.
Mentioned(who, side, S) ==
  {Item(Tid(who, side, n.path), Tid(who, side, Front(n.path)), n.type, Last(n.path)) : n \in S \cup Above(S)}

\* The same in a state that has entries; if one of them has another type, the
\* directory has two entries of one name.
Ensured(who, side, st, S) ==
  LET have == Located(st)
      new == {n \in S \cup Above(S) : \A h \in have : h.path # n.path \/ h.type # n.type}
      tidOf(p) == IF p \in Paths(have) THEN (CHOOSE h \in have : h.path = p).tid ELSE Tid(who, side, p)
  IN st \cup {Item(Tid(who, side, n.path), tidOf(Front(n.path)), n.type, Last(n.path)) : n \in new}

\* ensure_entries_exist: what st names and the other state does not have.
Missing(st, other) ==
  LET gone == Tids(st) \ Tids(other)
  IN {[path |-> FullPath(st, e.tid), type |-> e.type] : e \in {x \in Named(st) : x.tid \in gone}}

\* apply_state_renumbering
Renumbered(st, f) ==
  LET new(t) == IF t \in DOMAIN f THEN f[t] ELSE t
  IN {[e EXCEPT !.tid = new(@), !.parent = new(@)] : e \in st}

\* extend_renumbering_from_path_identities, from what is in S to what is in T.
Identified(S, T) ==
  LET pairs == {<<l.tid, m.tid>> : <<l, m>> \in {x \in S \X T : x[1].path = x[2].path /\ x[1].type = x[2].type}}
  IN [t \in {x[1] : x \in pairs} |-> (CHOOSE x \in pairs : x[1] = t)[2]]

\* What one state names in passing is ensured in the other, and identified by
\* its path.
Matched(first, second) ==
  {an \in {[first |-> first,
            second |-> Renumbered(second, Identified({l \in Located(second) : l.tid \notin Tids(first)},
                                                    Located(first)))]} :
     SaneAnalysis(an)}

Balanced(who, first, second) == Matched(Ensured(who, "old", first, Missing(second, first)), second)

Analyses(who, first, second) ==
  IF Sane(second) THEN Balanced(who, first, Ensured(who, "new", second, Missing(first, second))) ELSE {}

\* The states before and after: what is renamed has one tid in both, what is
\* deleted or added a null entry in one.
Analyze(re, who) ==
  LET was == Files(re.deleted) \cup {[path |-> r.from, type |-> r.type] : r \in re.renamed}
      becomes == Files(re.added) \cup {[path |-> r.to, type |-> r.type] : r \in re.renamed}
      moved == [t \in {Tid(who, "new", r.to) : r \in re.renamed} |->
                  Tid(who, "old", (CHOOSE r \in re.renamed : r.to = t[3]).from)]
  IN Analyses(who,
       Mentioned(who, "old", was) \cup {Null(Tid(who, "new", p), "file") : p \in re.added},
       Renumbered(Mentioned(who, "new", becomes), moved) \cup {Null(Tid(who, "old", p), "file") : p \in re.deleted})

\* compose_rearrangement
Compose(an) ==
  LET alive == Tids(Named(an.first)) \cap Tids(Named(an.second))
      dead == Tids(Named(an.first)) \ alive
      born == Tids(Named(an.second)) \ alive
      renames == {[type |-> At(an.first, t).type,
                   from |-> FullPath(an.first, t), to |-> FullPath(an.second, t)] : t \in alive}
  IN Rearrangement({FullPath(an.first, t) : t \in dead},
                   {r \in renames : r.from # r.to},
                   {FullPath(an.second, t) : t \in born})

\* normalize_path_rearrangement
Normalized(re) == {Compose(an) : an \in Analyze(re, <<"n">>)}

\* extract_killed: the names that a directory has before and not after.
Killed(an) ==
  LET kept == {<<e.parent, e.name>> : e \in Named(an.second)}
  IN {Append(FullPath(an.second, e.parent), e.name) : e \in {x \in Named(an.first) : <<x.parent, x.name>> \notin kept}}

\* path_rearrangement::check_sane: the analysis of a sane rearrangement.  Files
\* are neither split nor joined, nothing is deleted or added that is renamed;
\* the paths with deltas are not given up and are no directories.
SaneWith(re, changed, who) ==
  LET n == Cardinality(re.renamed)
  IN IF \/ Cardinality({r.from : r \in re.renamed}) # n \/ Cardinality({r.to : r \in re.renamed}) # n
        \/ re.deleted \cap {r.from : r \in re.renamed} # {}
        \/ re.added \cap {r.to : r \in re.renamed} # {}
     THEN {}
     ELSE {an \in Analyze(re, who) :
             /\ Killed(an) \cap changed = {}
             /\ changed \cap Paths({l \in Located(an.second) : l.type = "dir"}) = {}}

SaneRearrangement(re, who) == SaneWith(re, {}, who)
-----------------------------------------------------------------------------
(* Concatenation                                                           *)

\* The state before both, and after both.
Adjoined(x, first, second) ==
  {an \in {[first |-> x.first \cup {e \in first : e.tid \notin Tids(x.first)},
            second |-> second \cup {e \in x.second : e.tid \notin Tids(second)}]} :
     SaneAnalysis(an)}

\* concatenate_disjoint_analyses: what is before y is what is after x under the
\* same path, and not under a name that x has given up.
ConcatenatedAnalyses(x, y) ==
  LET same == Identified(Located(y.first), Located(x.second))
  IN IF \/ \E l \in Located(y.first), m \in Located(x.second) : l.path = m.path /\ l.type # m.type
        \/ Paths(Located(y.first)) \cap Killed(x) # {}
     THEN {}
     ELSE Adjoined(x, Renumbered(y.first, same), Renumbered(y.second, same))

\* concatenate_rearrangements
Concatenated(a, b) ==
  {re \in {Compose(an) : an \in UNION {ConcatenatedAnalyses(x, y) : x \in SaneRearrangement(a, <<"a">>),
                                                                   y \in SaneRearrangement(b, <<"b">>)}} :
     SaneRearrangement(re, <<"s">>) # {}}

\* reconstruct_path: the entries of a path that "from" knows, as far as they
\* are named in "to", are taken to where they are there; the rest is kept.
RECURSIVE Walk(_, _, _, _)
Walk(rest, t, from, to) ==
  LET next == {e \in from : rest # <<>> /\ e.parent = t /\ e.name = rest[1] /\ At(to, e.tid).name # NoName}
  IN IF next = {} THEN FullPath(to, t) \o rest
     ELSE LET e == CHOOSE x \in next : TRUE
          IN IF e.type = "dir" THEN Walk(Tail(rest), e.tid, from, to)
             ELSE FullPath(to, e.tid) \o Tail(rest)
Reconstructed(path, from, to) == Walk(path, Root, from, to)

\* A change set: the rearrangement re, and deltas by their path afterwards.
Delta(from, to) == [from |-> from, to |-> to]
NoDeltas == [p \in {} |-> Delta(NoContent, NoContent)]
Empty == [re |-> NoChange, deltas |-> NoDeltas]

\* change_set::check_sane: the analysis of a sane change set.
SaneChangeSet(cs, who) ==
  IF /\ cs.re.added \subseteq DOMAIN cs.deltas
     /\ \A p \in DOMAIN cs.deltas :
          /\ cs.deltas[p].to # NoContent /\ cs.deltas[p].from # cs.deltas[p].to
          /\ (cs.deltas[p].from = NoContent) = (p \in cs.re.added)
  THEN SaneWith(cs.re, DOMAIN cs.deltas, who)
  ELSE {}
IsSane(cs) == SaneChangeSet(cs, <<"s">>) # {}

\* normalize_change_set, and the check that follows it.
Finished(re, deltas) ==
  LET changed == {p \in DOMAIN deltas : deltas[p].from # deltas[p].to}
  IN {cs \in {[re |-> n, deltas |-> [p \in changed |-> deltas[p]]] : n \in Normalized(re)} : IsSane(cs)}

\* Variant: the deltas of a keep their paths.
CarriedDeltas_Unmoved(a, b, y) ==
  [p \in DOMAIN a.deltas \ b.re.deleted |-> a.deltas[p]]

\* The loops of concatenate_change_sets over deltas: those of a, but for the
\* files that b deletes, move with their files from the one state of b to the
\* other; there they are fused with those of b.
CarriedDeltas(a, b, y) ==
  LET goes == [p \in DOMAIN a.deltas \ b.re.deleted |-> Reconstructed(p, y.first, y.second)]
  IN [q \in {goes[p] : p \in DOMAIN goes} |-> a.deltas[CHOOSE p \in DOMAIN goes : goes[p] = q]]

FusedDeltas(moved, b) ==
  LET later == {q \in DOMAIN b.deltas : \/ q \in DOMAIN moved \/ q \notin b.re.deleted \/ q \in b.re.added
                                        \/ \E r \in b.re.renamed : r.type = "file" /\ r.to = q}
  IN IF \E q \in DOMAIN moved \cap later : moved[q].to # b.deltas[q].from THEN {}
     ELSE {[q \in DOMAIN moved \cup later |->
              IF q \in DOMAIN moved \cap later THEN Delta(moved[q].from, b.deltas[q].to)
              ELSE IF q \in later THEN b.deltas[q] ELSE moved[q]]}

\* concatenate_change_sets
ConcatenatedSets(a, b) ==
  UNION {UNION {Finished(Compose(an), ds) :
                  an \in ConcatenatedAnalyses(x, y), ds \in FusedDeltas(CarriedDeltas(a, b, y), b)} :
           x \in SaneChangeSet(a, <<"a">>), y \in SaneChangeSet(b, <<"b">>)}
-----------------------------------------------------------------------------
(* Application, completion and inversion; a manifest is a function from    *)
(* paths to contents.                                                      *)

\* build_pure_addition_change_set
PureAddition(man) ==
  [re |-> Rearrangement({}, {}, DOMAIN man), deltas |-> [p \in DOMAIN man |-> Delta(NoContent, man[p])]]

\* Variant: renamed directories are forgotten.
OnlyDeletes_NoDirs(re) == re.added = {} /\ \A r \in re.renamed : r.type = "dir"

\* The condition of the fast paths.
OnlyDeletes(re) == re.added = {} /\ re.renamed = {}

\* apply_path_rearrangement, its fast path and its slow one.
AppliedToPaths(ps, re) ==
  IF OnlyDeletes(re) THEN {qs \in {ps \ re.deleted} : SaneRearrangement(re, <<"s">>) # {} /\ re.deleted \subseteq ps}
  ELSE {c.added : c \in Concatenated(Rearrangement({}, {}, ps), re)}

\* apply_change_set to an old manifest.
Applied(man, cs) ==
  {[p \in b.re.added |-> b.deltas[p].to] :
     b \in {c \in ConcatenatedSets(PureAddition(man), cs) :
              /\ c.re.deleted = {} /\ \A r \in c.re.renamed : r.type # "file"
              /\ DOMAIN c.deltas \subseteq c.re.added}}

\* apply_change_set in place, with its fast path.
AppliedInPlace(man, cs) ==
  IF ~OnlyDeletes(cs.re) THEN Applied(man, cs)
  ELSE {[p \in (DOMAIN man \ cs.re.deleted) \cup DOMAIN cs.deltas |->
           IF p \in DOMAIN cs.deltas THEN cs.deltas[p].to ELSE man[p]] : c \in {x \in {cs} : IsSane(x)}}

\* complete_change_set: the deltas between two manifests that a
\* rearrangement lies between.
Completed(old, new, re) ==
  IF ~(re.added \subseteq DOMAIN new) THEN {}
  ELSE UNION {
    LET was == [p \in DOMAIN new \ re.added |-> Reconstructed(p, an.second, an.first)]
        changed == {p \in DOMAIN was : was[p] \in DOMAIN old /\ old[was[p]] # new[p]}
    IN IF \E p \in DOMAIN was : was[p] \notin DOMAIN old THEN {}
       ELSE {cs \in {[re |-> re, deltas |-> [p \in re.added \cup changed |->
                        Delta(IF p \in re.added THEN NoContent ELSE old[was[p]], new[p])]]} : IsSane(cs)}
    : an \in SaneRearrangement(re, <<"c">>)}

\* Variant: deltas keep the paths that they have afterwards.
TurnedDeltas_SamePath(cs, an) ==
  [q \in {p \in DOMAIN cs.deltas : cs.deltas[p].from # NoContent} |-> Delta(cs.deltas[q].to, cs.deltas[q].from)]

\* The deltas of an inverse but for its additions: each is turned round, under
\* the old name of its file.
TurnedDeltas(cs, an) ==
  LET staying == {l \in Located(an.second) :
                    l.type = "file" /\ At(an.first, l.tid).name # NoName /\ l.path \in DOMAIN cs.deltas}
      moved == {<<FullPath(an.first, l.tid), l.path>> : l \in staying}
      unmoved == {<<p, p>> : p \in {q \in DOMAIN cs.deltas :
                                      cs.deltas[q].from # NoContent /\ \A m \in moved : m[2] # q}}
  IN [q \in {m[1] : m \in moved \cup unmoved} |->
        LET p == (CHOOSE m \in moved \cup unmoved : m[1] = q)[2] IN Delta(cs.deltas[p].to, cs.deltas[p].from)]

\* invert_change_set: the states change places, and what was deleted is added
\* with the content that it has in the old manifest.
Inverted(cs, man) ==
  UNION {
    LET readded == {FullPath(an.first, t) : t \in Tids(Named(an.first)) \ Tids(Named(an.second))}
        turned == TurnedDeltas(cs, an)
    IN IF ~(readded \subseteq DOMAIN man) \/ readded \cap DOMAIN turned # {} THEN {}
       ELSE Finished(Compose([first |-> an.second, second |-> an.first]),
                     [q \in readded \cup DOMAIN turned |->
                       IF q \in readded THEN Delta(NoContent, man[q]) ELSE turned[q]])
    : an \in SaneChangeSet(cs, <<"i">>)}
=============================================================================
