---------------------------- MODULE WorkingCopy -----------------------------
(* A working copy and the revisions in its database: add, drop and rename   *)
(* (work.cc), checkout, commit, update and merge (commands.cc), and what    *)
(* the database checks of a new revision (revision.cc).                     *)
(*                                                                          *)
(* The working copy is its base (MT/revision), its rearrangement (MT/work)  *)
(* and the files on disk.  The user keeps the files in step with what he    *)
(* tells the program: he writes a file before "add", removes it after       *)
(* "drop" and moves what he has renamed.  A revision is a set of edges, one *)
(* for each parent, and a manifest; 0 is the null revision.                 *)
EXTENDS ChangeSetMerge

CONSTANTS
  Origin,       \* the paths of the files of the first revision
  FilePaths,    \* paths that the user adds files at or renames files to
  DirPaths,     \* paths that he renames directories to
  MaxCommands,  \* (a bound)
  MaxCommits,   \* (a bound)
  MaxMerges,    \* (a bound)
  VerifyDepth,  \* constants::verify_depth
  EveryTarget   \* he updates to whatever revision he likes

ASSUME CopyAssumption ==
  /\ \A p \in Origin \cup FilePaths \cup DirPaths : Len(p) \in Nat \ {0}
  /\ MaxCommands \in Nat /\ MaxCommits \in Nat /\ MaxMerges \in Nat
  /\ VerifyDepth \in Nat \ {0} /\ EveryTarget \in BOOLEAN

VARIABLES revs, base, work, files, spent
vars == <<revs, base, work, files, spent>>

Edge(old, cs) == [old |-> old, cs |-> cs]

\* A mark in a content: the file that was written, and how often before.
FirstManifest == [p \in Origin |-> {<<p, 0>>}]
Marks == UNION UNION {{m[p] : p \in DOMAIN m} : m \in {files} \cup {revs[r].man : r \in DOMAIN revs}}
Written(p) == <<p, Cardinality({m \in Marks : m[1] = p})>>

Init ==
  /\ revs = <<[edges |-> {Edge(0, PureAddition(FirstManifest))}, man |-> FirstManifest]>>
  /\ base = 1 /\ work = NoChange /\ files = FirstManifest
  /\ spent = 0
-----------------------------------------------------------------------------
(* The history h                                                            *)

Manifest(h, r) == IF r = 0 THEN [p \in {} |-> NoContent] ELSE h[r].man

RECURSIVE AncestorsOf(_, _)
AncestorsOf(h, r) == {r} \cup UNION {AncestorsOf(h, e.old) : e \in {x \in h[r].edges : x.old # 0}}

\* find_least_common_ancestor and find_common_ancestor_for_merge (MergeBase),
\* which agree in a history as short as this one.
CommonAncestor(h, l, r) ==
  LET common == AncestorsOf(h, l) \cap AncestorsOf(h, r)
  IN CHOOSE x \in common : \A y \in common : y \in AncestorsOf(h, x)

\* calculate_composite_change_set, by either parent of a merge.
RECURSIVE CompositesTo(_, _, _)
CompositesTo(h, anc, r) ==
  IF anc = r THEN {Empty}
  ELSE UNION {UNION {ConcatenatedSets(c, e.cs) : c \in CompositesTo(h, anc, e.old)} :
                e \in {x \in h[r].edges : x.old # 0 /\ anc \in AncestorsOf(h, x.old)}}

\* calculate_arbitrary_change_set
Between(h, from, to) ==
  LET anc == CommonAncestor(h, from, to)
  IN UNION {UNION {ConcatenatedSets(i, c) : i \in Inverted(b, Manifest(h, anc))} :
              b \in CompositesTo(h, anc, from), c \in CompositesTo(h, anc, to)}

\* check_sane_history: "found" leads from ancestors to the new revision; what
\* is found for the first time must make its manifest, and what has been found
\* before must be the same change set.
RECURSIVE SaneHistory(_, _, _, _, _)
SaneHistory(h, found, seen, man, depth) ==
  LET all == found \cup seen
      next == UNION {{[old |-> e.old, composed |-> ConcatenatedSets(e.cs, x.cs)] : e \in h[x.old].edges} :
                       x \in {y \in found : y.old # 0}}
  IN depth > 0 =>
       /\ \A x \in found, y \in all : x.old = y.old => x.cs = y.cs
       /\ \A x \in found \ seen : AppliedInPlace(Manifest(h, x.old), x.cs) = {man}
       /\ \A n \in next : n.composed # {}
       /\ SaneHistory(h, UNION {{Edge(n.old, c) : c \in n.composed} : n \in next}, all, man, depth - 1)

MadeBy(parents) == {i \in DOMAIN revs : Cardinality(revs[i].edges) = parents}

\* put_revision, as far as it looks at the history.
Put(rev) ==
  /\ Cardinality(MadeBy(Cardinality(rev.edges))) < (IF Cardinality(rev.edges) = 1 THEN MaxCommits + 1 ELSE MaxMerges)
  /\ SaneHistory(revs, rev.edges, {}, rev.man, VerifyDepth)
  /\ revs' = Append(revs, rev)
-----------------------------------------------------------------------------
(* add, drop and rename                                                     *)

IsBelow(q, p) == Len(p) < Len(q) /\ SubSeq(q, 1, Len(p)) = p

\* Nothing of ps is in the way of a file or directory at p.
Free(p, ps) == \A q \in ps : q # p /\ ~IsBelow(q, p) /\ ~IsBelow(p, q)

\* The paths that the working copy has according to MT.
Tracked == AppliedToPaths(DOMAIN Manifest(revs, base), work)

\* How build_additions, build_deletions and build_rename end.
Rearranged(old, re) == UNION {Concatenated(old, n) : n \in Normalized(re)}

Commanded(re, disk) ==
  /\ spent < MaxCommands
  /\ work' \in Rearranged(work, re)
  /\ files' = disk
  /\ spent' = spent + 1
  /\ UNCHANGED <<revs, base>>

\* build_additions: the user has written a file that is not tracked.
Add(p) ==
  /\ Free(p, DOMAIN files) /\ \E ps \in Tracked : p \notin ps
  /\ Commanded(Rearrangement({}, {}, {p}),
               [q \in DOMAIN files \cup {p} |-> IF q = p THEN {Written(p)} ELSE files[q]])

\* build_deletions, of a file.
Drop(p) ==
  /\ \E ps \in Tracked : p \in ps
  /\ Commanded(Rearrangement({p}, {}, {}), [q \in DOMAIN files \ {p} |-> files[q]])

\* build_rename, of a file or of a directory with all that is below it.
Rename(src, dst) ==
  LET moving == {q \in DOMAIN files : q = src \/ IsBelow(q, src)}
      staying == DOMAIN files \ moving
      type == IF src \in moving THEN "file" ELSE "dir"
      goes(q) == dst \o SubSeq(q, Len(src) + 1, Len(q))
  IN /\ moving # {} /\ Free(dst, staying) /\ src # dst /\ ~IsBelow(dst, src)
     /\ \E ps \in Tracked : moving \subseteq ps /\ \A q \in ps : q # dst /\ ~IsBelow(q, dst)
     /\ Commanded(Rearrangement({}, {[type |-> type, from |-> src, to |-> dst]}, {}),
                  [q \in staying \cup {goes(x) : x \in moving} |->
                     IF q \in staying THEN files[q] ELSE files[CHOOSE x \in moving : goes(x) = q]])

\* The user changes the content of a file.
Edit(p) ==
  /\ spent < MaxCommands /\ p \in DOMAIN files
  /\ files' = [files EXCEPT ![p] = @ \cup {Written(p)}]
  /\ spent' = spent + 1
  /\ UNCHANGED <<revs, base, work>>
-----------------------------------------------------------------------------
(* checkout, commit, update and merge                                       *)

\* "checkout" of another revision, which the user goes on with; he has
\* committed what he has done here.
Checkout(r) ==
  /\ r # base /\ work = NoChange /\ files = Manifest(revs, base)
  /\ spent < MaxCommands
  /\ base' = r /\ work' = NoChange /\ files' = Manifest(revs, r)
  /\ spent' = spent + 1
  /\ UNCHANGED revs

\* calculate_unrestricted_revision: the change set from the base to the files.
Uncommitted ==
  UNION {IF ps \subseteq DOMAIN files THEN Completed(Manifest(revs, base), [p \in ps |-> files[p]], work) ELSE {} :
           ps \in Tracked}

\* The revision that a commit makes of a change set; none if nothing has changed.
Committed(css) ==
  {[edges |-> {Edge(base, cs)}, man |-> [p \in ps |-> files[p]]] : cs \in css \ {Empty}, ps \in Tracked}

Commit ==
  /\ \E rev \in Committed(Uncommitted) : Put(rev)
  /\ base' = Len(revs) + 1 /\ work' = NoChange
  /\ UNCHANGED <<files, spent>>

\* Variant: the files are written before they are moved.
Rewritten_WriteFirst(disk, cs) ==
  {LET wrote == [q \in DOMAIN disk \cup DOMAIN cs.deltas |->
                   IF q \in DOMAIN cs.deltas THEN cs.deltas[q].to ELSE disk[q]]
       gone == {FullPath(an.first, t) : t \in Tids(Named(an.first)) \ Tids(Named(an.second))}
       goes == [p \in DOMAIN wrote \ gone |-> Reconstructed(p, an.first, an.second)]
   IN [q \in {goes[p] : p \in DOMAIN goes} |-> wrote[CHOOSE p \in DOMAIN goes : goes[p] = q]]
   : an \in Analyze(cs.re, <<"f">>)}

\* apply_rearrangement_to_filesystem, which moves what is renamed to MT/tmp and
\* from there to its place, and write_file_targets, which writes the contents.
Rewritten(disk, cs) ==
  {LET gone == {FullPath(an.first, t) : t \in Tids(Named(an.first)) \ Tids(Named(an.second))}
       goes == [p \in DOMAIN disk \ gone |-> Reconstructed(p, an.first, an.second)]
   IN [q \in {goes[p] : p \in DOMAIN goes} \cup DOMAIN cs.deltas |->
         IF q \in DOMAIN cs.deltas THEN cs.deltas[q].to ELSE disk[CHOOSE p \in DOMAIN goes : goes[p] = q]]
   : an \in SaneRearrangement(cs.re, <<"f">>)}

\* No file has changed in a directory that cs renames.
PlainDirectories(cs) ==
  \A r \in cs.re.renamed, p \in DOMAIN cs.deltas : r.type = "dir" => ~IsBelow(p, r.to)

PlainWay(h, from, to) == \A c \in CompositesTo(h, CommonAncestor(h, from, to), from) : PlainDirectories(c)

\* "update"; what is left to do after the chosen revision goes to MT/work.
Update(r) ==
  /\ spent < MaxCommands
  /\ r # base /\ (EveryTarget \/ PlainWay(revs, base, r))
  /\ \E theirs \in Between(revs, base, r), ours \in Uncommitted :
       \E m \in MergedSets(theirs, ours) :
         /\ files' \in Rewritten(files, m.right)
         /\ work' = m.left.re
  /\ base' = r
  /\ spent' = spent + 1
  /\ UNCHANGED revs

\* try_one_merge, with a common ancestor.
Merge(l, r) ==
  /\ l \notin AncestorsOf(revs, r) /\ r \notin AncestorsOf(revs, l)
  /\ LET anc == CommonAncestor(revs, l, r)
     IN \E a \in CompositesTo(revs, anc, l), b \in CompositesTo(revs, anc, r) :
          \E m \in MergedSets(a, b) :
            \E man \in UNION {Applied(x, m.left) : x \in Applied(Manifest(revs, anc), a)} :
              Put([edges |-> {Edge(l, m.left), Edge(r, m.right)}, man |-> man])
  /\ UNCHANGED <<base, work, files, spent>>

Next ==
  \/ \E p \in FilePaths : Add(p)
  \/ \E p \in DOMAIN files : Drop(p) \/ Edit(p)
  \/ \E src \in DOMAIN files, dst \in FilePaths : Rename(src, dst)
  \/ \E src \in {Front(p) : p \in {q \in DOMAIN files : Len(q) > 1}}, dst \in DirPaths : Rename(src, dst)
  \/ Commit
  \/ \E r \in 1..Len(revs) : Checkout(r) \/ Update(r)
  \/ \E l, r \in 1..Len(revs) : Merge(l, r)

Spec == Init /\ [][Next]_vars
-----------------------------------------------------------------------------
(* Properties                                                               *)

\* What MT/work says of the base is what is on disk: after any commands and
\* updates, the rearrangement can be applied to the base and gives the paths of
\* the files.  Each command concatenates its change to a rearrangement with
\* renames of directories and names that were given up (work.cc), and an update
\* writes the half of a merge there and applies the other half to the disk.
WorkApplies == Tracked = {DOMAIN files}

\* The way back and sideways: what calculate_arbitrary_change_set makes of an
\* inverse and a change set turns the manifest of a new revision into that of
\* any other, and there is a way to each ancestor - as long as no file has
\* changed in a directory that was renamed (UpdateArrives).
BackSound(h) ==
  LET x == Len(h)
  IN \A y \in 1..(x - 1) : PlainWay(h, x, y) =>
       LET cs == Between(h, x, y)
       IN /\ \A c \in cs : Applied(h[x].man, c) = {h[y].man}
          /\ y \in AncestorsOf(h, x) => cs # {}

WayBack == [][BackSound(revs')]_revs

Directories(ps) == UNION {{SubSeq(p, 1, i) : i \in 1..(Len(p) - 1)} : p \in ps}

\* The directories that a revision has or renames.
DirectoriesOf(rev) ==
  Directories(DOMAIN rev.man) \cup UNION {{x.to : x \in {y \in e.cs.re.renamed : y.type = "dir"}} : e \in rev.edges}

\* No rut: whatever the user has done, a change set can be made of it, and the
\* database takes the revision: its composition with the history before it can
\* be calculated and gives its manifest (check_sane_history).  The exception is
\* a directory that bears a name which an ancestor's directory has borne and
\* the base's has not (tests/t_rename_dir_add_dir_with_old_name.at).
CommitGoesThrough ==
  LET css == Uncommitted
  IN /\ css # {}
     /\ \A rev \in Committed(css) :
          LET names == DirectoriesOf(rev) \ Directories(DOMAIN Manifest(revs, base))
          IN (\A anc \in AncestorsOf(revs, base) : names \cap DirectoriesOf(revs[anc]) = {})
             => SaneHistory(revs, rev.edges, {}, rev.man, VerifyDepth)

Contents(man) == {man[p] : p \in DOMAIN man}
Same(o, man) == {c \in Contents(man) : c \cap o # {}}
Fresh(man, old) == {c \in Contents(man) : \A o \in Contents(old) : c \cap o = {}}

\* In the result of a merge every file that both sides have kept is there once,
\* with the changes of both; one that either has dropped is gone; every file
\* that one has added is there once, and no file is there that none has added.
NothingLost(old, l, r, result) ==
  /\ \A o \in Contents(old) :
       IF Same(o, l) # {} /\ Same(o, r) # {}
       THEN \A x \in Same(o, l), y \in Same(o, r) :
              Cardinality({p \in DOMAIN result : result[p] = MergedText(o, x, y)}) = 1
       ELSE Same(o, result) = {}
  /\ \A c \in Fresh(l, old) \cup Fresh(r, old) : Cardinality({p \in DOMAIN result : c \subseteq result[p]}) = 1
  /\ \A c \in Fresh(result, old) : c = UNION {x \in Fresh(l, old) \cup Fresh(r, old) : x \subseteq c}

\* A merge keeps the work of both sides: of two revisions in a new one, and of
\* the working copy and the chosen revision in the files after an update, be
\* the files renamed, in renamed directories, dropped or added on either side
\* (merge_change_sets, update).
MergeKeeps ==
  [][/\ base' # base /\ revs' = revs /\ ~Checkout(base') =>
          NothingLost(Manifest(revs, base), Manifest(revs, base'), files, files')
     /\ \A rev \in {revs'[i] : i \in (Len(revs) + 1)..Len(revs')} : \A x, y \in rev.edges : x # y =>
          NothingLost(Manifest(revs, CommonAncestor(revs, x.old, y.old)),
                      Manifest(revs, x.old), Manifest(revs, y.old), rev.man)]_vars

\* An update with nothing uncommitted makes the files those of the chosen
\* revision: "In all cases, the end result will be whatever revision you
\* specified, with your local changes (and only your local changes) applied"
\* (monotone.texi:3756).  invert_change_set leaves a delta in a renamed
\* directory where it is.
UpdateArrives ==
  [][base' # base /\ revs' = revs /\ Uncommitted = {Empty} => files' = Manifest(revs, base')]_vars
=============================================================================
