---------------------------- MODULE VersionStore ----------------------------
(***************************************************************************)
(* How the database keeps the versions of files and of manifests           *)
(* (database.cc): some in full, the others as deltas from newer versions,  *)
(* from which get_version puts them together; and the transaction guards   *)
(* all writing happens under.                                              *)
(*                                                                         *)
(* A version is its hash, so a delta is no more than the pair of its       *)
(* target and its base, and what the version cache holds is right whenever *)
(* it was put there; the cache is not part of the state, the properties    *)
(* are about every content it may have.                                    *)
(***************************************************************************)
EXTENDS Naturals, Sequences, FiniteSets, SequencesExt

CONSTANTS Versions,
          Revisions,  \* the deltas of a revision: sequences of <<old, new>>
          MaxLevel,   \* bound: nesting of guards
          MaxWrites   \* bound: writes in one transaction

ASSUME VersionsFinite == IsFiniteSet(Versions)
ASSUME RevisionsTyped == Revisions \subseteq Seq(Versions \X Versions)

VARIABLES
  full,     \* the data table
  delta,    \* the delta table: rows <<id, base>>
  guards,   \* the guards alive, outermost first: the tables when each began
  writes    \* history: writes since the outermost guard began

vars == <<full, delta, guards, writes>>

-----------------------------------------------------------------------------
(* What op makes of s and the elements of a sequence, one after the other: *)
(* the FoldLeft of SequencesExt as a function of the number of steps.      *)
InTurn(op(_, _), s, seq) ==
  LET u[n \in 0..Len(seq)] == IF n = 0 THEN s ELSE op(u[n-1], seq[n])
  IN  u[Len(seq)]

Tables == [full |-> full, delta |-> delta]

(* file_version_exists, manifest_version_exists.                           *)
StoredIn(t) == t.full \cup {d[1] : d \in t.delta}
Stored == StoredIn(Tables)

Init ==
  /\ full = {} /\ delta = {}
  /\ guards = <<>> /\ writes = 0

(* The tables after put_version: the new version takes the place of the    *)
(* old one, which becomes a delta.                                         *)
WithVersion(t, old, new) ==
  [full |-> (t.full \ {old}) \cup {new}, delta |-> t.delta \cup {<<old, new>>}]

Write(t) ==
  /\ guards = <<>> \/ writes < MaxWrites
  /\ full' = t.full /\ delta' = t.delta
  /\ writes' = IF guards = <<>> THEN 0 ELSE writes + 1
  /\ UNCHANGED guards

(* put_file, put_manifest.                                                 *)
Put(v) ==
  /\ v \notin Stored
  /\ Write([Tables EXCEPT !.full = @ \cup {v}])

(* put_file_version, put_manifest_version, of a version that is not there. *)
PutVersion(old, new) ==
  /\ old \in Stored /\ new \notin Stored
  /\ Write(WithVersion(Tables, old, new))

(* put_file_reverse_version, put_manifest_reverse_version.                 *)
PutReverseVersion(new, old) ==
  /\ new \in Stored /\ old \notin Stored
  /\ Write([Tables EXCEPT !.delta = @ \cup {<<old, new>>}])

(* Variant: the deltas of the new version are deleted by their base.       *)
DeltifiedEdge_ByBase(t, old, new) ==
  IF old \notin t.full \/ old = new \/ new \notin StoredIn(t) THEN t
  ELSE WithVersion([full |-> t.full \ {new},
                    delta |-> {d \in t.delta : d[2] # new}], old, new)

(* Variant: the new version is dropped and not put again.                  *)
DeltifiedEdge_Dropped(t, old, new) ==
  IF old \notin t.full \/ old = new \/ new \notin StoredIn(t) THEN t
  ELSE [full |-> t.full \ {new}, delta |-> {d \in t.delta : d[1] # new}]

(* deltify_revision, for one delta: what there is of the new version is    *)
(* dropped, and it is put again as a version of the old one.               *)
DeltifiedEdge(t, old, new) ==
  IF old \notin t.full \/ old = new \/ new \notin StoredIn(t) THEN t
  ELSE WithVersion([full |-> t.full \ {new},
                    delta |-> {d \in t.delta : d[1] # new}], old, new)

(* All of them, edge by edge: the manifests' and then the files'.          *)
Deltified(t, r) == InTurn(LAMBDA u, e : DeltifiedEdge(u, e[1], e[2]), t, r)

(* put_revision, once everything the revision names is there.              *)
PutRevision(r) ==
  /\ \A i \in DOMAIN r : {r[i][1], r[i][2]} \subseteq Stored
  /\ Write(Deltified(Tables, r))

-----------------------------------------------------------------------------
(* Guards.                                                                 *)

(* transaction_guard's constructor: only the outermost one says BEGIN.     *)
Begin ==
  /\ Len(guards) < MaxLevel
  /\ guards' = Append(guards, Tables)
  /\ UNCHANGED <<full, delta, writes>>

Closed(t) ==
  /\ full' = t.full /\ delta' = t.delta
  /\ guards' = Front(guards)
  /\ writes' = IF Len(guards) = 1 THEN 0 ELSE writes

(* commit_transaction.                                                     *)
Commit ==
  /\ guards # <<>>
  /\ Closed(Tables)

(* rollback_transaction: a guard goes without a commit; only the outermost *)
(* one says ROLLBACK.                                                      *)
Rollback ==
  /\ guards # <<>>
  /\ Closed(IF Len(guards) = 1 THEN guards[1] ELSE Tables)

(* An exception that nobody catches inside of the outermost guard, or the  *)
(* end of the process.                                                     *)
Unwind ==
  /\ guards # <<>>
  /\ full' = guards[1].full /\ delta' = guards[1].delta
  /\ guards' = <<>> /\ writes' = 0

Next ==
  \/ \E v \in Versions : Put(v)
  \/ \E old, new \in Versions : PutVersion(old, new)
  \/ \E old, new \in Versions : PutReverseVersion(new, old)
  \/ \E r \in Revisions : PutRevision(r)
  \/ Begin \/ Commit \/ Rollback \/ Unwind

Spec == Init /\ [][Next]_vars

-----------------------------------------------------------------------------
(* get_version.                                                            *)

Bases(v) == {d[2] : d \in {e \in delta : e[1] = v}}

(* extend_path_if_not_cycle, for the path p and one more version.          *)
Extended(s, p, ext) ==
  IF ext \in ToSet(p) THEN [s EXCEPT !.result = "cycle"]
  ELSE IF ext \in s.seen THEN s
  ELSE [s EXCEPT !.paths = Append(@, Append(p, ext)), !.seen = @ \cup {ext}]

(* One path of a round: a tip that is cached or there in full is a root,   *)
(* another is extended by each of its bases.                               *)
PathTried(s, p, cache) ==
  IF s.result # "searching" THEN s
  ELSE IF Last(p) \in cache \cup full THEN [s EXCEPT !.result = "found"]
  ELSE IF Bases(Last(p)) = {} THEN [s EXCEPT !.result = "lost"]
  ELSE InTurn(LAMBDA u, b : Extended(u, p, b), s, SetToSeq(Bases(Last(p))))

(* One round of the while loop over the live paths.                        *)
Round(s, cache) ==
  InTurn(LAMBDA u, p : PathTried(u, p, cache), [s EXCEPT !.paths = <<>>], s.paths)

(* The search for v: what has become of it after a round per version.      *)
Search(v, cache) ==
  InTurn(LAMBDA s, n : Round(s, cache),
         [paths |-> <<<<v>>>>, seen |-> {}, result |-> "searching"],
         [i \in 1..Cardinality(Versions) |-> i]).result

-----------------------------------------------------------------------------
(* Properties.                                                             *)

(* Every version that is stored can be read: the search that get_version   *)
(* makes along the deltas, with forks and joins, reaches a full version or *)
(* a cached one, never meets a cycle, never runs out of paths (the code's  *)
(* loop would not end), whatever is in the cache.                          *)
Readable ==
  \A v \in Stored : \A cache \in SUBSET Versions : Search(v, cache) = "found"

(* Moving versions between the tables never forgets one: only a rollback   *)
(* takes versions away, and it gives back the state that the outermost     *)
(* guard has found.                                                        *)
NothingForgotten ==
  [][Stored \subseteq StoredIn(Tables') \/ (guards # <<>> /\ Tables' = guards[1])]_vars
=============================================================================
