------------------------------ MODULE Ancestry ------------------------------
(* The ancestry graph of the revisions in a database (database.cc,         *)
(* revision.cc) and the reference definitions that the searches over it    *)
(* are compared with.  An ancestry is a function from a revision to the    *)
(* set of its parents; a revision without parents has the null revision as *)
(* its only one in the database's table.                                   *)
EXTENDS Naturals, FiniteSets

CONSTANTS
  Revisions,   \* the revisions of the database
  NullRev,     \* the null revision, "parent" of every root
  Ancestries   \* the ancestries that a database may hold

ASSUME NullAssumption == NullRev \notin Revisions
ASSUME RevisionsAssumption == IsFiniteSet(Revisions)
ASSUME AncestriesAssumption == Ancestries \subseteq [Revisions -> SUBSET Revisions]

\* A revision's hash covers those of its parents: no revision is among its
\* own ancestors, and every set of revisions has one without a parent in it.
ASSUME AcyclicAssumption ==
  \A h \in Ancestries : \A S \in (SUBSET Revisions) \ {{}} : \E m \in S : h[m] \cap S = {}

VARIABLE parents  \* the ancestry of this database

\* get_revision_children, of a revision or of the null revision.
Children(n) ==
  {c \in Revisions : IF n = NullRev THEN parents[c] = {} ELSE n \in parents[c]}

\* The other direction of the same table, with the null revision.
ParentIds(n) ==
  CASE n = NullRev -> {}
    [] n # NullRev /\ parents[n] = {} -> {NullRev}
    [] OTHER -> parents[n]
-----------------------------------------------------------------------------
(* Reference definitions: least closures, without any order of traversal.  *)

UpClosed(C) == \A c \in C : parents[c] \subseteq C

\* n itself and everything that it descends from.
Ancestors(n) ==
  {a \in Revisions :
     \A C \in SUBSET Revisions : n \in C /\ UpClosed(C) => a \in C}

\* X holds every revision that a root reaches without passing through d.
ReachesAvoiding(d, X) ==
  \A c \in Revisions \ {d} : parents[c] = {} \/ parents[c] \cap X # {} => c \in X

\* n itself and every revision on all paths from a root to n.
Dominators(n) ==
  {d \in Revisions :
     \E X \in SUBSET Revisions : n \notin X /\ ReachesAvoiding(d, X)}

\* The members of S that no other member descends from.
HeadsOf(S) ==
  {h \in S : \A s \in S \ {h} : h \notin Ancestors(s)}
=============================================================================
