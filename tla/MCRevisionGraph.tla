-------------------------- MODULE MCRevisionGraph ---------------------------
(* Every ancestry of five revisions as try_one_merge leaves them: at most  *)
(* two parents, neither of which descends from the other; revisions are    *)
(* numbered oldest first.                                                  *)
EXTENDS RevisionGraph

CONSTANT Size
MCRevisions == 1..Size

RECURSIVE Histories(_)
Histories(n) ==
  IF n = 0 THEN {<<>>}
  ELSE {Append(h, ps) : h \in Histories(n - 1),
                        ps \in {S \in SUBSET (1..(n - 1)) : Cardinality(S) <= 2}}

\* What each revision of a history descends from, oldest first.
RECURSIVE Reach(_, _)
Reach(h, n) == {n} \cup UNION {Reach(h, p) : p \in h[n]}
MCAncestries ==
  {h \in Histories(Size) : \A n \in 1..Size : \A p, q \in h[n] : p # q => p \notin Reach(h, q)}

MCWalks ==
  [op : {"none"}, revs : {{n, Size} : n \in MCRevisions}, base : {NullRev}] \cup
  [op : {"update"}, revs : SUBSET MCRevisions, base : {1, 2}] \cup
  [op : {"erase"}, revs : {S \in SUBSET MCRevisions : Cardinality(S) = 3}, base : {NullRev}] \cup
  [op : {"difference"}, revs : {S \in SUBSET MCRevisions : Cardinality(S) = 2}, base : {Size - 1, Size}] \cup
  [op : {"sort"}, revs : {S \in SUBSET MCRevisions : Cardinality(S) >= Size - 1}, base : {NullRev}]
=============================================================================
