------------------------- MODULE MCAncestryFetcher -------------------------
(* Histories of four revisions: a chain, a diamond, a fork and two roots   *)
(* that are merged; up to renaming, every assignment of three versions to  *)
(* them; every part of the history already in the database, with and       *)
(* without a version of another branch; any of the new revisions with a    *)
(* wanted branch cert.                                                     *)
EXTENDS AncestryFetcher

Parent4(p2, p3, p4) == <<{NullRev}, p2, p3, p4>>
Histories ==
  {Parent4({1}, {2}, {3}), Parent4({1}, {1}, {2, 3}),
   Parent4({1}, {1}, {3}), Parent4({NullRev}, {1, 2}, {2})}

(* A version is new or one that an earlier revision had.                   *)
Assignments ==
  {v \in [1..4 -> Versions] :
     \A r \in 1..4 : v[r] = 1 \/ \E q \in 1..(r-1) : v[q] = v[r] - 1}

Known(ps) ==
  {K \in SUBSET (1..4) : K # 1..4 /\ \A r \in K : ps[r] \ {NullRev} \subseteq K}

Situations(extras) ==
  UNION {{[kind |-> kind, parents |-> ps, ver |-> v, known |-> K, wanted |-> W,
           stored |-> {v[r] : r \in K} \cup x] :
            kind \in {"file", "manifest"}, v \in Assignments, W \in SUBSET ((1..4) \ K),
            x \in extras} :
         <<ps, K>> \in {c \in Histories \X SUBSET (1..4) : c[2] \in Known(c[1])}}

AllConfigs == Situations({{}, {2}})
FewConfigs == {c \in Situations({{}}) : c.kind = "file" /\ c.ver = <<1, 2, 3, 3>>}
=============================================================================
