--------------------------- MODULE MCVersionStore ---------------------------
(* Revisions with one delta, of any versions, or two: the two parents of a *)
(* merge, and two files where one takes the content the other had (with    *)
(* the two contents swapped among them).                                   *)
EXTENDS VersionStore

Deltas == {e \in Versions \X Versions : e[1] # e[2]}
MCRevisions ==
  {<<e>> : e \in Deltas} \cup
  {p \in Deltas \X Deltas :
     (p[1][2] = p[2][2] /\ p[1] # p[2]) \/ p[1][1] = p[2][2] \/ p[1][2] = p[2][1]}
=============================================================================
