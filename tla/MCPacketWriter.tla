--------------------------- MODULE MCPacketWriter ---------------------------
(* A history of two revisions with one file: r1 adds f1, r2 changes it to  *)
(* f2.  Full texts, a forward delta, a reverse delta and a corrupt delta   *)
(* of the file, and the manifests both ways, compete to build the same     *)
(* versions.                                                               *)
EXTENDS PacketWriter, TLC

CONSTANTS f1, f2, m1, m2, r1, r2, c1, c2, k1

MCFiles == {f1, f2}
MCManifests == {m1, m2}
MCRevisions == {r1, r2}
MCCerts == {c1, c2}
MCKeys == {k1}

MCRevisionText ==
  r1 :> [new_manifest |-> m1,
         edges |-> {[old_manifest |-> Null, old_revision |-> Null,
                     deltas |-> {<<Null, f1>>}]}]
  @@ r2 :> [new_manifest |-> m2,
            edges |-> {[old_manifest |-> m1, old_revision |-> r1,
                        deltas |-> {<<f1, f2>>}]}]

MCCertOn == c1 :> r1 @@ c2 :> r2

Delta(b, i, ok) == [kind |-> "delta", base |-> b, ident |-> i, good |-> ok]

MCPackets ==
  {[kind |-> "data", ident |-> f2], [kind |-> "data", ident |-> m1],
   Delta(f1, f2, FALSE), Delta(f2, f1, TRUE), Delta(m1, m2, TRUE),
   [kind |-> "revision", ident |-> r1], [kind |-> "revision", ident |-> r2],
   [kind |-> "cert", ident |-> c2], [kind |-> "public_key", ident |-> k1]}

SlotSymmetry == Permutations(Slots)
=============================================================================
