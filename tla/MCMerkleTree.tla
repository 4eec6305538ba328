---------------------------- MODULE MCMerkleTree ----------------------------
(* Two slots per node and hashes of four digits: the leaves part at every  *)
(* level, and two of them only at the last.                                *)
EXTENDS MerkleTree

MCLeaves == {<<0, 0, 0, 0>>, <<0, 0, 0, 1>>, <<0, 0, 1, 0>>, <<0, 1, 0, 0>>,
             <<1, 0, 0, 0>>, <<1, 1, 0, 1>>}
=============================================================================
