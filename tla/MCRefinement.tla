---------------------------- MODULE MCRefinement ----------------------------
(* Five hashes of three binary digits: pairs that part at the first, at the *)
(* second and only at the last digit.                                      *)
EXTENDS Refinement

MCIds == {<<1, 1, 1>>, <<1, 1, 2>>, <<1, 2, 1>>, <<2, 1, 1>>, <<2, 1, 2>>}
MCRoles == {[client |-> "both", server |-> "both"],
            [client |-> "sink", server |-> "source"],
            [client |-> "source", server |-> "sink"]}
=============================================================================
