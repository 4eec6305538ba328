-------------------------- MODULE MCNetsyncSession --------------------------
(* A history of two revisions, r2 the child of r1, each with a content and *)
(* a cert, the certs signed with the client's key and the server's.  Each  *)
(* side holds none, the first or both of them; the branch has one of two   *)
(* epochs or none.                                                         *)
EXTENDS NetsyncSession

CONSTANTS e0, e1, kc, ks, ko, c1, c2, r1, r2, f1, f2

MCKeyOf == [c \in {c1, c2} |-> IF c = c1 THEN kc ELSE ks]
MCCertOn == [c \in {c1, c2} |-> IF c = c1 THEN r1 ELSE r2]
MCNames == [r \in {r1, r2} |-> IF r = r1 THEN {f1} ELSE {f2, r1}]

None == {}
First == {kc, r1, f1, c1}
Both == First \cup {ks, r2, f2, c2}
Holdings == {None, First, Both}

Config(cr, sr, ci, si, ce, se) ==
  [role |-> [client |-> cr, server |-> sr], items |-> [client |-> ci, server |-> si],
   epoch |-> [client |-> ce, server |-> se], anonymous |-> FALSE,
   server_key_changed |-> FALSE, client_key_known |-> TRUE,
   read_permitted |-> TRUE, write_permitted |-> TRUE, foreign |-> {}]

(* Every pair of holdings, for a client of each role and a server that can *)
(* be both, with epochs that agree, differ, or exist on one side only.     *)
Exchanges ==
  {Config(rs[1], rs[2], ci, si, es[1], es[2]) :
     rs \in {<<"both", "both">>, <<"sink", "both">>, <<"source", "both">>},
     ci \in Holdings, si \in Holdings,
     es \in {<<e0, e0>>, <<e1, e0>>, <<e1, NoEpoch>>, <<NoEpoch, e0>>, <<NoEpoch, NoEpoch>>}}

(* What authentication refuses, and servers of one role only.              *)
Plain == Config("sink", "source", None, First, NoEpoch, e0)
Refusals ==
  {[Plain EXCEPT !.server_key_changed = TRUE],
   [Plain EXCEPT !.client_key_known = FALSE],
   [Plain EXCEPT !.read_permitted = FALSE],
   [Plain EXCEPT !.anonymous = TRUE],
   [Plain EXCEPT !.anonymous = TRUE, !.read_permitted = FALSE],
   [Plain EXCEPT !.anonymous = TRUE, !.role = [client |-> "both", server |-> "both"]],
   [Config("both", "both", First, First, e0, e0) EXCEPT !.write_permitted = FALSE],
   Config("source", "sink", First, None, e0, NoEpoch),
   Config("sink", "sink", None, First, NoEpoch, e0)}

(* Another session writes too: anything while this one only reads, and     *)
(* keys and contents (which nothing is waited for with) while it writes.   *)
Accompanied ==
  {[Config("sink", "both", None, First, NoEpoch, e0) EXCEPT !.foreign = Both],
   [Config("both", "both", Both, None, e0, NoEpoch) EXCEPT !.foreign = {ks, f1}]}

AllConfigs == Exchanges \cup Refusals \cup Accompanied
=============================================================================
