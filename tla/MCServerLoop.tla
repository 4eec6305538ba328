---------------------------- MODULE MCServerLoop ----------------------------
(* One client and much to say on both sides; and three clients at a server *)
(* that takes two at a time, all kinds of them in company.                 *)
EXTENDS ServerLoop

CONSTANTS c1, c2, c3

Alone(kind) == [c \in Clients |-> IF c = c1 THEN kind ELSE "absent"]
Company(k2, k3) == [c \in Clients |-> CASE c = c1 -> "honest" [] c = c2 -> k2 [] c = c3 -> k3]
MCConfigs ==
  [kind : {Alone("honest")}, asks : [Sides -> {0, 2, 8}]] \cup
  [kind : {Company("silent", "silent")} \cup
          {Company(k, "absent") : k \in {"honest", "garbled", "dying"}},
   asks : {[s \in Sides |-> 1]}]
=============================================================================
