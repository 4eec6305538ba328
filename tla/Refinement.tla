----------------------------- MODULE Refinement -----------------------------
(***************************************************************************)
(* The refinement of one merkle tree between the two peers of a netsync    *)
(* session (netsync.cc), from the client's root node to the goodbyes: the  *)
(* messages refine, done, send_data, data, nonexistant and bye over the    *)
(* two directions of one TCP connection.  By MerkleTree the tree of a peer *)
(* is determined by its set of items, so a node is described by the items  *)
(* below each of its slots: none (empty), one (leaf) or more (subtree, of  *)
(* which the code only compares the hash).  rebuild_merkle_trees inserts   *)
(* live leaves only, so dead ones are left to MerkleTree.                  *)
(***************************************************************************)
EXTENDS Naturals, Sequences, FiniteSets

CONSTANTS Fanout,     \* slots of a node
          Depth,      \* digits of a hash
          Ids,        \* hashes of the items of the tree's type
          Roles       \* [client |-> role, server |-> role] pairs to consider

Slots == 1..Fanout

(* A hash has 40 digits of four bits; done levels are counted up to 255.   *)
ASSUME IdsTyped ==
  /\ Fanout \in Nat \ {0} /\ Depth \in 1..255
  /\ Ids \subseteq [1..Depth -> Slots] /\ IsFiniteSet(Ids)

Peers == {"client", "server"}
Other(p) == IF p = "client" THEN "server" ELSE "client"

(* process_auth_cmd gives the server the role opposite to the client's.    *)
ASSUME RolesTyped ==
  \A r \in Roles :
    /\ r \in [Peers -> {"source", "sink", "both"}]
    /\ \A p \in Peers : r[p] = "source" <=> r[Other(p)] = "sink"

VARIABLES
  role,              \* session::role, after authentication
  tree,              \* merkle_tables: the items in each peer's tree
  have,              \* the items in each peer's database
  chan,              \* chan[p]: commands on their way to p, oldest first
  had_refinements,   \* done_marker::current_level_had_refinements
  tree_is_done,      \* done_marker::tree_is_done
  requested,         \* session::requested_items
  received,          \* session::received_items
  sent_goodbye, received_goodbye

vars == <<role, tree, have, chan, had_refinements, tree_is_done, requested,
          received, sent_goodbye, received_goodbye>>

-----------------------------------------------------------------------------
Prefix(x, n) == SubSeq(x, 1, n)
Below(S, pref) == {x \in S : Prefix(x, Len(pref)) = pref}

Root == <<>>
Extended(pref, s) == Append(pref, s)

(* The node for the items S at a prefix; with S empty or a singleton it is *)
(* the fake subtree sent for a slot that is empty or a leaf on this side.  *)
Refine(S, pref) ==
  [cmd |-> "refine", pref |-> pref,
   slots |-> [s \in Slots |-> Below(S, Extended(pref, s))]]
Done(level) == [cmd |-> "done", level |-> level]
SendData(x) == [cmd |-> "send_data", item |-> x]
Data(x) == [cmd |-> "data", item |-> x]
Nonexistant(x) == [cmd |-> "nonexistant", item |-> x]
Bye == [cmd |-> "bye"]

IsSubtree(S) == Cardinality(S) > 1
IsLeaf(S) == Cardinality(S) = 1

(* merkle_node_exists.                                                     *)
NodeExists(p, pref) == pref = Root \/ IsSubtree(Below(tree[p], pref))

(* queue_send_data_cmd and queue_data_cmd, with their filters.             *)
QueueSendData(p, x) ==
  IF role[p] = "source" \/ x \in requested[p] \cup received[p] THEN <<>>
  ELSE <<SendData(x)>>

(* Variant: a pure sink sends its data too.                                *)
QueueData_Unfiltered(p, x) == <<Data(x)>>

QueueData(p, x) == IF role[p] = "sink" THEN <<>> ELSE <<Data(x)>>

QueueNonexistant(p, x) == IF role[p] = "sink" THEN <<>> ELSE <<Nonexistant(x)>>

(* Variant: of two different leaves, ours is not sent.                     *)
SlotReply_OneWay(p, pref, s, theirs) ==
  LET ours == IF NodeExists(p, pref) THEN Below(tree[p], Extended(pref, s)) ELSE {}
      want == IF IsLeaf(theirs) /\ theirs # ours
                 /\ (IsSubtree(ours) => theirs \cap have[p] = {})
              THEN QueueSendData(p, CHOOSE x \in theirs : TRUE)
              ELSE <<>>
      give == IF IsLeaf(ours) /\ theirs = {}
              THEN QueueData(p, CHOOSE x \in ours : TRUE)
              ELSE <<>>
      more == IF (IsSubtree(ours) \/ IsSubtree(theirs)) /\ theirs # ours
              THEN <<Refine(ours, Extended(pref, s))>>
              ELSE <<>>
  IN  want \o give \o more

(* What process_refine_cmd does for one slot, theirs against ours: cases   *)
(* #0 (ours is empty when we have no such node), #1, #2, #4 to #6, #8,     *)
(* #13, #14 and #16 of the code.                                           *)
SlotReply(p, pref, s, theirs) ==
  LET ours == IF NodeExists(p, pref) THEN Below(tree[p], Extended(pref, s)) ELSE {}
      want == IF IsLeaf(theirs) /\ theirs # ours
                 /\ (IsSubtree(ours) => theirs \cap have[p] = {})
              THEN QueueSendData(p, CHOOSE x \in theirs : TRUE)
              ELSE <<>>
      give == IF IsLeaf(ours) /\ theirs # ours /\ ~IsSubtree(theirs)
              THEN QueueData(p, CHOOSE x \in ours : TRUE)
              ELSE <<>>
      more == IF (IsSubtree(ours) \/ IsSubtree(theirs)) /\ theirs # ours
              THEN <<Refine(ours, Extended(pref, s))>>
              ELSE <<>>
  IN  want \o give \o more

RefineReply(p, node) ==
  LET upto[n \in 0..Fanout] ==
        IF n = 0 THEN <<>>
        ELSE upto[n-1] \o SlotReply(p, node.pref, n, node.slots[n])
  IN  upto[Fanout]

-----------------------------------------------------------------------------
Init ==
  /\ role \in Roles
  /\ tree \in [Peers -> SUBSET Ids]
  /\ have = tree
  \* respond_to_confirm_cmd: the client's root, followed by "done 0"
  /\ chan = [client |-> <<>>, server |-> <<Refine(tree["client"], Root), Done(0)>>]
  /\ had_refinements = [p \in Peers |-> FALSE]
  /\ tree_is_done = [p \in Peers |-> FALSE]
  /\ requested = [p \in Peers |-> {}]
  /\ received = [p \in Peers |-> {}]
  /\ sent_goodbye = [p \in Peers |-> FALSE]
  /\ received_goodbye = [p \in Peers |-> FALSE]

(* Variant: a side drops the connection once it has said goodbye.          *)
Closed_OneSided(p) == sent_goodbye[p]

(* As soon as a side has both sent and received a "bye" it drops the       *)
(* connection.                                                             *)
Closed(p) == sent_goodbye[p] /\ received_goodbye[p]

(* The command at the head of the queue; the guards of dispatch_payload.   *)
Incoming(p, cmd) == ~Closed(p) /\ chan[p] # <<>> /\ Head(chan[p]).cmd = cmd

Accepted(p, m) ==
  /\ m.cmd = "refine" => ~tree_is_done[p]
  /\ m.cmd = "send_data" => role[p] \in {"source", "both"}
  /\ m.cmd \in {"data", "nonexistant"} => role[p] \in {"sink", "both"}

(* The end of session::process: the replies are queued, and a goodbye with *)
(* them when this side has all it wants (maybe_say_goodbye).               *)
Reply(p, out) ==
  LET bye == tree_is_done'[p] /\ requested'[p] = {} /\ ~sent_goodbye[p]
  IN  /\ chan' = [chan EXCEPT ![p] = Tail(@),
                              ![Other(p)] = @ \o out \o IF bye THEN <<Bye>> ELSE <<>>]
      /\ sent_goodbye' = [sent_goodbye EXCEPT ![p] = @ \/ bye]
      /\ UNCHANGED <<role, tree>>

(* The items a reply asks for.                                             *)
Asked(out) == {out[i].item : i \in {j \in DOMAIN out : out[j].cmd = "send_data"}}

(* Variant: the marker does not notice the refinement.                     *)
ProcessRefine_Unnoticed(p) ==
  /\ Incoming(p, "refine") /\ Accepted(p, Head(chan[p]))
  /\ LET out == RefineReply(p, Head(chan[p]))
     IN  /\ requested' = [requested EXCEPT ![p] = @ \cup Asked(out)]
         /\ UNCHANGED <<have, received, tree_is_done, received_goodbye,
                        had_refinements>>
         /\ Reply(p, out)

ProcessRefine(p) ==
  /\ Incoming(p, "refine") /\ Accepted(p, Head(chan[p]))
  /\ LET out == RefineReply(p, Head(chan[p]))
     IN  /\ requested' = [requested EXCEPT ![p] = @ \cup Asked(out)]
         /\ had_refinements' = [had_refinements EXCEPT ![p] = TRUE]
         /\ UNCHANGED <<have, received, tree_is_done, received_goodbye>>
         /\ Reply(p, out)

(* Variant: the side that is done first does not echo the marker.          *)
ProcessDone_NoEcho(p) ==
  /\ Incoming(p, "done")
  /\ LET level == Head(chan[p]).level
         complete == ~had_refinements[p] \/ level >= 255
         out == IF complete THEN <<>> ELSE <<Done(level + 1)>>
     IN  /\ tree_is_done' = [tree_is_done EXCEPT ![p] = @ \/ complete]
         /\ had_refinements' = [had_refinements EXCEPT ![p] = FALSE]
         /\ UNCHANGED <<have, requested, received, received_goodbye>>
         /\ Reply(p, out)

(* No refinement since the last "done": the tree is complete, and the      *)
(* marker is echoed one last time.  Otherwise the echo starts a new level. *)
ProcessDone(p) ==
  /\ Incoming(p, "done")
  /\ LET level == Head(chan[p]).level
         out == IF tree_is_done[p] THEN <<>> ELSE <<Done(level + 1)>>
     IN  /\ \/ /\ ~had_refinements[p] \/ level >= 255
               /\ tree_is_done' = [tree_is_done EXCEPT ![p] = TRUE]
            \/ /\ had_refinements[p] /\ level < 255
               /\ UNCHANGED tree_is_done
         /\ had_refinements' = [had_refinements EXCEPT ![p] = @ /\ level < 255 /\ tree_is_done[p]]
         /\ UNCHANGED <<have, requested, received, received_goodbye>>
         /\ Reply(p, out)

ProcessSendData(p) ==
  /\ Incoming(p, "send_data") /\ Accepted(p, Head(chan[p]))
  /\ LET x == Head(chan[p]).item
     IN  /\ UNCHANGED <<have, requested, received, had_refinements, tree_is_done,
                        received_goodbye>>
         /\ Reply(p, IF x \in have[p] THEN QueueData(p, x) ELSE QueueNonexistant(p, x))

(* process_data_cmd, up to what the database makes of the item.            *)
ProcessData(p) ==
  /\ Incoming(p, "data") /\ Accepted(p, Head(chan[p]))
  /\ LET x == Head(chan[p]).item
     IN  /\ have' = [have EXCEPT ![p] = @ \cup {x}]
         /\ requested' = [requested EXCEPT ![p] = @ \ {x}]
         /\ received' = [received EXCEPT ![p] = @ \cup {x}]
         /\ UNCHANGED <<had_refinements, tree_is_done, received_goodbye>>
         /\ Reply(p, <<>>)

ProcessBye(p) ==
  /\ Incoming(p, "bye")
  /\ received_goodbye' = [received_goodbye EXCEPT ![p] = TRUE]
  /\ UNCHANGED <<have, requested, received, had_refinements, tree_is_done>>
  /\ Reply(p, <<>>)

Process(p) ==
  \/ ProcessRefine(p)
  \/ ProcessDone(p)
  \/ ProcessSendData(p)
  \/ ProcessData(p)
  \/ ProcessBye(p)

Finished == \A p \in Peers : Closed(p)
Terminated == Finished /\ UNCHANGED vars

Next == (\E p \in Peers : Process(p)) \/ Terminated

(* Each peer's probe loop keeps arming and processing what has arrived.    *)
Spec == Init /\ [][Next]_vars /\ \A p \in Peers : WF_vars(Process(p))

-----------------------------------------------------------------------------
(* Properties.                                                             *)

Commands ==
       [cmd : {"refine"}, pref : Seq(Slots), slots : [Slots -> SUBSET Ids]]
  \cup [cmd : {"done"}, level : Nat]
  \cup [cmd : {"send_data", "data", "nonexistant"}, item : Ids]
  \cup {Bye}

IsSink(p) == role[p] \in {"sink", "both"}
IsSource(p) == role[p] \in {"source", "both"}

InFlight(p, cmd) == {i \in DOMAIN chan[p] : chan[p][i].cmd = cmd}

(* No command is ever refused: the require()s of dispatch_payload hold of  *)
(* every command when it is processed; in particular no refinement arrives *)
(* for a tree that its receiver has marked as done.                        *)
NoProtocolError ==
  \A p \in Peers : chan[p] # <<>> /\ ~Closed(p) => Accepted(p, Head(chan[p]))

(* The two "done"s without refinements in between mean what the code takes *)
(* them for: nobody is still refining towards a side that marks the tree   *)
(* as done, and a sink that marks it has received every item of its source *)
(* (analyze_ancestry_graph takes the certs to be all there, and checks     *)
(* only that the revisions asked for are).                                 *)
DoneMeansComplete ==
  \A p \in Peers : tree_is_done[p] =>
    /\ InFlight(p, "refine") = {}
    /\ IsSink(p) /\ IsSource(Other(p)) => tree[Other(p)] \subseteq have[p]

(* The post-state of a netsync: a sink that has closed the connection      *)
(* holds a superset of its source, peers that are both hold the same       *)
(* items; a pure source holds what it held.                                *)
PostState ==
  /\ \A p \in Peers : Closed(p) /\ IsSink(p) => tree[Other(p)] \subseteq have[p]
  /\ Finished /\ (\A p \in Peers : role[p] = "both") =>
       have["client"] = have["server"]
  /\ \A p \in Peers : role[p] = "source" => have[p] = tree[p]

(* When a side hangs up, nothing the other side has yet to read or answer  *)
(* is lost with it: no request of the other side is unanswered, no data    *)
(* is on its way.                                                          *)
NothingCutOff ==
  \A p \in Peers : Closed(p) =>
    /\ InFlight(p, "send_data") \cup InFlight(p, "data") \cup InFlight(p, "refine") = {}
    /\ requested[Other(p)] = {}

(* Every refinement ends, and with it the exchange.                        *)
Ends == <>Finished
=============================================================================
