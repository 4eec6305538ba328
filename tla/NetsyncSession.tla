--------------------------- MODULE NetsyncSession ---------------------------
(***************************************************************************)
(* The two sessions of one netsync (netsync.cc), from the server's hello   *)
(* to the end of the connection: authentication and the choice of roles,   *)
(* the epochs that open the packet valve, the refinements of epochs, keys  *)
(* and certs, the requests that follow from what arrives, the error unwind *)
(* mode, the goodbyes, and the transactions around it all.                 *)
(*                                                                         *)
(* Refinement shows what the exchange of tree nodes does; here a tree is   *)
(* one node with its items in different slots.  PacketWriter shows that    *)
(* the order of packets does not matter to what is written; here the       *)
(* writer is the set of items it holds and their least closure.  The       *)
(* peers follow the protocol, so nonces, signatures and HMACs are left     *)
(* out.  All items belong to one branch.                                   *)
(***************************************************************************)
EXTENDS Naturals, Sequences, FiniteSets, FiniteSetsExt, SequencesExt

CONSTANTS
  Epochs, Keys, Certs, Revisions, Contents,  \* items; contents: manifests, files
  NoEpoch,        \* the branch has no epoch in the database
  Zero,           \* epoch_zero
  ServerKey,      \* the server's own key
  KeyOf, CertOn,  \* the key and the revision of a cert
  Names,          \* the contents and old revisions a revision names
  Configs,        \* the initial situations to consider
  MaxRead,        \* bound: commands that one read_some may complete
  MaxFaults,      \* bound: crashes and lost connections
  MaxForeign      \* bound: items other sessions write to the server's database

Items == Keys \cup Certs \cup Revisions \cup Contents

(* A netcmd names an item by its type and its hash, so kinds are disjoint. *)
ASSUME SessionConstants ==
  /\ IsFiniteSet(Epochs \cup Items) /\ MaxRead \in Nat
  /\ Epochs \cap Items = {} /\ Keys \cap (Certs \cup Revisions \cup Contents) = {}
  /\ Certs \cap (Revisions \cup Contents) = {} /\ Revisions \cap Contents = {}
  /\ Zero \in Epochs /\ NoEpoch \notin Epochs /\ ServerKey \in Keys
  /\ KeyOf \in [Certs -> Keys] /\ CertOn \in [Certs -> Revisions]
  /\ Names \in [Revisions -> SUBSET (Contents \cup Revisions)]

(* A revision's hash covers those of the revisions it names.               *)
ASSUME NamesAcyclic ==
  \A S \in (SUBSET Revisions) \ {{}} : \E r \in S : Names[r] \cap S = {}

Peers == {"client", "server"}
Other(p) == IF p = "client" THEN "server" ELSE "client"
Types == {"epoch", "key", "cert"}

VARIABLES
  conf,      \* the situation: who plays what, holds what and may do what
  db,        \* the database each peer sees: items and the branch's epoch
  disk,      \* what of it is committed
  sess,      \* the session objects
  net,       \* net[p]: commands written to p and not read, oldest first
  inbuf,     \* session::inbuf: the commands read
  faults,    \* history: crashes and lost connections
  foreign    \* history: what other sessions wrote

vars == <<conf, db, disk, sess, net, inbuf, faults, foreign>>

-----------------------------------------------------------------------------
(* Commands and items.                                                     *)

TypeOf(x) ==
  CASE x \in Epochs -> "epoch" [] x \in Keys -> "key" [] x \in Certs -> "cert"
    [] x \in Revisions -> "revision" [] x \in Contents -> "content"

Commands(c, xs) ==
  LET q == SetToSeq(xs) IN [i \in DOMAIN q |-> [cmd |-> c, item |-> q[i]]]
Refine(t, tree) == [cmd |-> "refine", type |-> t, items |-> tree[t]]
Done(t) == [cmd |-> "done", type |-> t]
Simple(c) == [cmd |-> c]

(* What an item needs in the database before it is written (packet.cc).    *)
Needs(x) ==
  IF x \in Revisions THEN Names[x] ELSE IF x \in Certs THEN {CertOn[x]} ELSE {}

(* Variant: the writer does not wait for what an item needs.               *)
Written_Unchecked(D, held) == D \cup held

(* The packet_db_writer given the items of held (see PacketWriter).        *)
Written(D, held) ==
  LET grow[n \in 0..Cardinality(held)] ==
        IF n = 0 THEN D
        ELSE grow[n-1] \cup {x \in held : Needs(x) \subseteq grow[n-1]}
  IN  grow[Cardinality(held)]

Closure(D) == \A x \in D : Needs(x) \subseteq D

(* The databases a session starts from have no dangling references.        *)
ASSUME SituationsTyped ==
  \A k \in Configs :
    /\ k.role \in [Peers -> {"source", "sink", "both"}]
    /\ k.items \in [Peers -> SUBSET Items] /\ k.epoch \in [Peers -> Epochs \cup {NoEpoch}]
    /\ \A p \in Peers : Closure(k.items[p])

(* get_branches finds the branch when a revision is certified to be in it. *)
HasBranch(D) == Certs \cap D.items # {}

(* rebuild_merkle_trees, and its set_epoch for a branch that has none.     *)
Rebuilt(D) ==
  [D EXCEPT !.epoch = IF HasBranch(D) /\ @ = NoEpoch THEN Zero ELSE @]

Tree(D) ==
  [epoch |-> IF HasBranch(D) THEN {Rebuilt(D).epoch} ELSE {},
   key |-> {KeyOf[c] : c \in Certs \cap D.items} \cap D.items,
   cert |-> Certs \cap D.items]

NewSession(role) ==
  [live |-> TRUE, crashed |-> FALSE, role |-> role, authenticated |-> FALSE, valve |-> FALSE,
   tree |-> [t \in Types |-> {}],
   had_refinements |-> {}, tree_is_done |-> {},       \* types, per done_marker
   requested |-> {}, received |-> {},                 \* items
   certs |-> {}, ancestry |-> {}, analyzed |-> FALSE,
   held |-> {},                                       \* items given to dbw
   error |-> FALSE, sent_goodbye |-> FALSE, received_goodbye |-> FALSE]

Init ==
  /\ conf \in Configs
  /\ db = [p \in Peers |-> [items |-> conf.items[p], epoch |-> conf.epoch[p]]]
  /\ disk = db
  /\ sess = [p \in Peers |-> NewSession(conf.role[p])]
  /\ net = [client |-> <<Simple("hello")>>, server |-> <<>>]  \* begin_service
  /\ inbuf = [p \in Peers |-> <<>>]
  /\ faults = 0
  /\ foreign = {}

-----------------------------------------------------------------------------
(* The parts of the handlers: s is the session as it is at that point.     *)

(* queue_send_data_cmd, for what the role and earlier requests let pass.   *)
Wanted(s, xs) == IF s.role = "source" THEN {} ELSE xs \ (s.requested \cup s.received)
Asking(s, xs) == [s EXCEPT !.requested = @ \cup Wanted(s, xs)]
Requests(s, xs) == Commands("send_data", Wanted(s, xs))

(* Variant: a sink sends data too.                                         *)
Gifts_Unfiltered(s, xs) == Commands("data", xs)

(* Variant: only a side that is both gives.                                *)
Gifts_BothOnly(s, xs) == IF s.role = "both" THEN Commands("data", xs) ELSE <<>>

(* queue_data_cmd.                                                         *)
Gifts(s, xs) == IF s.role = "sink" THEN <<>> ELSE Commands("data", xs)

(* note_item_arrived.                                                      *)
Arrived(s, x) == [s EXCEPT !.requested = @ \ {x}, !.received = @ \cup {x}]

(* maybe_note_epochs_finished.                                             *)
EpochsNoted(s) ==
  [s EXCEPT !.valve = @ \/ (s.requested \cap Epochs = {} /\ "epoch" \in s.tree_is_done)]

(* Variant: the analysis does not wait for the certs.                      *)
ReadyToAnalyze_Early(s) == s.requested \cap Revisions = {} /\ ~s.analyzed

ReadyToAnalyze(s) ==
  s.requested \cap Revisions = {} /\ "cert" \in s.tree_is_done /\ ~s.analyzed

(* analyze_ancestry_graph: the certs and revisions received go to the      *)
(* writer, and the contents that are not in the database are asked for.    *)
Missing(p, s) == ((UNION {Names[r] : r \in s.ancestry}) \cap Contents) \ db[p].items

Analyzed(p, s) ==
  IF ~ReadyToAnalyze(s) THEN s
  ELSE [Asking(s, Missing(p, s)) EXCEPT !.analyzed = TRUE,
                                        !.held = @ \cup s.certs \cup s.ancestry]

AnalyzeRequests(p, s) ==
  IF ReadyToAnalyze(s) THEN Requests(s, Missing(p, s)) ELSE <<>>

-----------------------------------------------------------------------------
(* The end of session::process for a handler that left the session as s    *)
(* and queued out: what the valve lets through is written, the transaction *)
(* commits (for the client within that of run_netsync_protocol), a goodbye *)
(* follows when this side has all it wants, and in error unwind mode       *)
(* write_netcmd_and_try_flush drops what is queued.                        *)
Reply(p, s, epoch, out) ==
  LET items == IF s.valve THEN Written(db[p].items, s.held) ELSE db[p].items
      bye   == s.tree_is_done = Types /\ s.requested = {} /\ ~s.sent_goodbye
      all   == out \o IF bye THEN <<Simple("bye")>> ELSE <<>>
  IN  /\ db' = [db EXCEPT ![p] = [items |-> items, epoch |-> epoch]]
      /\ disk' = IF p = "server" THEN [disk EXCEPT ![p] = db'[p]] ELSE disk
      /\ sess' = [sess EXCEPT ![p] = [s EXCEPT !.held = @ \ items,
                                               !.sent_goodbye = @ \/ bye]]
      /\ net' = IF sess[p].error THEN net ELSE [net EXCEPT ![Other(p)] = @ \o all]
      /\ inbuf' = [inbuf EXCEPT ![p] = Tail(@)]
      /\ UNCHANGED <<conf, faults, foreign>>

(* session::error.                                                         *)
ReplyError(p) ==
  Reply(p, [sess[p] EXCEPT !.error = TRUE, !.sent_goodbye = TRUE],
        db[p].epoch, <<Simple("error")>>)

(* The session object goes away; run_netsync_protocol commits what the     *)
(* client has received, however the connection ended.                      *)
Close(p) ==
  /\ sess' = [sess EXCEPT ![p].live = FALSE]
  /\ disk' = [disk EXCEPT ![p] = db[p]]
  /\ net' = [net EXCEPT ![p] = <<>>]
  /\ inbuf' = [inbuf EXCEPT ![p] = <<>>]
  /\ UNCHANGED <<conf, db, foreign>>

Over(p) == sess[p].sent_goodbye /\ sess[p].received_goodbye /\ ~sess[p].error

Processing(p, cmd) ==
  sess[p].live /\ ~Over(p) /\ inbuf[p] # <<>> /\ Head(inbuf[p]).cmd = cmd

-----------------------------------------------------------------------------
(* Authentication.                                                         *)

(* process_hello_cmd.                                                      *)
ProcessHello ==
  LET p == "client"
      D == [db[p] EXCEPT !.items = @ \cup {ServerKey}]
  IN  /\ Processing(p, "hello") /\ ~sess[p].authenticated
      /\ \/ /\ conf.server_key_changed   \* E(): the client's transaction is undone
            /\ Close(p)
            /\ UNCHANGED faults
         \/ /\ ~conf.server_key_changed
            /\ db' = [db EXCEPT ![p] = Rebuilt(D)]
            /\ sess' = [sess EXCEPT ![p].tree = Tree(D)]
            /\ net' = [net EXCEPT !["server"] = Append(@,
                         Simple(IF conf.anonymous THEN "anonymous" ELSE "auth"))]
            /\ inbuf' = [inbuf EXCEPT ![p] = Tail(@)]
            /\ UNCHANGED <<conf, disk, faults, foreign>>

(* The guards of dispatch_payload and process_anonymous_cmd; the role in   *)
(* the command is that of the client.                                      *)
AnonymousAllowed ==
  sess["server"].role \in {"source", "both"} /\ conf.role["client"] = "sink"

(* Those of process_auth_cmd: before the branches are looked at, and after. *)
AuthAllowed ==
  /\ conf.client_key_known
  /\ conf.role["client"] \in {"sink", "both"} => sess["server"].role \in {"source", "both"}

WriteAllowed ==
  conf.role["client"] \in {"source", "both"} =>
    sess["server"].role \in {"sink", "both"} /\ conf.write_permitted

ReadDenied == HasBranch(db["server"]) /\ ~conf.read_permitted

(* The (possibly degraded) opposite role.                                  *)
OppositeRole ==
  CASE conf.role["client"] = "source" -> "sink"
    [] conf.role["client"] = "sink" -> "source"
    [] conf.role["client"] = "both" -> sess["server"].role

(* process_anonymous_cmd and process_auth_cmd.  A refusal of the branch is *)
(* an error message, the others just end the session.                      *)
ProcessAuth ==
  LET p == "server"
      anonymous == Head(inbuf[p]).cmd = "anonymous"
      allowed == IF anonymous THEN AnonymousAllowed ELSE AuthAllowed
  IN  /\ Processing(p, "anonymous") \/ Processing(p, "auth")
      /\ ~sess[p].authenticated
      /\ \/ /\ ~allowed \/ (~ReadDenied /\ ~anonymous /\ ~WriteAllowed)
            /\ Close(p) /\ UNCHANGED faults
         \/ allowed /\ ReadDenied /\ ReplyError(p)
         \/ /\ allowed /\ ~ReadDenied /\ (anonymous \/ WriteAllowed)
            /\ Reply(p, [sess[p] EXCEPT !.tree = Tree(db[p]), !.authenticated = TRUE,
                                        !.role = OppositeRole],
                     Rebuilt(db[p]).epoch, <<Simple("confirm")>>)

(* respond_to_confirm_cmd.                                                 *)
ProcessConfirm ==
  LET p == "client"
      Roots(t) == <<Refine(t, sess[p].tree), Done(t)>>
  IN  /\ Processing(p, "confirm") /\ ~sess[p].authenticated
      /\ Reply(p, [sess[p] EXCEPT !.authenticated = TRUE], db[p].epoch,
               Roots("epoch") \o Roots("key") \o Roots("cert"))

-----------------------------------------------------------------------------
(* Refinement and data.                                                    *)

(* process_refine_cmd, for trees of one node.                              *)
ProcessRefine(p) ==
  LET m == Head(inbuf[p])
      s == [sess[p] EXCEPT !.had_refinements = @ \cup {m.type}]
      theirs == m.items \ s.tree[m.type]
      ours == s.tree[m.type] \ m.items
  IN  /\ Processing(p, "refine")
      /\ sess[p].authenticated /\ m.type \notin s.tree_is_done
      /\ Reply(p, Asking(s, theirs), db[p].epoch, Requests(s, theirs) \o Gifts(s, ours))

(* Variant: the side that is done first does not echo the marker.          *)
ProcessDone_NoEcho(p) ==
  LET t == Head(inbuf[p]).type
      s == [sess[p] EXCEPT !.had_refinements = @ \ {t}]
      d == [s EXCEPT !.tree_is_done = @ \cup {t}]
  IN  /\ Processing(p, "done") /\ sess[p].authenticated
      /\ \/ /\ t \in sess[p].had_refinements
            /\ Reply(p, s, db[p].epoch, <<Done(t)>>)
         \/ /\ t \notin sess[p].had_refinements
            /\ Reply(p, EpochsNoted(Analyzed(p, d)), db[p].epoch, AnalyzeRequests(p, d))

(* process_done_cmd.                                                       *)
ProcessDone(p) ==
  LET t == Head(inbuf[p]).type
      s == [sess[p] EXCEPT !.had_refinements = @ \ ({t} \ sess[p].tree_is_done)]
      d == [s EXCEPT !.tree_is_done = @ \cup {t}]
      echo == IF t \in s.tree_is_done THEN <<>> ELSE <<Done(t)>>
  IN  /\ Processing(p, "done") /\ sess[p].authenticated
      /\ \/ /\ t \in sess[p].had_refinements
            /\ Reply(p, s, db[p].epoch, echo)
         \/ /\ t \notin sess[p].had_refinements
            /\ Reply(p, EpochsNoted(Analyzed(p, d)), db[p].epoch,
                     echo \o AnalyzeRequests(p, d))

(* process_send_data_cmd, and process_send_delta_cmd in the same way.      *)
ProcessSendData(p) ==
  LET x == Head(inbuf[p]).item
      exists == x \in db[p].items \cup {db[p].epoch}
  IN  /\ Processing(p, "send_data")
      /\ sess[p].authenticated /\ sess[p].role \in {"source", "both"}
      /\ Reply(p, sess[p], db[p].epoch,
               IF exists THEN Gifts(sess[p], {x}) ELSE <<[cmd |-> "nonexistant", item |-> x]>>)

(* process_data_cmd, type by type.                                         *)
ProcessData(p, type) ==
  /\ Processing(p, "data") /\ TypeOf(Head(inbuf[p]).item) = type
  /\ sess[p].authenticated /\ sess[p].role \in {"sink", "both"}

(* Variant: epochs that differ are only warned about.                      *)
ProcessEpoch_Warned(p) ==
  LET x == Head(inbuf[p]).item
      s == Arrived(sess[p], x)
  IN  /\ ProcessData(p, "epoch")
      /\ \/ db[p].epoch = x /\ Reply(p, s, x, <<>>)
         \/ db[p].epoch = NoEpoch /\ Reply(p, EpochsNoted(s), x, <<>>)
         \/ db[p].epoch \notin {x, NoEpoch} /\ Reply(p, EpochsNoted(s), db[p].epoch, <<>>)

ProcessEpoch(p) ==
  LET x == Head(inbuf[p]).item
      s == Arrived(sess[p], x)
  IN  /\ ProcessData(p, "epoch")
      /\ \/ db[p].epoch = x /\ Reply(p, s, x, <<>>)
         \/ db[p].epoch = NoEpoch /\ Reply(p, EpochsNoted(s), x, <<>>)
         \/ /\ db[p].epoch \notin {x, NoEpoch}  \* then error(), as in ReplyError
            /\ Reply(p, [s EXCEPT !.error = TRUE, !.sent_goodbye = TRUE], db[p].epoch,
                     <<Simple("error")>>)

(* Keys, manifests and files go to the writer.                             *)
ProcessKeyOrContent(p) ==
  LET x == Head(inbuf[p]).item
      s == Arrived(sess[p], x)
  IN  /\ ProcessData(p, "key") \/ ProcessData(p, "content")
      /\ Reply(p, [s EXCEPT !.held = @ \cup ({x} \ db[p].items)], db[p].epoch, <<>>)

(* Certs are kept until the ancestry has been analyzed.                    *)
ProcessCert(p) ==
  LET x == Head(inbuf[p]).item
      s == [Arrived(sess[p], x) EXCEPT !.certs = @ \cup ({x} \ db[p].items)]
      on == IF x \in db[p].items THEN {} ELSE {CertOn[x]} \ db[p].items
  IN  /\ ProcessData(p, "cert")
      /\ Reply(p, Asking(s, on), db[p].epoch, Requests(s, on))

(* So are revisions; the last one asked for starts the analysis, unless it *)
(* is in the database already.                                             *)
ProcessRevision(p) ==
  LET x == Head(inbuf[p]).item
      s == Arrived(sess[p], x)
      n == [s EXCEPT !.ancestry = @ \cup {x}]
  IN  /\ ProcessData(p, "revision")
      /\ \/ x \in db[p].items /\ Reply(p, s, db[p].epoch, <<>>)
         \/ /\ x \notin db[p].items
            /\ Reply(p, Analyzed(p, n), db[p].epoch, AnalyzeRequests(p, n))

-----------------------------------------------------------------------------
(* The end.                                                                *)

ProcessBye(p) ==
  /\ Processing(p, "bye")
  /\ Reply(p, [sess[p] EXCEPT !.received_goodbye = TRUE], db[p].epoch, <<>>)

(* process_error_cmd throws bad_decode.                                    *)
ProcessError(p) == Processing(p, "error") /\ Close(p) /\ UNCHANGED faults

(* Both goodbyes are said, or the error message is flushed.                *)
Hangup(p) ==
  /\ sess[p].live /\ (Over(p) \/ sess[p].error)
  /\ Close(p) /\ UNCHANGED faults

(* read_some: only when no command is left to process.                     *)
Read(p) ==
  /\ sess[p].live /\ ~Over(p) /\ inbuf[p] = <<>>
  /\ \E n \in 1..Min({MaxRead, Len(net[p])}) :
       /\ net' = [net EXCEPT ![p] = SubSeq(@, n + 1, Len(@))]
       /\ inbuf' = [inbuf EXCEPT ![p] = IF sess[p].error THEN <<>>
                                        ELSE SubSeq(net[p], 1, n)]
  /\ UNCHANGED <<conf, db, disk, sess, faults, foreign>>

(* read_some fails: the other side has gone.                               *)
EndOfFile(p) ==
  /\ sess[p].live /\ ~sess[Other(p)].live
  /\ net[p] = <<>> /\ inbuf[p] = <<>>
  /\ Close(p) /\ UNCHANGED faults

(* An I/O error, a timeout or an idle session reaped.                      *)
ConnectionLost(p) ==
  /\ sess[p].live /\ faults < MaxFaults
  /\ Close(p) /\ faults' = faults + 1

(* The process dies: what is not committed is gone.                        *)
Crash(p) ==
  /\ sess[p].live /\ faults < MaxFaults
  /\ faults' = faults + 1
  /\ db' = [db EXCEPT ![p] = disk[p]]
  /\ sess' = [sess EXCEPT ![p].live = FALSE, ![p].crashed = TRUE]
  /\ net' = [net EXCEPT ![p] = <<>>]
  /\ inbuf' = [inbuf EXCEPT ![p] = <<>>]
  /\ UNCHANGED <<conf, disk, foreign>>

(* Another session of the server's process, with another client, writes    *)
(* an item of conf.foreign.                                                *)
OtherSessionWrites(x) ==
  /\ Cardinality(foreign) < MaxForeign
  /\ x \in conf.foreign \ db["server"].items
  /\ Needs(x) \subseteq db["server"].items
  /\ db' = [db EXCEPT !["server"].items = @ \cup {x}]
  /\ disk' = [disk EXCEPT !["server"] = db'["server"]]
  /\ foreign' = foreign \cup {x}
  /\ UNCHANGED <<conf, sess, net, inbuf, faults>>

Process(p) ==
  \/ p = "client" /\ (ProcessHello \/ ProcessConfirm)
  \/ p = "server" /\ ProcessAuth
  \/ ProcessRefine(p) \/ ProcessDone(p) \/ ProcessSendData(p)
  \/ ProcessEpoch(p) \/ ProcessKeyOrContent(p) \/ ProcessCert(p) \/ ProcessRevision(p)
  \/ ProcessBye(p) \/ ProcessError(p)

Step(p) == Process(p) \/ Read(p) \/ Hangup(p) \/ EndOfFile(p)

Ended == \A p \in Peers : ~sess[p].live

Next ==
  \/ \E p \in Peers : Step(p) \/ ConnectionLost(p) \/ Crash(p)
  \/ \E x \in Items : OtherSessionWrites(x)
  \/ Ended /\ UNCHANGED vars

(* Both probe loops keep turning.                                          *)
Spec == Init /\ [][Next]_vars /\ \A p \in Peers : WF_vars(Step(p))

-----------------------------------------------------------------------------
(* Properties.                                                             *)

IsSink(p) == sess[p].role \in {"sink", "both"}
IsSource(p) == sess[p].role \in {"source", "both"}

(* However the connection and the processes end, what is committed is a    *)
(* database without dangling references, and so is what is seen.           *)
DatabaseClosed == \A p \in Peers : Closure(db[p].items) /\ Closure(disk[p].items)

(* After authentication no command is ever refused by the require()s of    *)
(* dispatch_payload, in whatever order the three refinements, the requests *)
(* and the data of the two sides cross.                                    *)
NoProtocolError ==
  \A p \in Peers : sess[p].live /\ inbuf[p] # <<>> =>
    LET m == Head(inbuf[p])
        s == sess[p]
    IN  /\ m.cmd \in {"refine", "done", "send_data", "data"} => s.authenticated
        /\ m.cmd = "refine" => m.type \notin s.tree_is_done
        /\ m.cmd = "send_data" => s.role \in {"source", "both"}
        /\ m.cmd \in {"data", "nonexistant"} => s.role \in {"sink", "both"}

(* A goodbye that is not part of an error says that everything this side   *)
(* ever asked for or was given has arrived, has been analyzed and is in    *)
(* its database: nothing is left in the writer or waiting for the analysis. *)
GoodbyeMeansDone ==
  \A p \in Peers : sess[p].sent_goodbye /\ ~sess[p].error /\ ~sess[p].crashed =>
    /\ sess[p].requested = {} /\ sess[p].held = {}
    /\ sess[p].certs \cup sess[p].ancestry \subseteq db[p].items

(* The post-state of a netsync (netsync.cc:92): a sink that has ended with *)
(* goodbyes contains a superset of the items of its source, and the epoch  *)
(* of the branch; peers that are both end with the same items.             *)
PostState ==
  /\ \A p \in Peers : ~sess[p].live /\ ~sess[p].crashed /\ Over(p) /\ IsSink(p) =>
       /\ conf.items[Other(p)] \subseteq db[p].items
       /\ sess[Other(p)].tree["epoch"] \subseteq {db[p].epoch}
  /\ \A p \in Peers : sess[p].authenticated /\ sess[p].role = "source" =>
       db[p].items \subseteq conf.items[p] \cup foreign \cup {ServerKey}

(* Nothing is written before the epochs are known to agree: a step that    *)
(* writes an item of the other side is one of a session that has the       *)
(* other side's epoch (outside of error unwind mode).                      *)
EpochsFirst ==
  [][\A p \in Peers :
       ~(db'[p].items \subseteq db[p].items \cup {ServerKey} \cup foreign') /\ ~sess[p].error =>
         sess[Other(p)].tree["epoch"] \subseteq {db[p].epoch}]_vars

(* Every netsync comes to an end on both sides, whatever is refused, lost  *)
(* or in error.                                                            *)
Ends == <>Ended
=============================================================================
