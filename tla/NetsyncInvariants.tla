------------------------- MODULE NetsyncInvariants --------------------------
(***************************************************************************)
(* The invariant of a netsync session that the proofs rest on, the         *)
(* accounts that make its goodbyes honest, and what its kinds of steps do. *)
(* The proofs are in NetsyncSessionProofs.                                 *)
(***************************************************************************)
EXTENDS NetsyncSession

-----------------------------------------------------------------------------
(* The inductive invariant.                                                *)

Things == Epochs \cup Items

Messages ==
       [cmd : {"hello", "auth", "anonymous", "confirm", "error", "bye"}]
  \cup [cmd : {"refine"}, type : Types, items : SUBSET Things]
  \cup [cmd : {"done"}, type : Types]
  \cup [cmd : {"send_data", "data", "nonexistant"}, item : Things]

Databases == [items : SUBSET Items, epoch : Epochs \cup {NoEpoch}]

Sessions ==
  [live : BOOLEAN, crashed : BOOLEAN, role : {"source", "sink", "both"},
   authenticated : BOOLEAN, valve : BOOLEAN,
   tree : [Types -> SUBSET Things],
   had_refinements : SUBSET Types, tree_is_done : SUBSET Types,
   requested : SUBSET Things, received : SUBSET Things,
   certs : SUBSET Items, ancestry : SUBSET Items, analyzed : BOOLEAN,
   held : SUBSET Items,
   error : BOOLEAN, sent_goodbye : BOOLEAN, received_goodbye : BOOLEAN]

TypeOK ==
  /\ conf \in Configs
  /\ db \in [Peers -> Databases] /\ disk \in [Peers -> Databases]
  /\ sess \in [Peers -> Sessions]
  /\ net \in [Peers -> Seq(Messages)] /\ inbuf \in [Peers -> Seq(Messages)]

(* All that is on its way to p.                                            *)
Stream(p) == inbuf[p] \o net[p]
Exchanged(m) == m.cmd \in {"refine", "done", "send_data", "data", "nonexistant"}

(* Only sides that are both authenticated exchange anything.               *)
Authentication ==
  LET c == sess["client"]
      s == sess["server"]
  IN  /\ c.authenticated => s.authenticated
      /\ \A p \in Peers : \A i \in DOMAIN Stream(p) :
           /\ Stream(p)[i].cmd = "confirm" => s.authenticated
           /\ Exchanged(Stream(p)[i]) => c.authenticated
           /\ Stream(p)[i].cmd = "confirm" /\ ~c.authenticated => ~s.error
      /\ ~c.authenticated => \A p \in Peers :
           /\ sess[p].had_refinements = {} /\ sess[p].tree_is_done = {}
           /\ sess[p].held = {} /\ sess[p].certs = {} /\ sess[p].ancestry = {}
           /\ ~sess[p].valve
      /\ c.error => c.authenticated

(* The server has taken the role opposite to the client's, and nobody asks *)
(* a sink for data or sends any to a source.                               *)
Opposed ==
  /\ sess["client"].role = conf.role["client"]
  /\ sess["server"].authenticated =>
       \A p \in Peers : sess[p].role = "source" <=> sess[Other(p)].role = "sink"
  /\ \A p \in Peers : \A i \in DOMAIN Stream(p) :
       /\ Stream(p)[i].cmd = "send_data" => IsSource(p)
       /\ Stream(p)[i].cmd \in {"data", "nonexistant"} => IsSink(p)
  /\ \A p \in Peers : sess[p].role = "source" =>
       sess[p].held = {} /\ sess[p].certs = {} /\ sess[p].ancestry = {}

IsRefine(p, i, t) == i \in DOMAIN Stream(p) /\ Stream(p)[i].cmd = "refine" /\ Stream(p)[i].type = t
IsDone(p, i, t) == i \in DOMAIN Stream(p) /\ Stream(p)[i].cmd = "done" /\ Stream(p)[i].type = t

IsRequest(p, i, t) ==
  i \in DOMAIN Stream(p) /\ Stream(p)[i].cmd = "send_data" /\ TypeOf(Stream(p)[i].item) = t

IsData(p, i, t) ==
  i \in DOMAIN Stream(p) /\ Stream(p)[i].cmd = "data" /\ TypeOf(Stream(p)[i].item) = t

(* The client's roots are the only nodes on the way, before their markers  *)
(* and all data; a side in error has seen them.                            *)
Roots ==
  /\ \A p \in Peers, t \in Types : \A x \in sess[p].tree[t] : TypeOf(x) = t
  /\ \A p \in Peers, t \in Types : \A i \in DOMAIN Stream(p) : IsRefine(p, i, t) =>
       /\ p = "server" /\ Stream(p)[i].items = sess["client"].tree[t]
       /\ \A r \in Peers : t \notin sess[r].tree_is_done \cup sess[r].had_refinements
       /\ \A j \in DOMAIN Stream(p) : IsRefine(p, j, t) => j = i
       /\ \A j \in DOMAIN Stream(p) : IsDone(p, j, t) => j > i
       /\ \E j \in DOMAIN Stream(p) : IsDone(p, j, t)
       /\ \A j \in DOMAIN Stream(p) : Stream(p)[j].cmd = "data" => j > i
       /\ ~sess[p].error

(* There is at most one marker of a type, and it passes from the client to *)
(* the server, which has or will have seen the root; back; to the server   *)
(* again, when the client is done; and back, when both are.                *)
Markers ==
  /\ \A p, q \in Peers, t \in Types : \A i \in DOMAIN Stream(p), j \in DOMAIN Stream(q) :
       IsDone(p, i, t) /\ IsDone(q, j, t) => p = q /\ i = j
  /\ \A t \in Types : \A i \in DOMAIN Stream("server") : IsDone("server", i, t) =>
       /\ t \notin sess["server"].tree_is_done
       /\ \/ t \in sess["client"].tree_is_done /\ t \notin sess["server"].had_refinements
          \/ t \notin sess["client"].tree_is_done /\ t \in sess["server"].had_refinements
          \/ t \notin sess["client"].tree_is_done
               /\ \E j \in DOMAIN Stream("server") : IsRefine("server", j, t)
  /\ \A t \in Types : \A i \in DOMAIN Stream("client") : IsDone("client", i, t) =>
       /\ t \notin sess["server"].had_refinements
       /\ t \in sess["client"].tree_is_done <=> t \in sess["server"].tree_is_done
  /\ sess["client"].had_refinements = {}
  /\ sess["server"].tree_is_done \subseteq sess["client"].tree_is_done

(* What a tree is made of arrives before the marker says that it is done.  *)
Traffic ==
  \A t \in Types :
    /\ \A i \in DOMAIN Stream("client") :
         IsRequest("client", i, t) \/ IsData("client", i, t) =>
           /\ t \notin sess["client"].tree_is_done
           /\ \A j \in DOMAIN Stream("client") : IsDone("client", j, t) => j > i
           /\ \A j \in DOMAIN Stream("server") : ~IsRefine("server", j, t)
    /\ \A i \in DOMAIN Stream("server") :
         /\ ~IsRequest("server", i, t)
         /\ IsData("server", i, t) =>
              /\ t \notin sess["server"].tree_is_done
              /\ \A j \in DOMAIN Stream("server") : IsDone("server", j, t) /\ j < i =>
                   t \in sess["server"].had_refinements
              /\ \A j \in DOMAIN Stream("server") : ~IsRefine("server", j, t)

(* p has the epoch of the other side.                                      *)
EpochKnown(p) == sess[Other(p)].tree["epoch"] \subseteq {db[p].epoch}
Going(p) == sess[p].live /\ ~sess[p].error

RootSeen ==
  /\ sess["client"].authenticated
  /\ \A i \in DOMAIN Stream("server") : ~IsRefine("server", i, "epoch")

DataFor(p, i, x) == i \in DOMAIN Stream(p) /\ Stream(p)[i].cmd = "data" /\ Stream(p)[i].item = x

(* The way of the other side's epoch to a sink.                            *)
EpochsMet ==
  /\ \A p \in Peers :
       /\ sess[p].tree["epoch"] \subseteq Epochs
       /\ sess[p].live => sess[p].tree["epoch"] \subseteq {db[p].epoch}
       /\ Going(p) => sess[p].received \cap Epochs \subseteq {db[p].epoch}
       /\ sess[p].valve => "epoch" \in sess[p].tree_is_done
       /\ sess[p].valve /\ Going(p) /\ IsSink(p) => EpochKnown(p)
  /\ Going("server") /\ IsSink("server") /\ RootSeen =>
       \A x \in sess["client"].tree["epoch"] :
         x = db["server"].epoch \/ x \in sess["server"].requested
  /\ Going("client") /\ IsSink("client") /\ Going("server") /\ RootSeen =>
       \A x \in sess["server"].tree["epoch"] : x = db["client"].epoch
         \/ \E j \in DOMAIN Stream("client") : DataFor("client", j, x)
  /\ Going("client") /\ IsSink("client") =>
       /\ "epoch" \in sess["client"].tree_is_done => EpochKnown("client")
       /\ \A i \in DOMAIN Stream("client") : IsDone("client", i, "epoch") =>
            \A x \in sess["server"].tree["epoch"] : x = db["client"].epoch
              \/ \E j \in DOMAIN Stream("client") : j < i /\ DataFor("client", j, x)

RequestFor(p, i, x) ==
  i \in DOMAIN Stream(p) /\ Stream(p)[i].cmd = "send_data" /\ Stream(p)[i].item = x

(* The server still has to get the client's epoch x.                       *)
Owed(x) ==
  /\ sess["client"].authenticated /\ Going("server") /\ IsSink("server")
  /\ x \in sess["client"].tree["epoch"] /\ x # db["server"].epoch

KeepsNothing(p) == sess[p].held = {} /\ sess[p].certs = {} /\ sess[p].ancestry = {}

(* The epoch is ahead of everything else that the server gets: its root is *)
(* the first thing that the client sends, it is asked for first, and it    *)
(* arrives first.                                                          *)
EpochLeads ==
  /\ \A p \in Peers : \A x, y \in sess[p].tree["epoch"] : x = y
  /\ ~RootSeen =>
       /\ sess["server"].requested = {} /\ KeepsNothing("server")
       /\ \A i \in DOMAIN Stream("client") : ~Exchanged(Stream("client")[i])
       /\ \A i \in DOMAIN Stream("server") : Exchanged(Stream("server")[i]) =>
            \E j \in DOMAIN Stream("server") : j <= i /\ IsRefine("server", j, "epoch")
  /\ \A x \in Epochs : Owed(x) =>
       /\ KeepsNothing("server")
       /\ \A i \in DOMAIN Stream("server") : Stream("server")[i].cmd = "data" =>
            \E j \in DOMAIN Stream("server") : j <= i /\ DataFor("server", j, x)
       /\ Going("client") /\ RootSeen =>
            \/ \E j \in DOMAIN Stream("server") : DataFor("server", j, x)
            \/ /\ \E j \in DOMAIN Stream("client") : RequestFor("client", j, x)
               /\ \A i \in DOMAIN Stream("client") : Stream("client")[i].cmd = "send_data" =>
                    \E j \in DOMAIN Stream("client") : j <= i /\ RequestFor("client", j, x)

(* What is committed has been seen.                                        *)
Committed == \A p \in Peers : disk[p].items \subseteq db[p].items

Inv ==
  /\ TypeOK /\ DatabaseClosed /\ Committed
  /\ Authentication /\ Opposed /\ Roots /\ Markers /\ Traffic
  /\ EpochsMet /\ EpochLeads

-----------------------------------------------------------------------------
(* What a goodbye says: the accounts of what was asked for and given.      *)

(* The databases hang together by certs: each revision there at the start  *)
(* has one, as commit gives it.  Other sessions write no revisions         *)
(* meanwhile (see netsync.cc:2596).                                        *)
Tidy ==
  /\ conf.foreign \cap Revisions = {}
  /\ \A p \in Peers : \A r \in Revisions \cap conf.items[p] :
       \E c \in Certs \cap conf.items[p] : CertOn[c] = r

Sound(p) == ~sess[p].error /\ ~sess[p].crashed

(* The revisions that the certs of a tree are on.                          *)
On(T) == {CertOn[c] : c \in T["cert"]}

(* The parents of a revision with a cert in the tree have one too.         *)
Ancestral(T) ==
  \A c \in T["cert"] : Names[CertOn[c]] \cap Revisions \subseteq On(T)

(* Where the items are that a session s has asked for or got, when its     *)
(* database holds D and the other side has the trees T.                    *)
Entered(s, D, T) ==
  /\ s.requested \cap s.received = {}
  /\ s.role = "source" => s.requested = {} /\ s.received = {}
  /\ s.requested \cap Revisions \cap D = {}
  /\ (s.requested \cup s.received) \cap Certs \subseteq T["cert"]
  /\ (s.requested \cup s.received) \cap Revisions \subseteq On(T)
  /\ s.certs \subseteq Certs /\ s.ancestry \subseteq Revisions \cap s.received
  /\ s.held \cap Revisions \subseteq s.ancestry /\ s.held \cap Certs \subseteq s.certs
  /\ s.received \ Epochs \subseteq D \cup s.held \cup s.certs \cup s.ancestry
  /\ \A c \in s.certs : CertOn[c] \in D \cup s.requested \cup s.received
  /\ s.analyzed =>
       /\ "cert" \in s.tree_is_done /\ s.requested \cap Revisions = {}
       /\ s.certs \cup s.ancestry \subseteq D \cup s.held
       /\ \A r \in s.ancestry : Names[r] \cap Contents \subseteq D \cup s.requested \cup s.received

(* The analysis has been made, and the valve opened, as soon as they can.  *)
AnalysisMade(s) == "cert" \in s.tree_is_done /\ s.requested \cap Revisions = {} => s.analyzed
ValveOpened(s) == "epoch" \in s.tree_is_done /\ s.requested \cap Epochs = {} => s.valve
Booked(s, D, T) == Entered(s, D, T) /\ AnalysisMade(s) /\ ValveOpened(s)

(* A session that has all it wants.                                        *)
Satisfied(s) == s.tree_is_done = Types /\ s.requested = {}

(* The books of a session that has said goodbye.                           *)
Balanced(s, D, epoch, T) ==
  /\ Satisfied(s) /\ s.held = {} /\ s.certs \cup s.ancestry \subseteq D
  /\ s.role # "source" => T["key"] \cup T["cert"] \subseteq D /\ T["epoch"] \subseteq {epoch}

Books ==
  \A p \in Peers : Sound(p) =>
    /\ Booked(sess[p], db[p].items, sess[Other(p)].tree)
    /\ sess[p].sent_goodbye => Balanced(sess[p], db[p].items, db[p].epoch, sess[Other(p)].tree)

(* The trees have what the databases held at the start.                    *)
Whole(p) ==
  /\ Certs \cap conf.items[p] \subseteq sess[p].tree["cert"]
  /\ {KeyOf[c] : c \in Certs \cap conf.items[p]} \cap conf.items[p] \subseteq sess[p].tree["key"]

Planted ==
  /\ \A p \in Peers :
       /\ ~sess[p].crashed => sess[p].tree["key"] \cup sess[p].tree["cert"] \subseteq db[p].items
       /\ Ancestral(sess[p].tree)
       /\ conf.items[p] \subseteq disk[p].items
       /\ sess[p].crashed => ~sess[p].live
  /\ sess["server"].authenticated => \A p \in Peers : Whole(p)
  /\ \A i \in DOMAIN Stream("server") :
       Stream("server")[i].cmd \in {"auth", "anonymous"} => Whole("client")
  /\ ~sess["client"].authenticated => \A p \in Peers :
       sess[p].requested = {} /\ sess[p].received = {} /\ ~sess[p].analyzed

(* A side that is not authenticated or only a source keeps its database,   *)
(* but for the server's key and what other sessions write.                 *)
SourceKeeps ==
  /\ foreign \subseteq conf.foreign
  /\ \A p \in Peers : ~sess[p].authenticated \/ sess[p].role = "source" =>
       db[p].items \subseteq conf.items[p] \cup foreign \cup {ServerKey}

(* A command m on its way to p that gives or asks for an item: a cert is   *)
(* in the giver's tree, and whoever gets a revision or a content has asked *)
(* for it.                                                                 *)
Due(p, x) == Going(p) /\ x \in Revisions \cup Contents => x \in sess[p].requested \cup sess[p].received

Ware(p, m) ==
  /\ m.cmd = "data" =>
       (m.item \in Certs => m.item \in sess[Other(p)].tree["cert"]) /\ Due(p, m.item)
  /\ m.cmd = "send_data" =>
       (m.item \in Certs => m.item \in sess[p].tree["cert"]) /\ Due(Other(p), m.item)

Wares == \A p \in Peers : \A i \in DOMAIN Stream(p) : Ware(p, Stream(p)[i])

Seen(t) ==
  sess["client"].authenticated /\ \A i \in DOMAIN Stream("server") : ~IsRefine("server", i, t)

(* The way of the keys and certs of the other side to a sink.              *)
Asked(t) ==
  Going("server") /\ IsSink("server") =>
    sess["client"].tree[t] \subseteq
      sess["server"].tree[t] \cup sess["server"].requested \cup sess["server"].received

Has(x, t) == x \in sess["client"].tree[t] \cup sess["client"].received

Given(t) ==
  Going("client") /\ IsSink("client") /\ Going("server") =>
    \A x \in sess["server"].tree[t] :
      Has(x, t) \/ \E j \in DOMAIN Stream("client") : DataFor("client", j, x)

GivenFirst(t) ==
  Going("client") /\ IsSink("client") =>
    /\ t \in sess["client"].tree_is_done => \A x \in sess["server"].tree[t] : Has(x, t)
    /\ \A i \in DOMAIN Stream("client") : IsDone("client", i, t) =>
         \A x \in sess["server"].tree[t] :
           Has(x, t) \/ \E j \in DOMAIN Stream("client") : j < i /\ DataFor("client", j, x)

Arriving ==
  \A t \in {"key", "cert"} : (Seen(t) => Asked(t) /\ Given(t)) /\ GivenFirst(t)

Account == Books /\ Planted /\ Wares /\ Arriving

(* Tidy databases in which every key and content is of use: a cert is      *)
(* signed with the key, a revision has the content.                        *)
Coherent ==
  /\ Tidy
  /\ \A p \in Peers : \A x \in conf.items[p] :
       /\ x \in Keys => \E c \in Certs \cap conf.items[p] : KeyOf[c] = x
       /\ x \in Contents => \E r \in Revisions \cap conf.items[p] : x \in Names[r]

-----------------------------------------------------------------------------
(* What the kinds of steps do.                                             *)

(* p loses the first k commands on their way to it, and sends out.         *)
Flow(p, k, out) ==
  LET q == Other(p)
      n == Len(Stream(q))
  IN  /\ k \in Nat /\ out \in Seq(Messages) /\ n \in Nat
      /\ \A i \in DOMAIN Stream(p) : i \in Nat \ {0} /\ Stream(p)[i] \in Messages
      /\ \A i \in DOMAIN Stream(q) : i \in Nat \ {0} /\ i <= n /\ Stream(q)[i] \in Messages
      /\ \A i \in DOMAIN Stream(p)' :
           i \in Nat \ {0} /\ i + k \in DOMAIN Stream(p) /\ Stream(p)'[i] = Stream(p)[i+k]
      /\ \A i \in DOMAIN Stream(p) : i > k => i - k \in DOMAIN Stream(p)'
      /\ \A i \in DOMAIN Stream(q) : i \in DOMAIN Stream(q)' /\ Stream(q)'[i] = Stream(q)[i]
      /\ \A i \in DOMAIN Stream(q)' :
           /\ i \in Nat \ {0}
           /\ \/ i \in DOMAIN Stream(q)
              \/ i > n /\ i - n \in DOMAIN out /\ Stream(q)'[i] = out[i - n]
      /\ \A i \in DOMAIN out : i + n \in DOMAIN Stream(q)' /\ Stream(q)'[i + n] = out[i]

(* What leaves p when a handler queues out: a goodbye may follow, and in   *)
(* error unwind mode nothing is sent.                                      *)
Leaving(p, out, sent) ==
  /\ sent \in Seq(Messages)
  /\ \A i \in DOMAIN sent :
       ~sess[p].error /\ ((i \in DOMAIN out /\ sent[i] = out[i]) \/ sent[i] = Simple("bye"))
  /\ ~sess[p].error => \A i \in DOMAIN out : i \in DOMAIN sent /\ sent[i] = out[i]

(* The sessions and databases after a handler of p that left s and epoch.  *)
Left(p, s, epoch) ==
  LET q == Other(p)
      n == sess'[p]
  IN  /\ conf' = conf /\ sess'[q] = sess[q] /\ db'[q] = db[q]
      /\ db'[p].epoch = epoch
      /\ db'[p].items = IF s.valve THEN Written(db[p].items, s.held) ELSE db[p].items
      /\ n.live = s.live /\ n.crashed = s.crashed /\ n.role = s.role
      /\ n.authenticated = s.authenticated /\ n.valve = s.valve /\ n.tree = s.tree
      /\ n.had_refinements = s.had_refinements /\ n.tree_is_done = s.tree_is_done
      /\ n.requested = s.requested /\ n.received = s.received /\ n.certs = s.certs
      /\ n.ancestry = s.ancestry /\ n.analyzed = s.analyzed /\ n.error = s.error
      /\ n.held \subseteq s.held

(* The fields that these parts leave alone.                                *)
Related(a, s) ==
  /\ a.live = s.live /\ a.crashed = s.crashed /\ a.role = s.role
  /\ a.authenticated = s.authenticated /\ a.tree = s.tree
  /\ a.had_refinements = s.had_refinements /\ a.tree_is_done = s.tree_is_done
  /\ a.certs = s.certs /\ a.ancestry = s.ancestry /\ a.error = s.error

(* Roles, trees and authentication are settled.                            *)
Settled ==
  /\ sess["client"].authenticated /\ sess["server"].authenticated /\ conf' = conf
  /\ \A r \in Peers :
       /\ sess'[r].role = sess[r].role /\ sess'[r].tree = sess[r].tree
       /\ sess'[r].authenticated = sess[r].authenticated

Plain(p, k, sent) ==
  /\ Flow(p, k, sent) /\ Settled
  /\ \A r \in Peers :
       /\ sess'[r].had_refinements = sess[r].had_refinements
       /\ sess'[r].tree_is_done = sess[r].tree_is_done
       /\ sess'[r].error =>
            \/ sess[r].error
            \/ \A i \in DOMAIN Stream(r)' : Stream(r)'[i].cmd # "refine"
  /\ \A i \in DOMAIN Stream(p) : i <= k /\ Stream(p)[i].cmd = "refine" => DOMAIN Stream(p)' = {}
  /\ \A i \in DOMAIN sent :
       /\ sent[i].cmd \in {"send_data", "data", "nonexistant", "bye", "error"}
       /\ sent[i].cmd = "send_data" => TypeOf(sent[i].item) \notin Types
       /\ sent[i].cmd = "data" /\ TypeOf(sent[i].item) \in Types =>
            p = "client" /\ IsRequest(p, 1, TypeOf(sent[i].item))

(* Where the commands after such a step were before it.                    *)
Shift(p, k, r) == IF r = p THEN k ELSE 0

(* The step that takes a marker.                                           *)
Marked(p, t, sent) ==
  LET q == Other(p)
  IN  /\ Flow(p, 1, sent) /\ Settled /\ t \in Types /\ IsDone(p, 1, t)
      /\ \A r \in Peers : sess'[r].error => sess[r].error
      /\ sess'[q].had_refinements = sess[q].had_refinements
      /\ sess'[q].tree_is_done = sess[q].tree_is_done
      /\ sess'[p].had_refinements = sess[p].had_refinements \ ({t} \ sess[p].tree_is_done)
      /\ sess'[p].tree_is_done = sess[p].tree_is_done \cup ({t} \ sess[p].had_refinements)
      /\ \A i \in DOMAIN sent :
           \/ i = 1 /\ sent[i] = Done(t) /\ t \notin sess[p].tree_is_done
           \/ sent[i].cmd = "send_data" /\ TypeOf(sent[i].item) \notin Types
           \/ sent[i].cmd = "bye"

(* The step that takes a root.                                             *)
Refined(p, t, sent) ==
  LET q == Other(p)
  IN  /\ Flow(p, 1, sent) /\ Settled /\ t \in Types /\ IsRefine(p, 1, t)
      /\ \A r \in Peers : sess'[r].error => sess[r].error
      /\ sess'[q].had_refinements = sess[q].had_refinements
      /\ \A r \in Peers : sess'[r].tree_is_done = sess[r].tree_is_done
      /\ sess'[p].had_refinements = sess[p].had_refinements \cup {t}
      /\ \A i \in DOMAIN sent :
           \/ sent[i].cmd \in {"send_data", "data"} /\ TypeOf(sent[i].item) = t
           \/ sent[i].cmd = "bye"

(* Nobody sends what its role forbids, and a source keeps nothing.         *)
InRole(p, sent) ==
  /\ \A i \in DOMAIN sent :
       /\ sent[i].cmd = "send_data" => sess[p].role # "source"
       /\ sent[i].cmd \in {"data", "nonexistant"} => sess[p].role # "sink"
  /\ \A r \in Peers : sess[r].role = "source" =>
       sess'[r].held = {} /\ sess'[r].certs = {} /\ sess'[r].ancestry = {}

(* What is owed to the server and to the client once the root of the       *)
(* epochs has been seen.                                                   *)
ServerMet ==
  Going("server") /\ IsSink("server") =>
    \A x \in sess["client"].tree["epoch"] :
      x = db["server"].epoch \/ x \in sess["server"].requested

ClientMet ==
  Going("client") /\ IsSink("client") /\ Going("server") =>
    \A x \in sess["server"].tree["epoch"] : x = db["client"].epoch
      \/ \E j \in DOMAIN Stream("client") : DataFor("client", j, x)

EpochStep(p, k, sent) ==
  LET q == Other(p)
  IN  /\ Flow(p, k, sent) /\ Settled
      /\ sess'[q] = sess[q] /\ db'[q].epoch = db[q].epoch
      /\ sess'[p].live => sess[p].live /\ db[p].epoch \in {NoEpoch, db'[p].epoch}
      /\ Going(p)' => Going(p)
      /\ sess[p].tree_is_done \subseteq sess'[p].tree_is_done
      /\ "epoch" \in sess'[p].tree_is_done =>
           "epoch" \in sess[p].tree_is_done \/ IsDone(p, 1, "epoch")
      /\ sess'[p].valve =>
           \/ sess[p].valve
           \/ sess'[p].requested \cap Epochs = {} /\ "epoch" \in sess'[p].tree_is_done
      /\ Going(p)' =>
           /\ \A x \in Epochs : x \in sess'[p].received \ sess[p].received => db'[p].epoch = x
           /\ \A x \in Epochs : x \in sess[p].requested \ sess'[p].requested => db'[p].epoch = x
           /\ \A j \in DOMAIN Stream(p) :
                j <= k /\ Stream(p)[j].cmd = "data" /\ Stream(p)[j].item \in Epochs =>
                  db'[p].epoch = Stream(p)[j].item
      /\ \A i \in DOMAIN sent :
           p = "server" /\ sent[i].cmd = "done" /\ sent[i].type = "epoch" => RootSeen /\ Going(p)
      /\ RootSeen' /\ Going("server")' => RootSeen \/ (ServerMet' /\ ClientMet')

(* The client's epoch is ahead of all else in these steps.                 *)
LeadStep(p, k, sent) ==
  LET q == Other(p)
      Took(j) == j \in DOMAIN Stream(p) /\ j <= k
  IN  /\ EpochStep(p, k, sent)
      /\ \A i \in DOMAIN sent :
           /\ sent[i].cmd # "refine"
           /\ Exchanged(sent[i]) =>
                k = 1 /\ 1 \in DOMAIN Stream(p) /\ Exchanged(Stream(p)[1]) /\ Going(p)
      /\ p = "client" =>
           /\ \A i \in DOMAIN sent : sent[i].cmd = "data" => RequestFor(p, 1, sent[i].item)
           /\ \A j, x : Took(j) /\ RequestFor(p, j, x) /\ Going(p)' /\ x \in sess[p].tree["epoch"]
                        /\ sess[p].role # "sink" =>
                \E i \in DOMAIN sent : sent[i].cmd = "data" /\ sent[i].item = x
      /\ p = "server" =>
           /\ KeepsNothing(p) /\ (\A j : Took(j) => Stream(p)[j].cmd # "data") => KeepsNothing(p)'
           /\ (\A j : Took(j) => ~Exchanged(Stream(p)[j])) => sess'[p].requested = sess[p].requested
           /\ ~RootSeen /\ RootSeen' =>
                /\ \A i \in DOMAIN sent :
                     sent[i].cmd = "send_data" => sent[i].item \in sess[q].tree["epoch"]
                /\ \A x \in sess[q].tree["epoch"] :
                     x # db'[p].epoch /\ Going(p)' /\ IsSink(p) =>
                       \E i \in DOMAIN sent : sent[i].cmd = "send_data" /\ sent[i].item = x

(* Steps before the client has its confirmation.                           *)
Quiet(p, k, sent) ==
  /\ Flow(p, k, sent)
  /\ ~sess["client"].authenticated /\ ~sess'["client"].authenticated
  /\ conf' = conf /\ sess'["client"].role = sess["client"].role
  /\ \A i \in DOMAIN sent :
       /\ ~Exchanged(sent[i])
       /\ sent[i].cmd = "confirm" => sess'["server"].authenticated /\ ~sess'["server"].error
  /\ \A r \in Peers :
       /\ sess'[r].had_refinements = {} /\ sess'[r].tree_is_done = {}
       /\ sess'[r].held = {} /\ sess'[r].certs = {} /\ sess'[r].ancestry = {} /\ ~sess'[r].valve
       /\ \A t \in Types : \A x \in sess'[r].tree[t] : TypeOf(x) = t
       /\ sess'[r].tree["epoch"] \subseteq Epochs
       /\ sess'[r].live => sess'[r].tree["epoch"] \subseteq {db'[r].epoch}
       /\ Going(r)' => sess'[r].received \cap Epochs \subseteq {db'[r].epoch}
       /\ \A x, y \in sess'[r].tree["epoch"] : x = y
  /\ sess'["server"].requested = {}
  /\ sess["server"].authenticated =>
       sess'["server"].authenticated /\ (sess'["server"].error => sess["server"].error)
  /\ ~sess'["client"].error
  /\ sess'["server"].authenticated =>
       \A r \in Peers : sess'[r].role = "source" <=> sess'[Other(r)].role = "sink"

(* The client's confirmation: its roots and markers leave.                 *)
Opening(tree) ==
  <<Refine("epoch", tree), Done("epoch"), Refine("key", tree), Done("key"),
    Refine("cert", tree), Done("cert")>>

Confirmed(p, sent) ==
  LET q == Other(p)
  IN  /\ p = "client" /\ Flow(p, 1, sent) /\ conf' = conf
      /\ ~sess[p].authenticated /\ sess'[p].authenticated
      /\ sess[q].authenticated /\ ~sess[q].error /\ sess'[q] = sess[q]
      /\ db'[q].epoch = db[q].epoch /\ db'[p].epoch = db[p].epoch
      /\ sess'[p].role = sess[p].role /\ sess'[p].tree = sess[p].tree
      /\ sess'[p].live = sess[p].live /\ sess'[p].error = sess[p].error
      /\ sess'[p].received = sess[p].received /\ ~sess'[p].valve
      /\ sess'[p].had_refinements = {} /\ sess'[p].tree_is_done = {}
      /\ sess'[p].held = {} /\ sess'[p].certs = {} /\ sess'[p].ancestry = {}
      /\ \A i \in DOMAIN sent :
           (i \in 1..6 /\ sent[i] = Opening(sess[p].tree)[i]) \/ sent[i].cmd = "bye"
      /\ \A i \in 1..6 : i \in DOMAIN sent /\ sent[i] = Opening(sess[p].tree)[i]

(* A session that writes what it was sent has the other side's epoch.      *)
WritesKnown ==
  \A r \in Peers :
    ~(db'[r].items \subseteq db[r].items \cup {ServerKey} \cup foreign') /\ ~sess[r].error =>
      EpochKnown(r)

(* Steps that handle no command: the connection or the process ends,       *)
(* commands are read, another session writes.                              *)
Unhandled(r) ==
  /\ sess'[r].role = sess[r].role /\ sess'[r].tree = sess[r].tree
  /\ sess'[r].authenticated = sess[r].authenticated /\ sess'[r].valve = sess[r].valve
  /\ sess'[r].had_refinements = sess[r].had_refinements
  /\ sess'[r].tree_is_done = sess[r].tree_is_done
  /\ sess'[r].requested = sess[r].requested /\ sess'[r].received = sess[r].received
  /\ sess'[r].certs = sess[r].certs /\ sess'[r].ancestry = sess[r].ancestry
  /\ sess'[r].held = sess[r].held /\ sess'[r].error = sess[r].error

Idle(p, k) ==
  LET q == Other(p)
  IN  /\ conf' = conf /\ Flow(p, k, <<>>) /\ \A r \in Peers : Unhandled(r)
      /\ sess'[q] = sess[q] /\ db'[q].epoch = db[q].epoch
      /\ sess'[p].live => sess[p].live /\ db'[p].epoch = db[p].epoch
      /\ k > 0 => ~Going(p)'
      /\ \A i \in DOMAIN Stream(p) : i <= k /\ Stream(p)[i].cmd = "refine" => DOMAIN Stream(p)' = {}

(* What else they do: the sessions are left alone but for their end, and   *)
(* what is written comes from elsewhere.                                   *)
Uneventful(p) ==
  /\ \E k : Idle(p, k)
  /\ foreign \subseteq foreign' /\ foreign' \subseteq foreign \cup conf.foreign
  /\ \A r \in Peers :
       /\ sess'[r].analyzed = sess[r].analyzed /\ sess'[r].sent_goodbye = sess[r].sent_goodbye
       /\ sess'[r].crashed => sess[r].crashed \/ ~sess'[r].live
       /\ ~sess'[r].crashed =>
            ~sess[r].crashed /\ db[r].items \subseteq db'[r].items /\ db'[r].epoch = db[r].epoch
       /\ db'[r].items \subseteq db[r].items \cup foreign' /\ disk[r].items \subseteq disk'[r].items

(* Handlers of authenticated sessions that take neither a node nor a       *)
(* marker.                                                                 *)
PlainReply(p, s, epoch, out) ==
  LET m == Stream(p)[1]
      o == sess[p]
  IN  /\ s.role = o.role /\ s.tree = o.tree /\ s.authenticated = o.authenticated /\ s.live = o.live
      /\ s.had_refinements = o.had_refinements /\ s.tree_is_done = o.tree_is_done
      /\ m.cmd \notin {"refine", "done"}
      /\ o.error => s.error
      /\ s.error => o.error \/ m.cmd = "data"
      /\ \A i \in DOMAIN out :
           /\ out[i].cmd \in {"send_data", "data", "nonexistant", "error"}
           /\ out[i].cmd = "send_data" => o.role # "source" /\ TypeOf(out[i].item) \notin Types
           /\ out[i].cmd \in {"data", "nonexistant"} => o.role # "sink"
           /\ out[i].cmd = "data" => RequestFor(p, 1, out[i].item)
           /\ Exchanged(out[i]) => Exchanged(m)
      /\ o.role = "source" => s.held = {} /\ s.certs = {} /\ s.ancestry = {}
      /\ db[p].epoch \in {NoEpoch, epoch}
      /\ s.valve => o.valve \/ (s.requested \cap Epochs = {} /\ "epoch" \in s.tree_is_done)
      /\ ~s.error =>
           /\ \A x \in Epochs : x \in s.received \ o.received => epoch = x
           /\ \A x \in Epochs : x \in o.requested \ s.requested => epoch = x
           /\ m.cmd = "data" /\ m.item \in Epochs => epoch = m.item
      /\ o.live
      /\ m.cmd # "data" => s.held = o.held /\ s.certs = o.certs /\ s.ancestry = o.ancestry
      /\ ~Exchanged(m) => s.requested = o.requested
      /\ m.cmd = "send_data" /\ o.role # "sink" /\ m.item = db[p].epoch =>
           \E i \in DOMAIN out : out[i].cmd = "data" /\ out[i].item = m.item
      /\ m.cmd = "data" /\ m.item \in Epochs => s.held = o.held

(* Handlers that run before the client has its confirmation.               *)
QuietReply(p, s, epoch, out) ==
  LET o == sess[p]
  IN  /\ s.authenticated => p = "server"
      /\ s.had_refinements = o.had_refinements /\ s.tree_is_done = o.tree_is_done
      /\ s.held = o.held /\ s.certs = o.certs /\ s.ancestry = o.ancestry /\ s.valve = o.valve
      /\ s.received = o.received /\ s.requested = o.requested
      /\ o.error => s.error
      /\ s.error => o.error \/ (~o.authenticated /\ p = "server")
      /\ o.authenticated => s.authenticated /\ s.role = o.role
      /\ p = "server" /\ s.authenticated =>
           /\ s.role = "source" <=> sess["client"].role = "sink"
           /\ s.role = "sink" <=> sess["client"].role = "source"
      /\ \A i \in DOMAIN out :
           out[i].cmd \in {"error", "confirm"} /\ (out[i].cmd = "confirm" => s.authenticated /\ s.error = o.error)
      /\ db[p].epoch \in {NoEpoch, epoch}
      /\ s.live => o.live
      /\ s.tree["epoch"] \subseteq Epochs \cap {epoch}
      /\ \A t \in Types : \A x \in s.tree[t] : TypeOf(x) = t
      /\ p = "client" => s.role = o.role

Apart(a, s) == a.analyzed = s.analyzed /\ a.sent_goodbye = s.sent_goodbye

(* What process_refine_cmd leaves: theirs and ours are the items that only *)
(* one of the trees has.                                                   *)
RefineLeft(p, t, theirs, ours, n, out) ==
  LET o == sess[p]
  IN  /\ Reply(p, n, db[p].epoch, out)
      /\ inbuf[p] # <<>> /\ o \in Sessions /\ o.live /\ db[p].epoch \in Epochs \cup {NoEpoch}
      /\ Stream(p)[1].cmd = "refine" /\ 1 \in DOMAIN Stream(p) /\ IsRefine(p, 1, t)
      /\ sess["client"].authenticated /\ p = "server" /\ ~o.error
      /\ o.role = "source" => o.held = {} /\ o.certs = {} /\ o.ancestry = {}
      /\ o.role \in {"source", "sink", "both"}
      /\ \A x \in theirs : x \in sess["client"].tree[t] /\ TypeOf(x) = t
      /\ \A x \in ours : x \in o.tree[t] /\ TypeOf(x) = t
      /\ \A x \in sess["client"].tree[t] : x \in theirs \/ x \in o.tree[t]
      /\ \A x \in o.tree[t] : x \in ours \/ x \in sess["client"].tree[t]
      /\ n.requested = o.requested \cup IF o.role = "source" THEN {} ELSE theirs \ (o.requested \cup o.received)
      /\ n.had_refinements = o.had_refinements \cup {t} /\ n.tree_is_done = o.tree_is_done
      /\ n.live = o.live /\ n.crashed = o.crashed /\ n.role = o.role
      /\ n.authenticated = o.authenticated /\ n.tree = o.tree /\ n.valve = o.valve
      /\ n.received = o.received /\ n.held = o.held /\ n.certs = o.certs
      /\ n.ancestry = o.ancestry /\ n.error = o.error
      /\ n.analyzed = o.analyzed /\ n.sent_goodbye = o.sent_goodbye
      /\ \A i \in DOMAIN out :
           \/ \E x \in theirs : out[i] = [cmd |-> "send_data", item |-> x] /\ o.role # "source"
           \/ \E x \in ours : out[i] = [cmd |-> "data", item |-> x] /\ o.role # "sink"
      /\ o.role # "sink" => \A x \in ours : \E i \in DOMAIN out : out[i] = [cmd |-> "data", item |-> x]
      /\ \A x \in theirs : o.role # "source" /\ x \notin o.requested \cup o.received =>
           \E i \in DOMAIN out : out[i] = [cmd |-> "send_data", item |-> x]

(* What process_done_cmd leaves, whichever of its branches it takes.       *)
DoneLeft(p, t, n, out) ==
  LET o == sess[p]
  IN  /\ n \in Sessions /\ out \in Seq(Messages) /\ Reply(p, n, db[p].epoch, out)
      /\ n.had_refinements = o.had_refinements \ ({t} \ o.tree_is_done)
      /\ n.tree_is_done = o.tree_is_done \cup ({t} \ o.had_refinements)
      /\ n.role = o.role /\ n.tree = o.tree /\ n.authenticated = o.authenticated /\ n.live = o.live
      /\ n.received = o.received /\ o.requested \subseteq n.requested
      /\ n.certs = o.certs /\ n.ancestry = o.ancestry /\ n.error = o.error
      /\ n.held \subseteq o.held \cup o.certs \cup o.ancestry
      /\ n.valve => o.valve \/ (n.requested \cap Epochs = {} /\ "epoch" \in n.tree_is_done)
      /\ \A i \in DOMAIN out :
           \/ i = 1 /\ out[i] = Done(t) /\ t \notin o.tree_is_done
           \/ /\ out[i].cmd = "send_data" /\ TypeOf(out[i].item) \notin Types
              /\ o.role # "source"

(* What of a session the books are about.                                  *)
SameBooks(n, s) ==
  /\ n.role = s.role /\ n.tree_is_done = s.tree_is_done /\ n.valve = s.valve
  /\ n.requested = s.requested /\ n.received = s.received
  /\ n.certs = s.certs /\ n.ancestry = s.ancestry /\ n.analyzed = s.analyzed

(* Keys and certs on their way.                                            *)
Moved(p, k, sent) ==
  LET q == Other(p)
  IN  /\ Flow(p, k, sent) /\ Settled /\ sess'[q] = sess[q]
      /\ Going(p)' => Going(p)
      /\ sess[p].received \subseteq sess'[p].received
      /\ sess[p].requested \cup sess[p].received \subseteq sess'[p].requested \cup sess'[p].received
      /\ \A t \in sess'[p].tree_is_done : t \in sess[p].tree_is_done \/ IsDone(p, 1, t)
      /\ Going(p)' =>
           \A j \in DOMAIN Stream(p) : j <= k /\ Stream(p)[j].cmd = "data" =>
             Stream(p)[j].item \in sess'[p].received
      /\ \A i \in DOMAIN sent :
           /\ Ware(q, sent[i])'
           /\ p = "server" /\ sent[i].cmd = "done" => Seen(sent[i].type) /\ Going(p)
      /\ \A t \in {"key", "cert"} :
           Seen(t)' /\ Going("server")' => Seen(t) \/ (Asked(t)' /\ Given(t)')

(* What no handler of an authenticated side changes: s is the session that *)
(* is left.                                                                *)
Conserved(p, s) ==
  LET o == sess[p]
  IN  /\ s.role = o.role /\ s.tree = o.tree /\ s.authenticated = o.authenticated
      /\ s.live = o.live /\ s.crashed = o.crashed /\ (o.error => s.error)
      /\ o.role = "source" => s.held = {}

(* What the handlers do to the books: out is what they queue.              *)
Handled(p, s, out) ==
  LET o == sess[p]
      q == Other(p)
      m == Stream(p)[1]
  IN  /\ Conserved(p, s)
      /\ o.received \subseteq s.received /\ o.requested \subseteq s.requested \cup s.received
      /\ m.cmd = "data" => m.item \in s.received
      /\ \A t \in s.tree_is_done : t \in o.tree_is_done \/ IsDone(p, 1, t)
      /\ ~s.error /\ ~s.crashed =>
           /\ s.sent_goodbye = o.sent_goodbye /\ (Satisfied(o) => Satisfied(s))
           /\ Booked(s, db[p].items, sess[q].tree)
      /\ \A i \in DOMAIN out :
           /\ out[i].cmd = "data" =>
                /\ out[i].item \in Certs => out[i].item \in o.tree["cert"]
                /\ out[i].item \in Revisions \cup Contents => RequestFor(p, 1, out[i].item)
           /\ out[i].cmd = "send_data" =>
                /\ out[i].item \in Certs => out[i].item \in sess[q].tree["cert"]
                /\ out[i].item \in Revisions \cup Contents => out[i].item \in s.requested \cup s.received
           /\ out[i].cmd = "done" /\ p = "server" => Seen(out[i].type)
      /\ \A t \in {"key", "cert"} : IsRefine(p, 1, t) /\ Going(p)' => Asked(t)' /\ Given(t)'

(* A step of p by such a handler.                                          *)
Served(p) ==
  \E s \in Sessions, epoch \in Epochs \cup {NoEpoch}, out \in Seq(Messages) :
    /\ Reply(p, s, epoch, out) /\ Conserved(p, s)
    /\ Account => Handled(p, s, out)
=============================================================================
