---------------------------- MODULE PacketWriter ----------------------------
(***************************************************************************)
(* packet_db_writer and packet_db_valve (packet.cc): the object through    *)
(* which every file, manifest, revision, cert and key received by netsync  *)
(* or by "monotone read" reaches the database.  A packet whose             *)
(* prerequisites are missing is delayed; the write of the last missing     *)
(* prerequisite writes it back to the writer, which may in turn satisfy    *)
(* other packets, recursively.  That recursion is modelled frame by frame  *)
(* (the variables stack and left): while the stack is not empty the only   *)
(* steps are those of the recursion, so no other packet comes between.     *)
(***************************************************************************)
EXTENDS Naturals, Sequences, FiniteSets

CONSTANTS
  Files, Manifests, Revisions, Certs, Keys,  \* the idents of each kind
  RevisionText,   \* what read_revision_set finds in a revision's text
  CertOn,         \* the revision a cert is about (cert::ident)
  Packets,        \* the packets that may arrive
  Slots,          \* addresses of delayed_packet objects
  NoPacket,       \* no delayed_packet lives at the address
  MaxQueue,       \* bound: packets queued behind the closed valve
  TakeKeys,       \* packet_db_writer::impl::take_keys
  MaxForeign,     \* bound: items that other sessions write
  InitDb          \* what the database holds at the start

Items == Files \cup Manifests \cup Revisions \cup Certs \cup Keys

(* prereq_type: what a packet may wait for.                                *)
PrereqItems == Files \cup Manifests \cup Revisions

Null == "null"   \* the empty ident: no old revision, manifest or file

(* Every ident a revision names: its new manifest and, for each edge, the  *)
(* old manifest, the old revision and both sides of every file delta.      *)
Named(r) ==
  LET text == RevisionText[r]
      edges == text.edges
  IN  {text.new_manifest}
       \cup {e.old_manifest : e \in edges}
       \cup {e.old_revision : e \in edges}
       \cup UNION {{d[1] : d \in e.deltas} : e \in edges}
       \cup UNION {{d[2] : d \in e.deltas} : e \in edges}

(* Those of them that are there to wait for: the null ones are passed over. *)
RevisionNeeds(r) == Named(r) \ {Null}

(* What must be in the database before item x may be written.              *)
Needs(x) ==
  IF x \in Revisions THEN RevisionNeeds(x)
  ELSE IF x \in Certs THEN {CertOn[x]}
  ELSE {}

(* What a packet waits for.                                                *)
PacketNeeds(p) == IF p.kind = "delta" THEN {p.base} ELSE Needs(p.ident)

Closed(S) == \A x \in S : Needs(x) \subseteq S

ASSUME KindsDisjoint ==
  /\ Files \cap (Manifests \cup Revisions \cup Certs \cup Keys) = {}
  /\ Manifests \cap (Revisions \cup Certs \cup Keys) = {}
  /\ Revisions \cap (Certs \cup Keys) = {}
  /\ Certs \cap Keys = {}

ASSUME ItemsFinite == IsFiniteSet(Items)

ASSUME NeedsTyped ==
  /\ \A r \in Revisions : Named(r) \subseteq PrereqItems \cup {Null}
  /\ CertOn \in [Certs -> Revisions]

(* good = FALSE: the delta yields a text whose ident is not the packet's.  *)
PacketSet ==
       [kind : {"data"}, ident : Files \cup Manifests]
  \cup [kind : {"delta"}, base : Files, ident : Files, good : BOOLEAN]
  \cup [kind : {"delta"}, base : Manifests, ident : Manifests, good : BOOLEAN]
  \cup [kind : {"revision"}, ident : Revisions]
  \cup [kind : {"cert"}, ident : Certs]
  \cup [kind : {"public_key", "key_pair"}, ident : Keys]

ASSUME PacketsTyped == Packets \subseteq PacketSet /\ NoPacket \notin Packets
ASSUME InitDbClosed == InitDb \subseteq Items /\ Closed(InitDb)
ASSUME BoundsTyped ==
  MaxQueue \in Nat /\ TakeKeys \in BOOLEAN /\ MaxForeign \in Nat

VARIABLES
  db,             \* the items that exist: the tables and the key store
  pkt,            \* the packet of the delayed_packet at each address
  unsat,          \* delayed_packet::unsatisfied_prereqs
  prereqs,        \* impl's three maps: the dependents registered per ident
  left,           \* prerequisite::satisfy: dependents its loop has yet to visit
  stack,          \* the satisfy calls in progress, innermost last
  valve_is_open,  \* packet_db_valve::impl
  packets,        \* packet_db_valve::impl: queued while the valve is closed
  seen,           \* history: the packets handed to the valve so far
  foreign         \* history: the items other sessions wrote

vars == <<db, pkt, unsat, prereqs, left, stack, valve_is_open, packets,
          seen, foreign>>

Init ==
  /\ db = InitDb
  /\ pkt = [s \in Slots |-> NoPacket]
  /\ unsat = [s \in Slots |-> {}]
  /\ prereqs = [x \in Items |-> {}]
  /\ left = [x \in Items |-> {}]
  /\ stack = <<>>
  /\ valve_is_open = FALSE
  /\ packets = <<>>
  /\ seen = {}
  /\ foreign = {}

-----------------------------------------------------------------------------
(* The consume_* methods.  pk, un, lf and stk are the values the delayed   *)
(* packets and the satisfy frames have when the method is entered.         *)

Skip(pk, un, lf, stk) ==
  /\ pkt' = pk
  /\ unsat' = un
  /\ left' = lf
  /\ stack' = stk
  /\ UNCHANGED <<db, prereqs>>

(* Variant: nobody is told of what was written.                            *)
WriteAndAccept_Silent(x, pk, un, lf, stk) ==
  /\ db' = db \cup {x}
  /\ pkt' = pk
  /\ unsat' = un
  /\ left' = lf
  /\ stack' = stk
  /\ UNCHANGED prereqs

(* Variant: the prerequisite stays in the map.                             *)
WriteAndAccept_NotErased(x, pk, un, lf, stk) ==
  /\ db' = db \cup {x}
  /\ pkt' = pk
  /\ unsat' = un
  /\ IF prereqs[x] = {}
     THEN left' = lf /\ stack' = stk
     ELSE left' = [lf EXCEPT ![x] = prereqs[x]] /\ stack' = Append(stk, x)
  /\ UNCHANGED prereqs

(* put_* followed by accepted_*: the prerequisite, if there is one, leaves *)
(* the map before its satisfy loop starts.                                 *)
WriteAndAccept(x, pk, un, lf, stk) ==
  /\ db' = db \cup {x}
  /\ pkt' = pk
  /\ unsat' = un
  /\ prereqs' = [prereqs EXCEPT ![x] = {}]
  /\ IF prereqs[x] = {}
     THEN left' = lf /\ stack' = stk
     ELSE left' = [lf EXCEPT ![x] = prereqs[x]] /\ stack' = Append(stk, x)

(* put_revision_cert and put_key accept nothing: nothing waits for those.  *)
WriteOnly(x, pk, un, lf, stk) ==
  /\ db' = db \cup {x}
  /\ pkt' = pk
  /\ unsat' = un
  /\ left' = lf
  /\ stack' = stk
  /\ UNCHANGED prereqs

(* A new delayed_packet, made a dependent of one prerequisite per missing  *)
(* ident.                                                                  *)
Delay(p, missing, pk, un, lf, stk) ==
  \E s \in Slots :
    /\ pkt[s] = NoPacket
    /\ pkt' = [pk EXCEPT ![s] = p]
    /\ unsat' = [un EXCEPT ![s] = missing]
    /\ prereqs' = [x \in Items |-> IF x \in missing THEN prereqs[x] \cup {s}
                                                    ELSE prereqs[x]]
    /\ left' = lf
    /\ stack' = stk
    /\ UNCHANGED db

ConsumeFileData(p, pk, un, lf, stk) ==
  /\ p.kind = "data" /\ p.ident \in Files
  /\ \/ p.ident \in db /\ Skip(pk, un, lf, stk)
     \/ p.ident \notin db /\ WriteAndAccept(p.ident, pk, un, lf, stk)

ConsumeManifestData(p, pk, un, lf, stk) ==
  /\ p.kind = "data" /\ p.ident \in Manifests
  /\ \/ p.ident \in db /\ Skip(pk, un, lf, stk)
     \/ p.ident \notin db /\ WriteAndAccept(p.ident, pk, un, lf, stk)

(* Variant: a delta whose base is missing is given up at once.             *)
ConsumeDelta_DropEarly(p, pk, un, lf, stk) ==
  \/ (p.ident \in db \/ p.base \notin db) /\ Skip(pk, un, lf, stk)
  \/ /\ p.ident \notin db /\ p.base \in db
     /\ \/ p.good /\ WriteAndAccept(p.ident, pk, un, lf, stk)
        \/ ~p.good /\ Skip(pk, un, lf, stk)

(* Forward, full and reverse deltas differ only in how the new version is  *)
(* stored, which is not part of this module.                               *)
ConsumeDelta(p, pk, un, lf, stk) ==
  \/ p.ident \in db /\ Skip(pk, un, lf, stk)
  \/ /\ p.ident \notin db /\ p.base \in db
     /\ \/ p.good /\ WriteAndAccept(p.ident, pk, un, lf, stk)
        \/ ~p.good /\ Skip(pk, un, lf, stk)
  \/ /\ p.ident \notin db /\ p.base \notin db
     /\ Delay(p, {p.base}, pk, un, lf, stk)

ConsumeFileDelta(p, pk, un, lf, stk) ==
  p.kind = "delta" /\ p.ident \in Files /\ ConsumeDelta(p, pk, un, lf, stk)

ConsumeManifestDelta(p, pk, un, lf, stk) ==
  p.kind = "delta" /\ p.ident \in Manifests /\ ConsumeDelta(p, pk, un, lf, stk)

(* Variant: the old revisions of the edges are not waited for.             *)
ConsumeRevisionData_NoParents(p, pk, un, lf, stk) ==
  LET missing == RevisionNeeds(p.ident) \ (db \cup Revisions)
  IN  /\ p.kind = "revision"
      /\ \/ p.ident \in db /\ Skip(pk, un, lf, stk)
         \/ /\ p.ident \notin db /\ missing # {}
            /\ Delay(p, missing, pk, un, lf, stk)
         \/ /\ p.ident \notin db /\ missing = {}
            /\ WriteAndAccept(p.ident, pk, un, lf, stk)

ConsumeRevisionData(p, pk, un, lf, stk) ==
  LET missing == RevisionNeeds(p.ident) \ db
  IN  /\ p.kind = "revision"
      /\ \/ p.ident \in db /\ Skip(pk, un, lf, stk)
         \/ /\ p.ident \notin db /\ missing # {}
            /\ Delay(p, missing, pk, un, lf, stk)
         \/ /\ p.ident \notin db /\ missing = {}
            /\ WriteAndAccept(p.ident, pk, un, lf, stk)

(* Variant: a cert is written whether or not its revision exists.          *)
ConsumeRevisionCert_Unchecked(p, pk, un, lf, stk) ==
  /\ p.kind = "cert"
  /\ \/ p.ident \in db /\ Skip(pk, un, lf, stk)
     \/ p.ident \notin db /\ WriteOnly(p.ident, pk, un, lf, stk)

ConsumeRevisionCert(p, pk, un, lf, stk) ==
  /\ p.kind = "cert"
  /\ \/ p.ident \in db /\ Skip(pk, un, lf, stk)
     \/ /\ p.ident \notin db /\ CertOn[p.ident] \in db
        /\ WriteOnly(p.ident, pk, un, lf, stk)
     \/ /\ p.ident \notin db /\ CertOn[p.ident] \notin db
        /\ Delay(p, {CertOn[p.ident]}, pk, un, lf, stk)

ConsumeKey(p, pk, un, lf, stk) ==
  /\ p.kind \in {"public_key", "key_pair"}
  /\ \/ (~TakeKeys \/ p.ident \in db) /\ Skip(pk, un, lf, stk)
     \/ TakeKeys /\ p.ident \notin db /\ WriteOnly(p.ident, pk, un, lf, stk)

(* apply_delayed_packet, and a packet handed to the writer directly.       *)
Consume(p, pk, un, lf, stk) ==
  \/ ConsumeFileData(p, pk, un, lf, stk)
  \/ ConsumeManifestData(p, pk, un, lf, stk)
  \/ ConsumeFileDelta(p, pk, un, lf, stk)
  \/ ConsumeManifestDelta(p, pk, un, lf, stk)
  \/ ConsumeRevisionData(p, pk, un, lf, stk)
  \/ ConsumeRevisionCert(p, pk, un, lf, stk)
  \/ ConsumeKey(p, pk, un, lf, stk)

-----------------------------------------------------------------------------
(* The steps.                                                              *)

Top == stack[Len(stack)]
Idle == stack = <<>> /\ (valve_is_open => packets = <<>>)

(* packet_db_valve::impl::do_packet with the valve open.                   *)
ReceiveOpen(p) ==
  /\ Idle /\ valve_is_open
  /\ Consume(p, pkt, unsat, left, stack)
  /\ seen' = seen \cup {p}
  /\ UNCHANGED <<valve_is_open, packets, foreign>>

(* Variant: public keys pass a closed valve.                               *)
ReceiveClosed_KeysPass(p) ==
  /\ ~valve_is_open
  /\ IF p.kind = "public_key"
     THEN Consume(p, pkt, unsat, left, stack) /\ UNCHANGED packets
     ELSE /\ Len(packets) < MaxQueue
          /\ packets' = Append(packets, p)
          /\ UNCHANGED <<db, pkt, unsat, prereqs, left, stack>>
  /\ seen' = seen \cup {p}
  /\ UNCHANGED <<valve_is_open, foreign>>

(* packet_db_valve::impl::do_packet with the valve closed.                 *)
ReceiveClosed(p) ==
  /\ ~valve_is_open
  /\ Len(packets) < MaxQueue
  /\ packets' = Append(packets, p)
  /\ seen' = seen \cup {p}
  /\ UNCHANGED <<db, pkt, unsat, prereqs, left, stack, valve_is_open,
                 foreign>>

OpenValve ==
  /\ ~valve_is_open
  /\ valve_is_open' = TRUE
  /\ UNCHANGED <<db, pkt, unsat, prereqs, left, stack, packets, seen,
                 foreign>>

(* The loop of open_valve, from the last packet queued to the first.       *)
ReplayLast ==
  /\ valve_is_open /\ packets # <<>> /\ stack = <<>>
  /\ Consume(packets[Len(packets)], pkt, unsat, left, stack)
  /\ packets' = SubSeq(packets, 1, Len(packets) - 1)
  /\ UNCHANGED <<valve_is_open, seen, foreign>>

(* One turn of the loop in prerequisite::satisfy, in the order of the      *)
(* addresses of the dependents: prerequisite_satisfied on s, which applies *)
(* the packet when it was the last prerequisite.                           *)
SatisfyOne(s) ==
  LET x  == Top
      lf == [left EXCEPT ![x] = @ \ {s}]
      un == [unsat EXCEPT ![s] = @ \ {x}]
  IN  /\ stack # <<>> /\ s \in left[x]
      /\ \/ /\ unsat[s] # {x}
            /\ Skip(pkt, un, lf, stack)
         \/ /\ unsat[s] = {x}
            /\ Consume(pkt[s], [pkt EXCEPT ![s] = NoPacket], un, lf, stack)
      /\ UNCHANGED <<valve_is_open, packets, seen, foreign>>

(* The loop in prerequisite::satisfy ends and the call returns.            *)
SatisfyReturn ==
  /\ stack # <<>> /\ left[Top] = {}
  /\ stack' = SubSeq(stack, 1, Len(stack) - 1)
  /\ UNCHANGED <<db, pkt, unsat, prereqs, left, valve_is_open, packets, seen,
                 foreign>>

(* The packet_db_writer of another session of the same server writes an    *)
(* item; it keeps to the same dependencies but has prerequisite maps of    *)
(* its own.  A session's handler runs to its end first: stack is empty.    *)
OtherSessionWrites(x) ==
  /\ Idle
  /\ Cardinality(foreign) < MaxForeign
  /\ x \notin db /\ Needs(x) \subseteq db
  /\ db' = db \cup {x}
  /\ foreign' = foreign \cup {x}
  /\ UNCHANGED <<pkt, unsat, prereqs, left, stack, valve_is_open, packets, seen>>

Internal ==
  \/ ReplayLast
  \/ \E s \in Slots : SatisfyOne(s)
  \/ SatisfyReturn

Next ==
  \/ \E p \in Packets : ReceiveOpen(p) \/ ReceiveClosed(p)
  \/ OpenValve
  \/ Internal
  \/ \E x \in Items : OtherSessionWrites(x)

(* The loops of satisfy and open_valve run in the calling thread and are   *)
(* never interrupted.                                                      *)
Spec == Init /\ [][Next]_vars /\ WF_vars(Internal)

-----------------------------------------------------------------------------
(* Properties.                                                             *)

(* The types of the variables.                                             *)
TypeOK ==
  /\ db \subseteq Items
  /\ pkt \in [Slots -> Packets \cup {NoPacket}]
  /\ unsat \in [Slots -> SUBSET Items]
  /\ prereqs \in [Items -> SUBSET Slots]
  /\ left \in [Items -> SUBSET Slots]
  /\ stack \in Seq(Items)
  /\ valve_is_open \in BOOLEAN
  /\ packets \in Seq(Packets)
  /\ seen \subseteq Packets
  /\ foreign \subseteq Items

(* Writes follow the semantic dependencies of the objects written: no      *)
(* revision is in the database without the manifests, files and revisions  *)
(* it names, no cert without its revision, whatever arrives in whatever    *)
(* order and through however many nested satisfy calls.                    *)
DependenciesClosed == Closed(db)

(* The two-way bookkeeping between a delayed packet and its prerequisites: *)
(* a packet waits for an ident exactly when it is among the dependents     *)
(* that ident will tell of its acceptance, now or in a satisfy loop under  *)
(* way; so the I() in delayed_packet::prerequisite_satisfied holds.        *)
Bookkeeping ==
  /\ \A s \in Slots, x \in Items : x \in unsat[s] <=> s \in prereqs[x] \cup left[x]
  /\ \A s \in Slots : unsat[s] # {} <=> pkt[s] # NoPacket

(* No lost wake-up: between calls, a delayed packet that waits for an item *)
(* which is in the database waits for one that another session wrote.      *)
NoLostWakeup ==
  Idle => \A s \in Slots : unsat[s] \cap db \subseteq foreign

(* What can be written once all of D has been received: the least set that *)
(* holds InitDb and is closed under the packets of D.                      *)
Enabled(p, S) ==
  \/ p.kind = "data"
  \/ p.kind = "delta" /\ p.good /\ PacketNeeds(p) \subseteq S
  \/ p.kind \in {"revision", "cert"} /\ PacketNeeds(p) \subseteq S
  \/ p.kind \in {"public_key", "key_pair"} /\ TakeKeys

Derivable(D) ==
  LET grow[n \in 0..Cardinality(Items)] ==
        IF n = 0 THEN InitDb
        ELSE LET S == grow[n-1]
             IN  S \cup {p.ident : p \in {q \in D : Enabled(q, S)}}
  IN  grow[Cardinality(Items)]

(* The order of arrival, duplicates and the reversed replay of the valve   *)
(* do not matter: between calls the database of a session alone on it      *)
(* holds exactly what the packets received so far allow.                   *)
OrderIndependent ==
  Idle /\ valve_is_open /\ foreign = {} => db = Derivable(seen)

(* The post-state of a netsync (netsync.cc:92): the sink contains a        *)
(* superset of what its source sent it, whoever else writes to the same    *)
(* database meanwhile.                                                     *)
SinkSuperset == Idle /\ valve_is_open => Derivable(seen) \subseteq db

(* This session writes nothing before the valve opens.                     *)
ValveHolds == [][db' # db => valve_is_open \/ foreign' # foreign]_vars

(* The store it implements.                                                *)
Store == INSTANCE ItemStore WITH items <- db
StoreSpec == Store!Spec
=============================================================================
