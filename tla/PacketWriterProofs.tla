------------------------- MODULE PacketWriterProofs -------------------------
(***************************************************************************)
(* What is proved of the packet writer for every set of idents, packets,   *)
(* slots and sessions: the types, the dependencies of the database, the    *)
(* bookkeeping of delayed packets and the absence of lost wake-ups, and    *)
(* that the writer implements ItemStore.                                   *)
(***************************************************************************)
EXTENDS PacketWriter, DataLemmas

(* The relation between the database d, the items f written by others, the *)
(* maps q of prerequisites, the delayed packets pk with their unsatisfied  *)
(* prerequisites un, the satisfy loops lf and their stack st.  It holds    *)
(* between the statements of a handler as well as between handlers, hence  *)
(* the parameters.                                                         *)
Types(d, f, q, pk, un, lf, st) ==
  /\ d \subseteq Items
  /\ f \subseteq d
  /\ q \in [Items -> SUBSET Slots]
  /\ pk \in [Slots -> Packets \cup {NoPacket}]
  /\ un \in [Slots -> SUBSET Items]
  /\ lf \in [Items -> SUBSET Slots]
  /\ st \in Seq(Items)

Books(q, pk, un, lf) ==
  /\ \A s \in Slots, x \in Items : x \in un[s] <=> s \in q[x] \cup lf[x]
  /\ \A s \in Slots : un[s] # {} <=> pk[s] # NoPacket
  /\ \A x \in Items : q[x] \cap lf[x] = {}

(* A satisfy loop belongs to a call on the stack, for an item just written.*)
Frames(d, lf, st) ==
  \A x \in Items : lf[x] # {} => x \in d /\ \E i \in 1..Len(st) : st[i] = x

(* A prerequisite still in the maps is missing, or another session wrote   *)
(* it; certs and keys never are prerequisites.                             *)
Waiting(d, f, q) ==
  \A x \in Items : q[x] # {} => x \in PrereqItems /\ (x \in d => x \in f)

Inv(d, f, q, pk, un, lf, st) ==
  /\ Types(d, f, q, pk, un, lf, st)
  /\ Closed(d)
  /\ Books(q, pk, un, lf)
  /\ Frames(d, lf, st)
  /\ Waiting(d, f, q)

(* The inductive invariant.                                                *)
IInv == Inv(db, foreign, prereqs, pkt, unsat, left, stack)

-----------------------------------------------------------------------------
LEMMA RevisionNeedsTypes ==
  ASSUME NEW r \in Revisions PROVE RevisionNeeds(r) \subseteq PrereqItems
  BY NeedsTyped DEF RevisionNeeds

LEMMA NeedsTypes ==
  ASSUME NEW x \in Items PROVE Needs(x) \subseteq PrereqItems
  BY NeedsTyped, RevisionNeedsTypes DEF Needs, Items, PrereqItems

LEMMA SkipStep ==
  ASSUME NEW pk, NEW un, NEW lf, NEW stk,
         Inv(db, foreign, prereqs, pk, un, lf, stk),
         Skip(pk, un, lf, stk), foreign' = foreign
  PROVE  IInv'
  BY DEF IInv, Inv, Types, Closed, Books, Frames, Waiting, Skip

LEMMA WriteOnlyStep ==
  ASSUME NEW x \in Certs \cup Keys, NEW pk, NEW un, NEW lf, NEW stk,
         Inv(db, foreign, prereqs, pk, un, lf, stk),
         x \notin db, Needs(x) \subseteq db,
         WriteOnly(x, pk, un, lf, stk), foreign' = foreign
  PROVE  IInv'
  BY KindsDisjoint DEF IInv, Inv, Types, Closed, Books, Frames, Waiting, WriteOnly, Items,
         PrereqItems

(* Writing an item turns its prerequisite, if any, into a satisfy loop on  *)
(* top of the stack.                                                       *)
LEMMA WriteAndAcceptStep ==
  ASSUME NEW x \in Items, NEW pk, NEW un, NEW lf, NEW stk,
         Inv(db, foreign, prereqs, pk, un, lf, stk),
         x \notin db, Needs(x) \subseteq db,
         WriteAndAccept(x, pk, un, lf, stk), foreign' = foreign
  PROVE  IInv'
<1>1. lf[x] = {}
  BY DEF Inv, Frames
<1>2. db' = db \cup {x} /\ pkt' = pk /\ unsat' = un
      /\ prereqs' = [prereqs EXCEPT ![x] = {}]
  BY DEF WriteAndAccept
<1>3. CASE prereqs[x] = {}
  <2>1. left' = lf /\ stack' = stk
    BY <1>3 DEF WriteAndAccept
  <2>2. QED
    BY <1>1, <1>2, <1>3, <2>1
    DEF IInv, Inv, Types, Closed, Books, Frames, Waiting
<1>4. CASE prereqs[x] # {}
  <2>1. left' = [lf EXCEPT ![x] = prereqs[x]] /\ stack' = Append(stk, x)
    BY <1>4 DEF WriteAndAccept
  <2>2. stack' \in Seq(Items) /\ Len(stack') = Len(stk) + 1 /\ stack'[Len(stack')] = x
        /\ \A i \in 1..Len(stk) : stack'[i] = stk[i]
    BY <2>1 DEF Inv, Types
  <2>3. Types(db', foreign', prereqs', pkt', unsat', left', stack') /\ Closed(db')
    BY <1>2, <2>1, <2>2 DEF Inv, Types, Closed
  <2>4. Books(prereqs', pkt', unsat', left')
    BY <1>1, <1>2, <2>1 DEF Inv, Types, Books
  <2>5. Frames(db', left', stack')
    <3> SUFFICES ASSUME NEW y \in Items, left'[y] # {}
                 PROVE  y \in db' /\ \E i \in 1..Len(stack') : stack'[i] = y
      BY DEF Frames
    <3>1. CASE y = x
      BY <1>2, <2>2, <3>1, SMTT(30) DEF Inv, Types
    <3>2. CASE y # x
      <4>1. lf[y] # {}
        BY <2>1, <3>2 DEF Inv, Types
      <4>2. PICK i \in 1..Len(stk) : stk[i] = y
        BY <4>1 DEF Inv, Frames
      <4>3. i \in 1..Len(stack') /\ y \in db
        BY <2>2, <4>1 DEF Inv, Frames, Types
      <4>4. QED
        BY <1>2, <2>2, <4>2, <4>3
    <3>3. QED
      BY <3>1, <3>2
  <2>6. Waiting(db', foreign', prereqs')
    BY <1>2 DEF Inv, Types, Waiting
  <2>7. QED
    BY <2>3, <2>4, <2>5, <2>6 DEF IInv, Inv
<1>5. QED
  BY <1>3, <1>4

(* A new delayed packet registers with missing items only.                 *)
LEMMA DelayStep ==
  ASSUME NEW p \in Packets, NEW missing \in SUBSET PrereqItems, missing # {},
         missing \cap db = {},
         NEW pk, NEW un, NEW lf, NEW stk,
         Inv(db, foreign, prereqs, pk, un, lf, stk),
         \A s \in Slots : pkt[s] = NoPacket => pk[s] = NoPacket,
         Delay(p, missing, pk, un, lf, stk), foreign' = foreign
  PROVE  IInv'
<1>1. PICK s \in Slots :
        /\ pkt[s] = NoPacket
        /\ pkt' = [pk EXCEPT ![s] = p]
        /\ unsat' = [un EXCEPT ![s] = missing]
        /\ prereqs' = [x \in Items |-> IF x \in missing THEN prereqs[x] \cup {s}
                                                        ELSE prereqs[x]]
        /\ left' = lf /\ stack' = stk /\ db' = db
  BY DEF Delay
<1>2. un[s] = {}
  BY <1>1 DEF Inv, Books
<1>3. \A x \in Items : s \notin prereqs[x] /\ s \notin lf[x]
  BY <1>2 DEF Inv, Books
<1>4. \A x \in missing : lf[x] = {} /\ x \in Items
  BY DEF Inv, Frames, Items, PrereqItems
<1>5. p # NoPacket
  BY PacketsTyped
<1>6. Types(db', foreign', prereqs', pkt', unsat', left', stack') /\ Closed(db')
  BY <1>1 DEF Inv, Types, Closed, Items, PrereqItems
<1>7. Books(prereqs', pkt', unsat', left')
  <2>1. ASSUME NEW t \in Slots, NEW x \in Items
        PROVE  x \in unsat'[t] <=> t \in prereqs'[x] \cup left'[x]
    BY <1>1, <1>3, <1>4 DEF Inv, Types, Books
  <2>2. ASSUME NEW t \in Slots
        PROVE  unsat'[t] # {} <=> pkt'[t] # NoPacket
    BY <1>1, <1>5 DEF Inv, Types, Books
  <2>3. ASSUME NEW x \in Items
        PROVE  prereqs'[x] \cap left'[x] = {}
    BY <1>1, <1>4 DEF Inv, Types, Books
  <2>4. QED
    BY <2>1, <2>2, <2>3 DEF Books
<1>8. Frames(db', left', stack')
  BY <1>1 DEF Inv, Frames
<1>9. Waiting(db', foreign', prereqs')
  BY <1>1 DEF Inv, Waiting
<1>10. QED
  BY <1>6, <1>7, <1>8, <1>9 DEF IInv, Inv

(* Every consume_* method, entered from wherever, re-establishes the       *)
(* invariant.                                                              *)
LEMMA ConsumeStep ==
  ASSUME NEW p \in Packets, NEW pk, NEW un, NEW lf, NEW stk,
         Inv(db, foreign, prereqs, pk, un, lf, stk),
         \A s \in Slots : pkt[s] = NoPacket => pk[s] = NoPacket,
         Consume(p, pk, un, lf, stk), foreign' = foreign
  PROVE  IInv'
<1>1. p \in PacketSet
  BY PacketsTyped
<1>2. CASE ConsumeFileData(p, pk, un, lf, stk)
  <2>1. p.ident \in Items /\ Needs(p.ident) = {}
    BY <1>2, KindsDisjoint DEF ConsumeFileData, Items, Needs
  <2>2. QED
    BY <1>2, <2>1, SkipStep, WriteAndAcceptStep DEF ConsumeFileData
<1>3. CASE ConsumeManifestData(p, pk, un, lf, stk)
  <2>1. p.ident \in Items /\ Needs(p.ident) = {}
    BY <1>3, KindsDisjoint DEF ConsumeManifestData, Items, Needs
  <2>2. QED
    BY <1>3, <2>1, SkipStep, WriteAndAcceptStep DEF ConsumeManifestData
<1>4. CASE \/ ConsumeFileDelta(p, pk, un, lf, stk)
           \/ ConsumeManifestDelta(p, pk, un, lf, stk)
  <2>1. p.kind = "delta" /\ p.ident \in Files \cup Manifests
        /\ ConsumeDelta(p, pk, un, lf, stk)
    BY <1>4 DEF ConsumeFileDelta, ConsumeManifestDelta
  <2>2. p.base \in PrereqItems
    BY <1>1, <2>1 DEF PacketSet, PrereqItems
  <2>3. p.ident \in Items /\ Needs(p.ident) = {}
    BY <2>1, KindsDisjoint DEF Items, Needs
  <2>4. CASE p.ident \in db /\ Skip(pk, un, lf, stk)
    BY <2>4, SkipStep
  <2>5. CASE p.ident \notin db /\ p.base \in db
             /\ p.good /\ WriteAndAccept(p.ident, pk, un, lf, stk)
    BY <2>3, <2>5, WriteAndAcceptStep
  <2>6. CASE ~p.good /\ Skip(pk, un, lf, stk)
    BY <2>6, SkipStep
  <2>7. CASE p.base \notin db /\ Delay(p, {p.base}, pk, un, lf, stk)
    <3> DEFINE missing == {p.base}
    <3>1. missing \in SUBSET PrereqItems /\ missing # {} /\ missing \cap db = {}
      BY <2>2, <2>7
    <3>2. Delay(p, missing, pk, un, lf, stk)
      BY <2>7
    <3> HIDE DEF missing
    <3>3. QED
      BY <3>1, <3>2, DelayStep
  <2>8. QED
    BY <2>1, <2>4, <2>5, <2>6, <2>7 DEF ConsumeDelta
<1>5. CASE ConsumeRevisionData(p, pk, un, lf, stk)
  <2> DEFINE missing == RevisionNeeds(p.ident) \ db
  <2>1. p.kind = "revision" /\ p.ident \in Revisions
    BY <1>1, <1>5 DEF PacketSet, ConsumeRevisionData
  <2>2. p.ident \in Items /\ Needs(p.ident) = RevisionNeeds(p.ident)
    BY <2>1 DEF Items, Needs
  <2>3. missing \in SUBSET PrereqItems /\ missing \cap db = {}
    BY <2>1, RevisionNeedsTypes
  <2>4. \/ Skip(pk, un, lf, stk)
        \/ missing # {} /\ Delay(p, missing, pk, un, lf, stk)
        \/ p.ident \notin db /\ missing = {} /\ WriteAndAccept(p.ident, pk, un, lf, stk)
    BY <1>5 DEF ConsumeRevisionData
  <2>5. CASE p.ident \notin db /\ missing = {} /\ WriteAndAccept(p.ident, pk, un, lf, stk)
    <3>1. Needs(p.ident) \subseteq db
      BY <2>2, <2>5
    <3>2. QED
      BY <2>2, <2>5, <3>1, WriteAndAcceptStep
  <2> HIDE DEF missing
  <2>6. QED
    BY <2>3, <2>4, <2>5, SkipStep, DelayStep
<1>6. CASE ConsumeRevisionCert(p, pk, un, lf, stk)
  <2> DEFINE missing == {CertOn[p.ident]}
  <2>1. p.kind = "cert" /\ p.ident \in Certs
    BY <1>1, <1>6 DEF PacketSet, ConsumeRevisionCert
  <2>2. p.ident \in Certs \cup Keys /\ Needs(p.ident) = missing
    BY <2>1, KindsDisjoint DEF Items, Needs
  <2>3. missing \in SUBSET PrereqItems /\ missing # {}
    BY <2>1, NeedsTyped DEF PrereqItems
  <2>4. \/ Skip(pk, un, lf, stk)
        \/ missing \cap db = {} /\ Delay(p, missing, pk, un, lf, stk)
        \/ p.ident \notin db /\ missing \subseteq db /\ WriteOnly(p.ident, pk, un, lf, stk)
    BY <1>6 DEF ConsumeRevisionCert
  <2> HIDE DEF missing
  <2>5. QED
    BY <2>2, <2>3, <2>4, SkipStep, DelayStep, WriteOnlyStep
<1>7. CASE ConsumeKey(p, pk, un, lf, stk)
  <2>1. p.ident \in Keys
    BY <1>1, <1>7 DEF PacketSet, ConsumeKey
  <2>2. p.ident \in Certs \cup Keys /\ Needs(p.ident) = {}
    BY <2>1, KindsDisjoint DEF Needs
  <2>3. QED
    BY <1>7, <2>2, SkipStep, WriteOnlyStep DEF ConsumeKey
<1>8. QED
  BY <1>2, <1>3, <1>4, <1>5, <1>6, <1>7 DEF Consume

-----------------------------------------------------------------------------
(* The invariant and the types together are inductive.                     *)
FullInv == TypeOK /\ IInv

LEMMA InitInv == Init => FullInv
<1> SUFFICES ASSUME Init PROVE FullInv
  OBVIOUS
<1>1. TypeOK
  <2>1. /\ db \subseteq Items /\ pkt \in [Slots -> Packets \cup {NoPacket}]
        /\ unsat \in [Slots -> SUBSET Items] /\ prereqs \in [Items -> SUBSET Slots]
        /\ left \in [Items -> SUBSET Slots]
    BY InitDbClosed DEF Init
  <2>2. valve_is_open \in BOOLEAN /\ seen \subseteq Packets /\ foreign \subseteq Items
    BY DEF Init
  <2>3. stack \in Seq(Items)
    BY DEF Init
  <2>4. packets \in Seq(Packets)
    BY DEF Init
  <2>5. QED
    BY <2>1, <2>2, <2>3, <2>4 DEF TypeOK
<1>2. IInv
  BY InitDbClosed DEF Init, IInv, Inv, Types, Books, Frames, Waiting
<1>3. QED
  BY <1>1, <1>2 DEF FullInv

(* One turn of a satisfy loop: the state in which the packet's own method  *)
(* is entered satisfies the invariant already.                             *)
LEMMA SatisfyOneStep ==
  ASSUME NEW s \in Slots, FullInv, SatisfyOne(s)
  PROVE  IInv'
<1> DEFINE x == Top
           lf == [left EXCEPT ![x] = @ \ {s}]
           un == [unsat EXCEPT ![s] = @ \ {x}]
           pk == [pkt EXCEPT ![s] = NoPacket]
<1>1. stack # <<>> /\ s \in left[x]
  BY DEF SatisfyOne
<1>2. x \in Items
  BY <1>1 DEF FullInv, TypeOK, Top
<1>3. x \in unsat[s] /\ s \notin prereqs[x]
  BY <1>1, <1>2 DEF FullInv, IInv, Inv, Books
<1>4. foreign' = foreign
  BY DEF SatisfyOne
<1>5. Frames(db, lf, stack)
  BY <1>2 DEF FullInv, TypeOK, IInv, Inv, Frames
<1>6. /\ \A t \in Slots, y \in Items : y \in un[t] <=> t \in prereqs[y] \cup lf[y]
      /\ \A y \in Items : prereqs[y] \cap lf[y] = {}
  BY <1>2, <1>3 DEF FullInv, TypeOK, IInv, Inv, Books
<1>7. CASE unsat[s] # {x} /\ Skip(pkt, un, lf, stack)
  <2>1. un[s] # {}
    BY <1>3, <1>7 DEF FullInv, TypeOK
  <2>2. \A t \in Slots : un[t] # {} <=> pkt[t] # NoPacket
    BY <1>3, <2>1 DEF FullInv, TypeOK, IInv, Inv, Books
  <2>3. Types(db, foreign, prereqs, pkt, un, lf, stack)
    BY <1>2 DEF FullInv, TypeOK, IInv, Inv, Types
  <2>4. Inv(db, foreign, prereqs, pkt, un, lf, stack)
    BY <1>5, <1>6, <2>2, <2>3 DEF FullInv, IInv, Inv, Books
  <2> HIDE DEF lf, un
  <2>5. QED
    BY <1>4, <1>7, <2>4, SkipStep
<1>8. CASE unsat[s] = {x} /\ Consume(pkt[s], pk, un, lf, stack)
  <2>1. pkt[s] \in Packets
    BY <1>8 DEF FullInv, TypeOK, IInv, Inv, Books
  <2>2. un[s] = {}
    BY <1>8 DEF FullInv, TypeOK
  <2>3. \A t \in Slots : un[t] # {} <=> pk[t] # NoPacket
    BY <2>2 DEF FullInv, TypeOK, IInv, Inv, Books
  <2>4. Types(db, foreign, prereqs, pk, un, lf, stack)
    BY <1>2 DEF FullInv, TypeOK, IInv, Inv, Types
  <2>5. Inv(db, foreign, prereqs, pk, un, lf, stack)
    BY <1>5, <1>6, <2>3, <2>4 DEF FullInv, IInv, Inv, Books
  <2>6. \A t \in Slots : pkt[t] = NoPacket => pk[t] = NoPacket
    BY DEF FullInv, TypeOK
  <2> HIDE DEF lf, un, pk
  <2>7. QED
    BY <1>4, <1>8, <2>1, <2>5, <2>6, ConsumeStep
<1>9. QED
  BY <1>7, <1>8 DEF SatisfyOne

LEMMA SatisfyReturnStep == FullInv /\ SatisfyReturn => IInv'
<1> SUFFICES ASSUME FullInv, SatisfyReturn PROVE IInv'
  OBVIOUS
<1> DEFINE n == Len(stack)
<1>1. n \in Nat \ {0} /\ stack[n] \in Items /\ left[stack[n]] = {}
  BY DEF SatisfyReturn, FullInv, TypeOK, Top
<1>2. stack' \in Seq(Items) /\ Len(stack') = n - 1
      /\ \A i \in 1..(n - 1) : stack'[i] = stack[i]
  <2>1. stack' = SubSeq(stack, 1, n - 1)
    BY DEF SatisfyReturn
  <2>2. stack \in Seq(Items)
    BY DEF FullInv, TypeOK
  <2>3. \A i \in 1..(n - 1) : stack[i] \in Items
    BY <2>2
  <2> HIDE DEF n
  <2>4. QED
    BY <1>1, <2>1, <2>3, SubSeqProperties
<1>3. ASSUME NEW y \in Items, left'[y] # {}
      PROVE  y \in db' /\ \E i \in 1..Len(stack') : stack'[i] = y
  <2>1. left[y] # {} /\ y \in db' /\ y # stack[n]
    BY <1>1, <1>3 DEF SatisfyReturn, FullInv, IInv, Inv, Frames
  <2>2. PICK i \in 1..n : stack[i] = y
    BY <2>1 DEF FullInv, IInv, Inv, Frames
  <2>3. i \in 1..(n - 1)
    BY <1>1, <2>1, <2>2
  <2>4. QED
    BY <1>2, <2>1, <2>2, <2>3
<1>4. Frames(db', left', stack')
  BY <1>3 DEF Frames
<1>5. QED
  BY <1>2, <1>4 DEF SatisfyReturn, FullInv, IInv, Inv, Types, Closed, Books, Waiting

LEMMA OtherSessionStep ==
  ASSUME NEW x \in Items, FullInv, OtherSessionWrites(x) PROVE IInv'
  BY DEF OtherSessionWrites, FullInv, IInv, Inv, Types, Closed, Books, Frames, Waiting

LEMMA StepInv == FullInv /\ [Next]_vars => FullInv'
<1> SUFFICES ASSUME FullInv, [Next]_vars PROVE FullInv'
  OBVIOUS
<1>1. IInv'
  <2>1. ASSUME NEW p \in Packets, ReceiveOpen(p) PROVE IInv'
    BY <2>1, ConsumeStep DEF ReceiveOpen, FullInv, IInv
  <2>2. ASSUME NEW p \in Packets, ReceiveClosed(p) PROVE IInv'
    BY <2>2 DEF ReceiveClosed, FullInv, IInv
  <2>3. CASE OpenValve
    BY <2>3 DEF OpenValve, FullInv, IInv
  <2>4. CASE ReplayLast
    <3>1. packets[Len(packets)] \in Packets
      BY <2>4 DEF ReplayLast, FullInv, TypeOK
    <3>2. QED
      BY <2>4, <3>1, ConsumeStep DEF ReplayLast, FullInv, IInv
  <2>5. CASE UNCHANGED vars
    BY <2>5 DEF vars, FullInv, IInv
  <2>6. QED
    BY <2>1, <2>2, <2>3, <2>4, <2>5, SatisfyOneStep, SatisfyReturnStep,
       OtherSessionStep DEF Next, Internal
<1>2. packets' \in Seq(Packets) /\ seen' \subseteq Packets
      /\ valve_is_open' \in BOOLEAN
  <2>1. packets \in Seq(Packets) /\ seen \subseteq Packets /\ valve_is_open \in BOOLEAN
    BY DEF FullInv, TypeOK
  <2>2. CASE ReplayLast
    <3>1. /\ packets # <<>> /\ packets' = SubSeq(packets, 1, Len(packets) - 1)
          /\ seen' = seen /\ valve_is_open' = valve_is_open
      BY <2>2 DEF ReplayLast
    <3>2. QED
      BY <2>1, <3>1
  <2>3. CASE \E p \in Packets : ReceiveOpen(p) \/ ReceiveClosed(p)
    BY <2>1, <2>3 DEF ReceiveOpen, ReceiveClosed
  <2>4. CASE \/ OpenValve \/ SatisfyReturn \/ UNCHANGED vars
             \/ \E s \in Slots : SatisfyOne(s)
             \/ \E x \in Items : OtherSessionWrites(x)
    BY <2>1, <2>4
    DEF OpenValve, SatisfyReturn, SatisfyOne, OtherSessionWrites, vars
  <2>5. QED
    BY <2>2, <2>3, <2>4 DEF Next, Internal
<1>3. QED
  BY <1>1, <1>2 DEF FullInv, IInv, Inv, Types, TypeOK

THEOREM Invariance == Spec => []FullInv
  BY InitInv, StepInv, PTL DEF Spec

(* The variables keep their types.                                         *)
THEOREM TypesKept == Spec => []TypeOK
<1>1. FullInv => TypeOK
  BY DEF FullInv
<1>2. QED
  BY <1>1, Invariance, PTL

(* The database is closed under the dependencies of its items in every     *)
(* reachable state, for every history, every set of packets in every       *)
(* order, every interleaving with other sessions.                          *)
THEOREM DependenciesAlwaysClosed == Spec => []DependenciesClosed
<1>1. FullInv => DependenciesClosed
  BY DEF FullInv, IInv, Inv, DependenciesClosed
<1>2. QED
  BY <1>1, Invariance, PTL

(* A delayed packet and its prerequisites always agree about each other,   *)
(* in the middle of any nest of satisfy calls too.                         *)
THEOREM BookkeepingAgrees == Spec => []Bookkeeping
<1>1. FullInv => Bookkeeping
  BY DEF FullInv, IInv, Inv, Books, Bookkeeping
<1>2. QED
  BY <1>1, Invariance, PTL

(* A delayed packet waits in vain only for what another session wrote.     *)
THEOREM NoWakeupLost == Spec => []NoLostWakeup
<1>1. FullInv => NoLostWakeup
  <2> SUFFICES ASSUME FullInv, stack = <<>>, NEW s \in Slots,
                      NEW x \in unsat[s] \cap db
               PROVE  x \in foreign
    BY DEF NoLostWakeup, Idle
  <2>1. x \in Items
    BY DEF FullInv, TypeOK
  <2>2. left[x] = {}
    BY <2>1 DEF FullInv, IInv, Inv, Frames
  <2>3. s \in prereqs[x]
    BY <2>1, <2>2 DEF FullInv, IInv, Inv, Books
  <2>4. QED
    BY <2>1, <2>3 DEF FullInv, IInv, Inv, Waiting
<1>2. QED
  BY <1>1, Invariance, PTL

-----------------------------------------------------------------------------
(* A method writes at most the item of its own packet, and only when all   *)
(* that item refers to is there.                                           *)
LEMMA ConsumeWritesOne ==
  ASSUME NEW p \in Packets, NEW pk, NEW un, NEW lf, NEW stk,
         Consume(p, pk, un, lf, stk)
  PROVE  \/ db' = db
         \/ \E x \in Items : Needs(x) \subseteq db /\ db' = db \cup {x}
<1> USE DEF Skip, WriteAndAccept, WriteOnly, Delay
<1>1. p \in PacketSet
  BY PacketsTyped
<1>2. CASE \/ ConsumeFileData(p, pk, un, lf, stk)
           \/ ConsumeManifestData(p, pk, un, lf, stk)
           \/ ConsumeFileDelta(p, pk, un, lf, stk)
           \/ ConsumeManifestDelta(p, pk, un, lf, stk)
  <2>1. p.ident \in Files \cup Manifests
    BY <1>2 DEF ConsumeFileData, ConsumeManifestData, ConsumeFileDelta,
                ConsumeManifestDelta
  <2>2. p.ident \in Items /\ Needs(p.ident) = {}
    BY <2>1, KindsDisjoint DEF Items, Needs
  <2>3. db' = db \/ db' = db \cup {p.ident}
    BY <1>2 DEF ConsumeFileData, ConsumeManifestData, ConsumeFileDelta,
                ConsumeManifestDelta, ConsumeDelta
  <2>4. QED
    BY <2>2, <2>3
<1>3. CASE ConsumeRevisionData(p, pk, un, lf, stk)
  <2>1. p.ident \in Items /\ Needs(p.ident) = RevisionNeeds(p.ident)
    BY <1>1, <1>3 DEF PacketSet, ConsumeRevisionData, Items, Needs
  <2>2. \/ db' = db
        \/ RevisionNeeds(p.ident) \ db = {} /\ db' = db \cup {p.ident}
    BY <1>3 DEF ConsumeRevisionData
  <2>3. QED
    BY <2>1, <2>2
<1>4. CASE ConsumeRevisionCert(p, pk, un, lf, stk)
  <2>1. p.ident \in Certs
    BY <1>1, <1>4 DEF PacketSet, ConsumeRevisionCert
  <2>2. p.ident \in Items /\ Needs(p.ident) = {CertOn[p.ident]}
    BY <2>1, KindsDisjoint DEF Items, Needs
  <2>3. QED
    BY <1>4, <2>2 DEF ConsumeRevisionCert
<1>5. CASE ConsumeKey(p, pk, un, lf, stk)
  <2>1. p.ident \in Keys
    BY <1>1, <1>5 DEF PacketSet, ConsumeKey
  <2>2. p.ident \in Items /\ Needs(p.ident) = {}
    BY <2>1, KindsDisjoint DEF Items, Needs
  <2>3. QED
    BY <1>5, <2>2 DEF ConsumeKey
<1>6. QED
  BY <1>2, <1>3, <1>4, <1>5 DEF Consume

LEMMA StepPuts == FullInv /\ [Next]_vars => [Store!Next]_db
<1> SUFFICES ASSUME FullInv, [Next]_vars
             PROVE  \/ db' = db
                    \/ \E x \in Items : Needs(x) \subseteq db /\ db' = db \cup {x}
  BY DEF Store!Next, Store!Put
<1>1. ASSUME NEW p \in Packets, ReceiveOpen(p)
      PROVE  \/ db' = db
             \/ \E x \in Items : Needs(x) \subseteq db /\ db' = db \cup {x}
  BY <1>1, ConsumeWritesOne DEF ReceiveOpen
<1>2. CASE ReplayLast
  <2>1. packets[Len(packets)] \in Packets
    BY <1>2 DEF ReplayLast, FullInv, TypeOK
  <2>2. QED
    BY <1>2, <2>1, ConsumeWritesOne DEF ReplayLast
<1>3. ASSUME NEW s \in Slots, SatisfyOne(s)
      PROVE  \/ db' = db
             \/ \E x \in Items : Needs(x) \subseteq db /\ db' = db \cup {x}
  <2>1. Top \in Items
    BY <1>3 DEF SatisfyOne, FullInv, TypeOK, Top
  <2>2. CASE unsat[s] = {Top}
    <3>1. pkt[s] \in Packets
      BY <2>2 DEF FullInv, TypeOK, IInv, Inv, Books
    <3>2. QED
      BY <1>3, <3>1, ConsumeWritesOne DEF SatisfyOne, Skip
  <2>3. CASE unsat[s] # {Top}
    BY <1>3, <2>3 DEF SatisfyOne, Skip
  <2>4. QED
    BY <2>2, <2>3
<1>4. ASSUME NEW x \in Items, OtherSessionWrites(x)
      PROVE  Needs(x) \subseteq db /\ db' = db \cup {x}
  BY <1>4 DEF OtherSessionWrites
<1>5. CASE \/ \E p \in Packets : ReceiveClosed(p)
           \/ OpenValve \/ SatisfyReturn \/ UNCHANGED vars
  BY <1>5 DEF ReceiveClosed, OpenValve, SatisfyReturn, vars
<1>6. QED
  BY <1>1, <1>2, <1>3, <1>4, <1>5 DEF Next, Internal

(* The writer, with its valve, its delayed packets and its nested satisfy  *)
(* calls, implements the store that only ever puts an item whose           *)
(* references are all there.                                               *)
THEOREM ImplementsItemStore == Spec => StoreSpec
<1>1. Init => Store!Init
  BY DEF Init, Store!Init
<1>2. QED
  BY <1>1, StepPuts, Invariance, PTL DEF Spec, StoreSpec, Store!Spec

(* While the valve is closed only other sessions change the database.      *)
THEOREM ValveKeepsShut == Spec => ValveHolds
<1> DEFINE Shut == valve_is_open \/ stack = <<>>
<1>1. Init => Shut
  BY DEF Init
<1>2. Shut /\ [Next]_vars => Shut'
  <2> SUFFICES ASSUME Shut, [Next]_vars PROVE Shut'
    OBVIOUS
  <2>1. CASE ReplayLast \/ \E p \in Packets : ReceiveOpen(p)
    BY <2>1 DEF ReceiveOpen, ReplayLast
  <2>2. CASE SatisfyReturn \/ \E s \in Slots : SatisfyOne(s)
    BY <2>2 DEF SatisfyOne, SatisfyReturn
  <2>3. CASE \/ OpenValve \/ UNCHANGED vars
             \/ \E p \in Packets : ReceiveClosed(p)
             \/ \E x \in Items : OtherSessionWrites(x)
    BY <2>3 DEF OpenValve, ReceiveClosed, OtherSessionWrites, vars
  <2>4. QED
    BY <2>1, <2>2, <2>3 DEF Next, Internal
<1>3. FullInv /\ Shut /\ [Next]_vars
        => [db' # db => valve_is_open \/ foreign' # foreign]_vars
  <2> SUFFICES ASSUME FullInv, Shut, Next, db' # db, ~valve_is_open
               PROVE  foreign' # foreign
    BY DEF vars
  <2>1. ASSUME NEW x \in Items, OtherSessionWrites(x) PROVE foreign' # foreign
    BY <2>1 DEF OtherSessionWrites, FullInv, IInv, Inv, Types
  <2>2. QED
    BY <2>1 DEF Next, Internal, ReceiveOpen, ReceiveClosed, OpenValve, ReplayLast,
                SatisfyOne, SatisfyReturn
<1> HIDE DEF Shut
<1>4. QED
  BY <1>1, <1>2, <1>3, Invariance, PTL DEF Spec, ValveHolds
-----------------------------------------------------------------------------
(* The order of arrival does not matter.  Two more invariants say so: each *)
(* packet received is written, waits or cannot be used, and each item      *)
(* written is one that the packets received allow.                         *)

(* A delta that yields another text than it should, a key that is refused. *)
Useless(q) ==
  \/ q.kind = "delta" /\ ~q.good
  \/ q.kind \in {"public_key", "key_pair"} /\ ~TakeKeys

Settled(d, pk, q) == q.ident \in d \/ Useless(q) \/ \E s \in Slots : pk[s] = q

(* A delayed packet waits for items that it needs.                         *)
Blocked(q, u) ==
  q.kind \in {"delta", "revision", "cert"} /\ u \subseteq PacketNeeds(q)

(* Of the packets D received, W are still to be consumed.                  *)
Tracked(d, pk, un, D, W) ==
  /\ W \subseteq D
  /\ \A q \in D : q \in W \/ Settled(d, pk, q)
  /\ \A s \in Slots : pk[s] # NoPacket => pk[s] \in D /\ Blocked(pk[s], un[s])

Stable(D, S) == \A q \in D : Enabled(q, S) => q.ident \in S

(* The database d holds nothing that the start, the others' writes f and   *)
(* the packets D do not account for.                                       *)
Justified(d, f, D) ==
  \A S \in SUBSET Items : InitDb \cup f \subseteq S /\ Stable(D, S) => d \subseteq S

OrderInv ==
  /\ Tracked(db, pkt, unsat, seen, Elems(packets))
  /\ Justified(db, foreign, seen)

LEMMA IdentItem == ASSUME NEW q \in Packets PROVE q.ident \in Items
<1>1. q \in PacketSet
  BY PacketsTyped
<1> QED  BY <1>1 DEF PacketSet, Items

LEMMA EnabledGrows ==
  ASSUME NEW q, NEW S, NEW T, S \subseteq T, Enabled(q, S)
  PROVE  Enabled(q, T)
  BY DEF Enabled

(* What a consume_* method does with its packet, and that it leaves the    *)
(* delayed packets of the others alone.                                    *)
LEMMA ConsumeSettles ==
  ASSUME NEW p \in Packets, NEW pk \in [Slots -> Packets \cup {NoPacket}],
         NEW un \in [Slots -> SUBSET Items], NEW lf, NEW stk,
         \A s \in Slots : pkt[s] = NoPacket => pk[s] = NoPacket,
         Consume(p, pk, un, lf, stk)
  PROVE  /\ db' = db \/ (Enabled(p, db) /\ db' = db \cup {p.ident})
         /\ Settled(db', pkt', p)
         /\ \A s \in Slots : pk[s] # NoPacket => pkt'[s] = pk[s]
         /\ \A s \in Slots : pkt'[s] # NoPacket =>
              \/ pkt'[s] = pk[s] /\ unsat'[s] = un[s]
              \/ pkt'[s] = p /\ Blocked(p, unsat'[s])
<1> DEFINE Same == pkt' = pk /\ unsat' = un
<1>1. p \in PacketSet
  BY PacketsTyped
<1>2. SUFFICES
        \/ Same /\ db' = db /\ (p.ident \in db \/ Useless(p))
        \/ Same /\ Enabled(p, db) /\ db' = db \cup {p.ident}
        \/ \E missing : Delay(p, missing, pk, un, lf, stk) /\ Blocked(p, missing)
  <2>1. CASE Same /\ db' = db /\ (p.ident \in db \/ Useless(p))
    BY <2>1 DEF Settled
  <2>2. CASE Same /\ Enabled(p, db) /\ db' = db \cup {p.ident}
    BY <2>2 DEF Settled
  <2>3. ASSUME NEW missing, Delay(p, missing, pk, un, lf, stk), Blocked(p, missing)
        PROVE  /\ db' = db /\ Settled(db', pkt', p)
               /\ \A s \in Slots : pk[s] # NoPacket => pkt'[s] = pk[s]
               /\ \A s \in Slots : pkt'[s] # NoPacket =>
                    \/ pkt'[s] = pk[s] /\ unsat'[s] = un[s]
                    \/ pkt'[s] = p /\ Blocked(p, unsat'[s])
    <3>1. PICK s \in Slots : /\ pkt[s] = NoPacket /\ db' = db
                             /\ pkt' = [pk EXCEPT ![s] = p]
                             /\ unsat' = [un EXCEPT ![s] = missing]
      BY <2>3 DEF Delay
    <3>2. pk[s] = NoPacket /\ pkt'[s] = p /\ unsat'[s] = missing
      BY <3>1
    <3>3. \A t \in Slots : t # s => pkt'[t] = pk[t] /\ unsat'[t] = un[t]
      BY <3>1
    <3> QED  BY <2>3, <3>1, <3>2, <3>3 DEF Settled
  <2> QED  BY <1>2, <2>1, <2>2, <2>3
<1>3. CASE ConsumeFileData(p, pk, un, lf, stk) \/ ConsumeManifestData(p, pk, un, lf, stk)
  BY <1>3 DEF ConsumeFileData, ConsumeManifestData, Skip, WriteAndAccept, Enabled
<1>4. CASE ConsumeFileDelta(p, pk, un, lf, stk) \/ ConsumeManifestDelta(p, pk, un, lf, stk)
  <2>1. p.kind = "delta" /\ ConsumeDelta(p, pk, un, lf, stk)
    BY <1>4 DEF ConsumeFileDelta, ConsumeManifestDelta
  <2>2. PacketNeeds(p) = {p.base}
    BY <2>1 DEF PacketNeeds
  <2>3. Blocked(p, {p.base})
    BY <2>1, <2>2 DEF Blocked
  <2>4. p.base \in db /\ p.good => Enabled(p, db)
    BY <2>1, <2>2 DEF Enabled
  <2>5. ~p.good => Useless(p)
    BY <2>1 DEF Useless
  <2> QED  BY <2>1, <2>3, <2>4, <2>5 DEF ConsumeDelta, Skip, WriteAndAccept
<1>5. CASE ConsumeRevisionData(p, pk, un, lf, stk)
  <2>1. p.kind = "revision" /\ p.ident \in Revisions
    BY <1>1, <1>5 DEF PacketSet, ConsumeRevisionData
  <2>2. PacketNeeds(p) = RevisionNeeds(p.ident)
    BY <2>1 DEF PacketNeeds, Needs
  <2>3. Blocked(p, RevisionNeeds(p.ident) \ db)
    BY <2>1, <2>2 DEF Blocked
  <2>4. RevisionNeeds(p.ident) \ db = {} => Enabled(p, db)
    BY <2>1, <2>2 DEF Enabled
  <2> QED  BY <1>5, <2>3, <2>4 DEF ConsumeRevisionData, Skip, WriteAndAccept
<1>6. CASE ConsumeRevisionCert(p, pk, un, lf, stk)
  <2>1. p.kind = "cert" /\ p.ident \in Certs
    BY <1>1, <1>6 DEF PacketSet, ConsumeRevisionCert
  <2>2. PacketNeeds(p) = {CertOn[p.ident]}
    BY <2>1, KindsDisjoint DEF PacketNeeds, Needs
  <2>3. Blocked(p, {CertOn[p.ident]})
    BY <2>1, <2>2 DEF Blocked
  <2>4. CertOn[p.ident] \in db => Enabled(p, db)
    BY <2>1, <2>2 DEF Enabled
  <2> QED  BY <1>6, <2>3, <2>4 DEF ConsumeRevisionCert, Skip, WriteOnly
<1>7. CASE ConsumeKey(p, pk, un, lf, stk)
  BY <1>7 DEF ConsumeKey, Skip, WriteOnly, Enabled, Useless
<1> QED  BY <1>3, <1>4, <1>5, <1>6, <1>7 DEF Consume

(* So a packet that is consumed is no longer one of those still to be      *)
(* consumed, and what it adds is accounted for.                            *)
LEMMA ConsumeOrders ==
  ASSUME NEW D \in SUBSET Packets, NEW W \in SUBSET D, NEW p \in D,
         NEW pk \in [Slots -> Packets \cup {NoPacket}],
         NEW un \in [Slots -> SUBSET Items], NEW lf, NEW stk,
         Tracked(db, pk, un, D, W \cup {p}), Justified(db, foreign, D),
         \A s \in Slots : pkt[s] = NoPacket => pk[s] = NoPacket,
         Consume(p, pk, un, lf, stk)
  PROVE  Tracked(db', pkt', unsat', D, W) /\ Justified(db', foreign, D)
<1>1. /\ db' = db \/ (Enabled(p, db) /\ db' = db \cup {p.ident})
      /\ Settled(db', pkt', p)
      /\ \A s \in Slots : pk[s] # NoPacket => pkt'[s] = pk[s]
      /\ \A s \in Slots : pkt'[s] # NoPacket =>
           \/ pkt'[s] = pk[s] /\ unsat'[s] = un[s]
           \/ pkt'[s] = p /\ Blocked(p, unsat'[s])
  BY ConsumeSettles
<1>2. ASSUME NEW q \in D PROVE q \in W \/ Settled(db', pkt', q)
  <2>1. CASE q = p
    BY <1>1, <2>1
  <2>2. CASE q # p /\ q \notin W
    <3>1. Settled(db, pk, q)
      BY <2>2 DEF Tracked
    <3>2. q # NoPacket
      BY PacketsTyped
    <3>3. db \subseteq db'
      BY <1>1
    <3> QED  BY <1>1, <3>1, <3>2, <3>3 DEF Settled
  <2> QED  BY <2>1, <2>2
<1>3. ASSUME NEW s \in Slots, pkt'[s] # NoPacket
      PROVE  pkt'[s] \in D /\ Blocked(pkt'[s], unsat'[s])
  <2>1. CASE pkt'[s] = pk[s] /\ unsat'[s] = un[s]
    BY <1>3, <2>1 DEF Tracked
  <2>2. CASE pkt'[s] = p /\ Blocked(p, unsat'[s])
    BY <2>2
  <2> QED  BY <1>1, <1>3, <2>1, <2>2
<1>4. ASSUME NEW S \in SUBSET Items, InitDb \cup foreign \subseteq S, Stable(D, S)
      PROVE  db' \subseteq S
  <2>1. db \subseteq S
    BY <1>4 DEF Justified
  <2>2. Enabled(p, db) => p.ident \in S
    BY <1>4, <2>1, EnabledGrows DEF Stable
  <2> QED  BY <1>1, <2>1, <2>2
<1>5. Tracked(db', pkt', unsat', D, W)
  BY <1>2, <1>3 DEF Tracked
<1>6. Justified(db', foreign, D)
  BY <1>4 DEF Justified
<1> QED  BY <1>5, <1>6

LEMMA InitOrder == Init => OrderInv
<1> SUFFICES ASSUME Init PROVE OrderInv
  OBVIOUS
<1>1. Elems(packets) = {}
  BY EmptyMap DEF Init
<1>2. Tracked(db, pkt, unsat, seen, {})
  BY DEF Init, Tracked
<1>3. Justified(db, foreign, seen)
  BY DEF Init, Justified
<1> QED  BY <1>1, <1>2, <1>3 DEF OrderInv

(* More packets received account for as much.                              *)
LEMMA JustifiedGrows ==
  ASSUME NEW d, NEW f, NEW g, NEW D, NEW E, Justified(d, f, D), D \subseteq E, f \subseteq g
  PROVE  Justified(d, g, E)
<1> SUFFICES ASSUME NEW S \in SUBSET Items, InitDb \cup g \subseteq S, Stable(E, S)
             PROVE  d \subseteq S
  BY DEF Justified
<1>1. Stable(D, S) /\ InitDb \cup f \subseteq S
  BY DEF Stable
<1> QED  BY <1>1 DEF Justified

LEMMA ReceiveOpenOrder ==
  ASSUME NEW p \in Packets, FullInv, OrderInv, ReceiveOpen(p) PROVE OrderInv'
<1> DEFINE D == seen \cup {p}
           W == Elems(packets)
<1>1. /\ Consume(p, pkt, unsat, left, stack) /\ seen' = D
      /\ packets' = packets /\ foreign' = foreign
  BY DEF ReceiveOpen
<1>2. D \in SUBSET Packets /\ p \in D
  BY DEF FullInv, TypeOK
<1>3. W \in SUBSET D /\ Tracked(db, pkt, unsat, D, W \cup {p})
  BY DEF OrderInv, Tracked
<1>4. Justified(db, foreign, D)
  BY JustifiedGrows DEF OrderInv
<1>5. pkt \in [Slots -> Packets \cup {NoPacket}] /\ unsat \in [Slots -> SUBSET Items]
  BY DEF FullInv, TypeOK
<1>6. Elems(packets') = W
  BY <1>1
<1> HIDE DEF D, W
<1>7. Tracked(db', pkt', unsat', D, W) /\ Justified(db', foreign, D)
  BY <1>1, <1>2, <1>3, <1>4, <1>5, ConsumeOrders
<1> QED  BY <1>1, <1>6, <1>7 DEF OrderInv, Elems

LEMMA ReceiveClosedOrder ==
  ASSUME NEW p \in Packets, FullInv, OrderInv, ReceiveClosed(p) PROVE OrderInv'
<1>1. /\ packets' = Append(packets, p) /\ seen' = seen \cup {p}
      /\ db' = db /\ pkt' = pkt /\ unsat' = unsat /\ foreign' = foreign
  BY DEF ReceiveClosed
<1>2. Elems(Append(packets, p)) = Elems(packets) \cup {p}
  BY ElemsAppend DEF FullInv, TypeOK
<1>3. Tracked(db, pkt, unsat, seen \cup {p}, Elems(packets) \cup {p})
  BY DEF OrderInv, Tracked
<1>4. Justified(db, foreign, seen \cup {p})
  BY JustifiedGrows DEF OrderInv
<1>5. Elems(packets)' = Elems(packets) \cup {p}
  BY <1>1, <1>2 DEF Elems
<1> QED  BY <1>1, <1>3, <1>4, <1>5 DEF OrderInv

LEMMA ReplayLastOrder ==
  ASSUME FullInv, OrderInv, ReplayLast PROVE OrderInv'
<1> DEFINE p == packets[Len(packets)]
           rest == SubSeq(packets, 1, Len(packets) - 1)
           W == Elems(rest)
<1>1. /\ Consume(p, pkt, unsat, left, stack) /\ packets' = rest /\ packets # <<>>
      /\ seen' = seen /\ foreign' = foreign
  BY DEF ReplayLast
<1>2. packets \in Seq(Packets)
  BY DEF FullInv, TypeOK
<1>3. Elems(packets) = W \cup {p} /\ p \in Elems(packets)
  BY <1>1, <1>2, WithoutLast
<1>4. pkt \in [Slots -> Packets \cup {NoPacket}] /\ unsat \in [Slots -> SUBSET Items]
      /\ seen \in SUBSET Packets
  BY DEF FullInv, TypeOK
<1>5. Tracked(db, pkt, unsat, seen, Elems(packets)) /\ Justified(db, foreign, seen)
  BY DEF OrderInv
<1>6. Elems(packets)' = W
  BY <1>1 DEF Elems
<1> HIDE DEF p, W, rest
<1>7. Tracked(db, pkt, unsat, seen, W \cup {p})
  BY <1>3, <1>5
<1>8. W \in SUBSET seen /\ p \in seen
  BY <1>7 DEF Tracked
<1>9. Tracked(db', pkt', unsat', seen, W) /\ Justified(db', foreign, seen)
  BY <1>1, <1>4, <1>5, <1>7, <1>8, ConsumeOrders
<1> QED  BY <1>1, <1>6, <1>9 DEF OrderInv

LEMMA SatisfyOneOrder ==
  ASSUME NEW s \in Slots, FullInv, OrderInv, SatisfyOne(s) PROVE OrderInv'
<1> DEFINE x == Top
           lf == [left EXCEPT ![x] = @ \ {s}]
           un == [unsat EXCEPT ![s] = @ \ {x}]
           pk == [pkt EXCEPT ![s] = NoPacket]
           W == Elems(packets)
<1>1. packets' = packets /\ seen' = seen /\ foreign' = foreign
  BY DEF SatisfyOne
<1>2. pkt \in [Slots -> Packets \cup {NoPacket}] /\ unsat \in [Slots -> SUBSET Items]
      /\ seen \in SUBSET Packets
  BY DEF FullInv, TypeOK
<1>3. Tracked(db, pkt, unsat, seen, W) /\ Justified(db, foreign, seen)
  BY DEF OrderInv
<1>4. un \in [Slots -> SUBSET Items] /\ un[s] \subseteq unsat[s]
      /\ \A t \in Slots : un[t] \subseteq unsat[t]
  BY <1>2
<1>5. Elems(packets)' = W
  BY <1>1 DEF Elems
<1>6. CASE Skip(pkt, un, lf, stack)
  <2>1. db' = db /\ pkt' = pkt /\ unsat' = un
    BY <1>6 DEF Skip
  <2> HIDE DEF un, W
  <2>2. Tracked(db, pkt, un, seen, W)
    BY <1>3, <1>4 DEF Tracked, Blocked
  <2> QED  BY <1>1, <1>3, <1>5, <2>1, <2>2 DEF OrderInv
<1>7. CASE unsat[s] = {x} /\ Consume(pkt[s], pk, un, lf, stack)
  <2> DEFINE p == pkt[s]
  <2>1. p # NoPacket
    BY <1>7 DEF FullInv, IInv, Inv, Books
  <2>2. p \in seen /\ W \in SUBSET seen
    BY <1>3, <2>1 DEF Tracked
  <2>3. pk \in [Slots -> Packets \cup {NoPacket}]
        /\ pk[s] = NoPacket /\ \A t \in Slots : t # s => pk[t] = pkt[t] /\ un[t] = unsat[t]
    BY <1>2
  <2>4. Consume(p, pk, un, lf, stack)
    BY <1>7
  <2> HIDE DEF pk, un, lf, W
  <2>5. Tracked(db, pk, un, seen, W \cup {p})
    <3>1. ASSUME NEW q \in seen, q # p, q \notin W PROVE Settled(db, pk, q)
      BY <1>3, <2>3, <3>1 DEF Tracked, Settled
    <3>2. \A t \in Slots : pk[t] # NoPacket => pk[t] \in seen /\ Blocked(pk[t], un[t])
      BY <1>3, <2>3 DEF Tracked
    <3> QED  BY <2>2, <3>1, <3>2 DEF Tracked
  <2>6. \A t \in Slots : pkt[t] = NoPacket => pk[t] = NoPacket
    BY <2>3
  <2> HIDE DEF p
  <2>7. Tracked(db', pkt', unsat', seen, W) /\ Justified(db', foreign, seen)
    BY <1>2, <1>3, <1>4, <2>2, <2>3, <2>4, <2>5, <2>6, ConsumeOrders
  <2> QED  BY <1>1, <1>5, <2>7 DEF OrderInv
<1> QED  BY <1>6, <1>7 DEF SatisfyOne

LEMMA OtherSessionOrder ==
  ASSUME NEW x \in Items, FullInv, OrderInv, OtherSessionWrites(x) PROVE OrderInv'
<1>1. /\ db' = db \cup {x} /\ foreign' = foreign \cup {x} /\ seen' = seen
      /\ pkt' = pkt /\ unsat' = unsat /\ packets' = packets
  BY DEF OtherSessionWrites
<1>2. Tracked(db', pkt, unsat, seen, Elems(packets))
  BY <1>1 DEF OrderInv, Tracked, Settled
<1>3. Justified(db', foreign', seen)
  BY <1>1 DEF OrderInv, Justified
<1>4. Elems(packets)' = Elems(packets)
  BY <1>1 DEF Elems
<1> QED  BY <1>1, <1>2, <1>3, <1>4 DEF OrderInv

LEMMA StepOrder == FullInv /\ OrderInv /\ [Next]_vars => OrderInv'
<1> SUFFICES ASSUME FullInv, OrderInv, [Next]_vars PROVE OrderInv'
  OBVIOUS
<1>1. CASE OpenValve \/ SatisfyReturn \/ UNCHANGED vars
  <2>1. /\ db' = db /\ foreign' = foreign /\ seen' = seen
        /\ pkt' = pkt /\ unsat' = unsat /\ packets' = packets
    BY <1>1 DEF OpenValve, SatisfyReturn, vars
  <2>2. Elems(packets)' = Elems(packets)
    BY <2>1 DEF Elems
  <2> QED  BY <2>1, <2>2 DEF OrderInv
<1> QED  BY <1>1, ReceiveOpenOrder, ReceiveClosedOrder, ReplayLastOrder, SatisfyOneOrder,
            OtherSessionOrder DEF Next, Internal


(* What the packets D allow is closed under D, and is the least such set.  *)
LEMMA DerivableLeast ==
  ASSUME NEW D \in SUBSET Packets
  PROVE  /\ InitDb \subseteq Derivable(D) /\ Derivable(D) \in SUBSET Items
         /\ Stable(D, Derivable(D))
         /\ \A S \in SUBSET Items : InitDb \subseteq S /\ Stable(D, S) => Derivable(D) \subseteq S
<1> DEFINE N == Cardinality(Items)
           U == SUBSET Items
           More(X) == {q.ident : q \in {r \in D : Enabled(r, X)}}
           F == [X \in U |-> X \cup More(X)]
           Growing(g) == g = [n \in 0..N |-> IF n = 0 THEN InitDb
                                ELSE g[n-1] \cup {q.ident : q \in {r \in D : Enabled(r, g[n-1])}}]
           grow == CHOOSE g : Growing(g)
<1>1. N \in Nat
  BY ItemsFinite, FS_CardinalityType
<1>2. InitDb \in U /\ \A X : More(X) \in U
  BY InitDbClosed, IdentItem
<1>3. \E g : Growing(g)
  <2>1. F \in [U -> U]
    <3> HIDE DEF More
    <3> QED  BY <1>2
  <2>2. PICK u \in [0..N -> U] : Iterating(u, N, InitDb, F)
    <3> HIDE DEF U, F, N
    <3> QED  BY <1>1, <1>2, <2>1, IteratingExists
  <2>3. u = [n \in 0..N |-> IF n = 0 THEN InitDb ELSE F[u[n-1]]]
    BY <2>2 DEF Iterating
  <2>4. \A n \in 0..N : n # 0 => u[n-1] \in U
    <3> HIDE DEF U, N
    <3> QED  BY <1>1, <2>2
  <2>5. \A X \in U : F[X] = X \cup {q.ident : q \in {r \in D : Enabled(r, X)}}
    OBVIOUS
  <2> HIDE DEF F, U, N
  <2>6. \A n \in 0..N : n # 0 =>
          F[u[n-1]] = u[n-1] \cup {q.ident : q \in {r \in D : Enabled(r, u[n-1])}}
    BY <2>4, <2>5
  <2>7. [n \in 0..N |-> IF n = 0 THEN InitDb ELSE F[u[n-1]]]
          = [n \in 0..N |-> IF n = 0 THEN InitDb
               ELSE u[n-1] \cup {q.ident : q \in {r \in D : Enabled(r, u[n-1])}}]
    BY <2>6
  <2> QED  BY <2>3, <2>7
<1>4. Growing(grow)
  <2> HIDE DEF Growing
  <2> QED  BY <1>3
<1>5. Derivable(D) = grow[N]
  BY DEF Derivable
<1> HIDE DEF grow, N, More
<1>6. /\ grow[0] = InitDb
      /\ \A n \in 1..N : grow[n] = grow[n-1] \cup More(grow[n-1])
  <2>1. grow = [n \in 0..N |-> IF n = 0 THEN InitDb ELSE grow[n-1] \cup More(grow[n-1])]
    BY <1>4 DEF More
  <2>2. 0 \in 0..N /\ \A n \in 1..N : n \in 0..N /\ n # 0
    BY <1>1
  <2> HIDE DEF Growing
  <2> QED  BY <2>1, <2>2, Zenon
<1> HIDE DEF Growing
<1>7. \A S : Stable(D, S) => More(S) \subseteq S
  BY DEF More, Stable
<1>8. \A X, S : X \subseteq S => More(X) \subseteq More(S)
  BY EnabledGrows DEF More
<1> DEFINE Below(X) == \A S \in SUBSET Items : InitDb \subseteq S /\ Stable(D, S) => X \subseteq S
           Full(X, n) == Stable(D, X) \/ Cardinality(X) >= n
           T == {n \in Nat : n <= N =>
                   /\ InitDb \subseteq grow[n] /\ grow[n] \in U
                   /\ Below(grow[n]) /\ Full(grow[n], n)}
<1>9. \A X \in U : IsFiniteSet(X) /\ Cardinality(X) \in Nat
  BY ItemsFinite, FS_Subset, FS_CardinalityType
<1>10. 0 \in T
  <2>1. Cardinality(InitDb) \in Nat
    BY <1>2, <1>9
  <2> QED  BY <1>2, <1>6, <2>1
<1>11. ASSUME NEW n \in Nat, n \in T PROVE n + 1 \in T
  <2>1. SUFFICES ASSUME n + 1 <= N
                 PROVE  /\ InitDb \subseteq grow[n+1] /\ grow[n+1] \in U
                        /\ Below(grow[n+1]) /\ Full(grow[n+1], n + 1)
    OBVIOUS
  <2> DEFINE X == grow[n]
             Y == grow[n+1]
  <2>2. InitDb \subseteq X /\ X \in U /\ Below(X) /\ Full(X, n)
    <3>1. n <= N
      BY <1>1, <2>1
    <3> HIDE DEF Below, Full
    <3> QED  BY <1>11, <3>1
  <2>3. Y = X \cup More(X)
    <3>1. n + 1 \in 1..N /\ (n + 1) - 1 = n
      BY <1>1, <2>1
    <3> QED  BY <1>6, <3>1
  <2> HIDE DEF X, Y
  <2>4. InitDb \subseteq Y /\ Y \in U
    BY <1>2, <2>2, <2>3
  <2>5. Below(Y)
    <3> SUFFICES ASSUME NEW S \in SUBSET Items, InitDb \subseteq S, Stable(D, S)
                 PROVE  Y \subseteq S
      OBVIOUS
    <3>1. X \subseteq S
      BY <2>2
    <3> QED  BY <1>7, <1>8, <2>3, <3>1
  <2>6. Full(Y, n + 1)
    <3>1. CASE Stable(D, X)
      <4>1. Y = X
        BY <1>7, <2>3, <3>1
      <4> QED  BY <3>1, <4>1
    <3>2. CASE ~Stable(D, X)
      <4>1. PICK q \in D : Enabled(q, X) /\ q.ident \notin X
        BY <3>2 DEF Stable
      <4>2. X \cup {q.ident} \subseteq Y
        BY <2>3, <4>1 DEF More
      <4>3. IsFiniteSet(X) /\ IsFiniteSet(Y) /\ Cardinality(X) \in Nat /\ Cardinality(Y) \in Nat
        BY <1>9, <2>2, <2>4
      <4>4. Cardinality(X) >= n
        BY <2>2, <3>2
      <4>5. Cardinality(X \cup {q.ident}) = Cardinality(X) + 1
        BY <4>1, <4>3, FS_AddElement
      <4>6. Cardinality(X \cup {q.ident}) <= Cardinality(Y)
        BY <4>2, <4>3, FS_Subset
      <4> QED  BY <4>3, <4>4, <4>5, <4>6
    <3> QED  BY <3>1, <3>2
  <2> HIDE DEF Below, Full
  <2> QED  BY <2>2, <2>4, <2>5, <2>6 DEF Y
<1>12. N \in T
  <2> HIDE DEF T
  <2> QED  BY <1>1, <1>10, <1>11, SetInduction
<1>13. InitDb \subseteq grow[N] /\ grow[N] \in U /\ Below(grow[N]) /\ Full(grow[N], N)
  <2> HIDE DEF Below, Full
  <2> QED  BY <1>1, <1>12
<1> DEFINE Z == grow[N]
<1>14. Stable(D, Z)
  <2> SUFFICES ASSUME Cardinality(Z) >= N PROVE Stable(D, Z)
    BY <1>13
  <2>1. Z \subseteq Items /\ Cardinality(Z) \in Nat
    BY <1>9, <1>13
  <2> HIDE DEF Z
  <2>2. Cardinality(Z) <= Cardinality(Items) /\ (Cardinality(Z) = Cardinality(Items) => Z = Items)
    BY <2>1, ItemsFinite, FS_Subset
  <2>3. Z = Items
    BY <1>1, <2>1, <2>2 DEF N
  <2> QED  BY <2>3, IdentItem DEF Stable
<1> QED  BY <1>5, <1>13, <1>14

(* Between calls the database of a session that has it to itself holds     *)
(* exactly what the packets received so far allow: the order of arrival,   *)
(* the duplicates, the valve's reversed replay and the nesting of the      *)
(* satisfy calls leave no trace.                                           *)
THEOREM OrderDoesNotMatter == Spec => []OrderIndependent
<1> DEFINE Kept == InitDb \subseteq db
<1>1. FullInv /\ OrderInv /\ Kept => OrderIndependent
  <2> SUFFICES ASSUME FullInv, OrderInv, Kept, stack = <<>>, packets = <<>>, foreign = {}
               PROVE  db = Derivable(seen)
    BY DEF OrderIndependent, Idle
  <2>1. seen \in SUBSET Packets /\ db \in SUBSET Items
    BY DEF FullInv, TypeOK
  <2>2. Elems(packets) = {}
    BY EmptyMap
  <2>3. Stable(seen, db)
    <3> SUFFICES ASSUME NEW q \in seen, Enabled(q, db), q.ident \notin db PROVE FALSE
      BY DEF Stable
    <3>1. q \in PacketSet /\ q # NoPacket
      BY <2>1, PacketsTyped
    <3>2. ~Useless(q)
      BY DEF Enabled, Useless
    <3>3. PICK s \in Slots : pkt[s] = q
      BY <2>2, <3>2 DEF OrderInv, Tracked, Settled
    <3>4. Blocked(q, unsat[s])
      BY <3>1, <3>3 DEF OrderInv, Tracked
    <3>5. unsat[s] # {} /\ unsat[s] \in SUBSET Items
      BY <3>1, <3>3 DEF FullInv, TypeOK, IInv, Inv, Books
    <3>6. PICK x \in unsat[s] : x \in Items
      BY <3>5
    <3>7. x \notin db
      <4>1. left[x] = {}
        BY <3>6 DEF FullInv, IInv, Inv, Frames
      <4>2. s \in prereqs[x]
        BY <3>6, <4>1 DEF FullInv, IInv, Inv, Books
      <4> QED  BY <3>6, <4>2 DEF FullInv, IInv, Inv, Waiting
    <3>8. x \in PacketNeeds(q)
      BY <3>4 DEF Blocked
    <3>9. ~Enabled(q, db)
      BY <3>4, <3>7, <3>8 DEF Blocked, Enabled
    <3> QED  BY <3>9
  <2>4. Derivable(seen) \subseteq db
    BY <2>1, <2>3, DerivableLeast
  <2>5. db \subseteq Derivable(seen)
    BY <2>1, DerivableLeast DEF OrderInv, Justified
  <2> QED  BY <2>4, <2>5
<1>2. Init => Kept
  BY DEF Init
<1>3. FullInv /\ Kept /\ [Next]_vars => Kept'
  BY StepPuts DEF Store!Next, Store!Put
<1> HIDE DEF Kept
<1>4. QED
  BY <1>1, <1>2, <1>3, InitOrder, StepOrder, Invariance, PTL DEF Spec
=============================================================================
