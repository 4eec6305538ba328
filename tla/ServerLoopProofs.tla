-------------------------- MODULE ServerLoopProofs --------------------------
(***************************************************************************)
(* What is proved of the event loops for any number of clients, any limit  *)
(* and any sizes of buffers, of reads and writes and of the sockets.  The  *)
(* limit on sessions is kept, although the decision to listen is made at   *)
(* the head of the loop and the connection is accepted later.  The limits  *)
(* on buffers stop an exchange only where both ends are full, and nobody   *)
(* who keeps to the protocol is cut short.  These two follow from one      *)
(* invariant, TalkInv: each direction of a connection carries a sequence   *)
(* of commands, cut into units as it may be, and the two sequences are     *)
(* what is left of a conversation, of which the goodbyes are the end.      *)
(***************************************************************************)
EXTENDS ServerLoop, DataLemmas, FiniteSetTheorems, TLAPS

(* The decision is still right when the probe returns: nothing between the *)
(* two adds a session.                                                     *)
ListeningHasRoom == loop = "probe" /\ listening => Cardinality(sessions) < Limit

IInv ==
  /\ sessions \subseteq Clients
  /\ SessionsBounded
  /\ ListeningHasRoom

LEMMA FiniteSessions ==
  ASSUME sessions \subseteq Clients
  PROVE  IsFiniteSet(sessions) /\ Cardinality(sessions) \in Nat
  BY LimitsAssumption, FS_Subset, FS_CardinalityType

(* Sessions that end leave room.                                           *)
LEMMA EraseShrinks ==
  ASSUME sessions \subseteq Clients, NEW S, Erase(S)
  PROVE  /\ sessions' \subseteq sessions
         /\ Cardinality(sessions') \in Nat
         /\ Cardinality(sessions') <= Cardinality(sessions)
<1>1. sessions' \in SUBSET sessions  BY DEF Erase
<1>2. IsFiniteSet(sessions)  BY FiniteSessions
<1>3. IsFiniteSet(sessions') /\ Cardinality(sessions') <= Cardinality(sessions)
  BY <1>1, <1>2, FS_Subset
<1>. QED  BY <1>1, <1>3, FS_CardinalityType

LEMMA InitBounded ==
  ASSUME Init PROVE IInv
<1>1. sessions = {} /\ loop = "arm"  BY DEF Init
<1>2. Cardinality(sessions) = 0  BY <1>1, FS_EmptySet
<1>. QED  BY <1>1, <1>2, LimitsAssumption DEF IInv, SessionsBounded, ListeningHasRoom

(* One more session, where the probe has found room for it.                *)
LEMMA AcceptBounded ==
  ASSUME IInv, NEW c \in Clients, Accept(c) PROVE IInv'
<1>1. /\ sessions' = sessions \cup {c} /\ loop' = "process"
      /\ loop = "probe" /\ listening
  BY DEF Accept
<1>2. IsFiniteSet(sessions) /\ Cardinality(sessions) \in Nat  BY FiniteSessions DEF IInv
<1>3. Cardinality(sessions) < Limit  BY <1>1 DEF IInv, ListeningHasRoom
<1>4. Cardinality(sessions') <= Cardinality(sessions) + 1
  BY <1>1, <1>2, FS_AddElement
<1>5. Cardinality(sessions') \in Nat
  BY <1>1, <1>2, FS_AddElement, FS_CardinalityType
<1>6. Cardinality(sessions') <= Limit  BY <1>2, <1>3, <1>4, <1>5, LimitsAssumption
<1>. QED  BY <1>1, <1>6 DEF IInv, SessionsBounded, ListeningHasRoom

(* Every other step of the server keeps its sessions or erases some.       *)
LEMMA ServerBounded ==
  ASSUME IInv, ServerStep PROVE IInv'
<1>1. CASE ServerArm
  <2>1. PICK bad \in SUBSET sessions : Erase(bad)  BY <1>1 DEF ServerArm
  <2>2. listening' = Listens /\ sessions \subseteq Clients  BY <1>1 DEF ServerArm, IInv
  <2>3. Cardinality(sessions) \in Nat  BY <2>2, FiniteSessions
  <2>4. /\ sessions' \subseteq sessions
        /\ Cardinality(sessions') \in Nat /\ Cardinality(sessions') <= Cardinality(sessions)
    BY <2>1, <2>2, EraseShrinks
  <2>5. listening' => Cardinality(sessions) < Limit  BY <2>2, Zenon DEF Listens
  <2>6. /\ sessions' \subseteq Clients
        /\ Cardinality(sessions') <= Limit
        /\ Cardinality(sessions) < Limit => Cardinality(sessions') < Limit
    BY <2>2, <2>3, <2>4, LimitsAssumption DEF IInv, SessionsBounded
  <2>. QED  BY <2>5, <2>6, Zenon DEF IInv, SessionsBounded, ListeningHasRoom
<1>2. ASSUME NEW S, Erase(S), loop' # "probe" PROVE IInv'
  <2>1. sessions \subseteq Clients /\ Cardinality(sessions) \in Nat  BY FiniteSessions DEF IInv
  <2>2. /\ sessions' \subseteq sessions
        /\ Cardinality(sessions') \in Nat /\ Cardinality(sessions') <= Cardinality(sessions)
    BY <1>2, <2>1, EraseShrinks
  <2>. QED  BY <1>2, <2>1, <2>2, LimitsAssumption DEF IInv, SessionsBounded, ListeningHasRoom
<1>3. ASSUME sessions' = sessions, loop' # "probe" PROVE IInv'
  BY <1>3 DEF IInv, SessionsBounded, ListeningHasRoom
<1>4. CASE ServerInstant  BY <1>3, <1>4 DEF ServerInstant
<1>5. CASE ServerProcess  BY <1>3, <1>5 DEF ServerProcess
<1>6. CASE ServerReap  BY <1>2, <1>6 DEF ServerReap
<1>7. ASSUME NEW c \in Clients, Accept(c) PROVE IInv'  BY <1>7, AcceptBounded
<1>8. ASSUME NEW c \in Clients, ServerIo(c) PROVE IInv'
  <2>1. loop' # "probe"  BY <1>8 DEF ServerIo
  <2>2. Erase({c}) \/ sessions' = sessions  BY <1>8 DEF ServerIo
  <2>. QED  BY <1>2, <1>3, <2>1, <2>2
<1>. QED  BY <1>1, <1>4, <1>5, <1>6, <1>7, <1>8 DEF ServerStep

(* What the clients do and the time that passes leave the server's         *)
(* decision alone.                                                         *)
LEMMA OthersBounded ==
  ASSUME IInv, \/ Tick \/ UNCHANGED vars
               \/ \E c \in Clients : Connect(c) \/ ClientStep(c) \/ Die(c)
  PROVE  IInv'
<1>1. ASSUME sessions' = sessions, listening' = listening, loop' \in {loop, "process"}
      PROVE  IInv'
  BY <1>1 DEF IInv, SessionsBounded, ListeningHasRoom
<1>2. CASE Tick
  BY <1>1, <1>2 DEF Tick
<1>3. CASE UNCHANGED vars  BY <1>1, <1>3 DEF vars
<1>4. ASSUME NEW c \in Clients, Connect(c) \/ ClientStep(c) \/ Die(c) PROVE IInv'
  <2>1. UNCHANGED clientOnly
    BY <1>4 DEF Connect, ClientStep, Die, Leave, ClientIo, ClientInstant, ClientTimeout,
                ClientProcess, ClientNext
  <2>. QED  BY <1>1, <2>1 DEF clientOnly
<1>. QED  BY <1>2, <1>3, <1>4

(* SessionsBounded holds of every server: however connections come in and  *)
(* sessions end, there are never more than the limit.                      *)
THEOREM LimitKept == Spec => []SessionsBounded
<1>1. Init => IInv  BY InitBounded
<1>2. IInv /\ [Next]_vars => IInv'  BY ServerBounded, OthersBounded DEF Next
<1>3. IInv => SessionsBounded  BY DEF IInv
<1>. QED  BY <1>1, <1>2, <1>3, PTL DEF Spec

-----------------------------------------------------------------------------
(* What is on its way.                                                     *)

Commands == {"hello", "auth", "ask", "data", "bye", "bad"}
Signals == Commands \cup {"part"}

(* m and ph are what is known after each unit of a line: how many commands *)
(* are whole, and how far the next one has come.                           *)
Parse(q, first, line, out, n, m, ph) ==
  /\ m[0] = first /\ ph[0] = 0 /\ ph[Len(line)] = n
  /\ \A i \in 1..Len(line) :
       /\ line[i] = "part" => m[i] = m[i - 1] /\ ph[i] = ph[i - 1] + 1
       /\ line[i] # "part" => m[i] = m[i - 1] + 1 /\ ph[i] = 0 /\ q[m[i]] = line[i]
  /\ Len(q) = m[Len(line)] + Len(out)
  /\ \A j \in 1..Len(out) : q[m[Len(line)] + j] = out[j]

Parses(q, first, line, out, n) ==
  \E m \in [0..Len(line) -> 0..Len(q)], ph \in [0..Len(line) -> 0..(MaxCmd - 1)] :
    Parse(q, first, line, out, n, m, ph)

(* One direction of a connection carries the commands of q: one that the   *)
(* end is armed with, what is read and what is in the socket, and what is  *)
(* queued, of which n units are written.                                   *)
Carries(q, com, inb, wir, out, n) ==
  /\ inb \in Seq(Signals) /\ wir \in Seq(Signals) /\ out \in Seq(Commands) /\ n \in Nat
  /\ com \in Commands \cup {None} /\ (com # None => q # <<>> /\ q[1] = com)
  /\ Parses(q, IF com = None THEN 0 ELSE 1, inb \o wir, out, n)
  /\ out = <<>> => n = 0
  /\ out # <<>> => n < Len(Units(Head(out)))

Way(e, q) == Carries(q, cmd[e], inbuf[e], wire[e], outbuf[Peer(e)], written[Peer(e)])

-----------------------------------------------------------------------------
(* The conversation, of which a is on its way to the client, b to the      *)
(* server.                                                                 *)

Cnt(k, s) == Cardinality({i \in DOMAIN s : s[i] = k})
Plain(s) == \A i \in DOMAIN s : s[i] \notin {"hello", "auth"}

(* The greeting, the authentication, and all that comes after it.          *)
Shape(a, b) ==
  \/ a = <<"hello">> /\ b = <<>>
  \/ a = <<>> /\ b # <<>> /\ Head(b) = "auth" /\ Plain(Tail(b))
  \/ Plain(a) /\ Plain(b)

(* What an end has still to ask, before it has begun.                      *)
Unasked(side, begun) == IF begun THEN 0 ELSE config.asks[side]

(* A goodbye is the last thing on its way.                                 *)
ByeWay(in, said, got) ==
  /\ \A i \in DOMAIN in : in[i] = "bye" => i = Len(in) /\ said
  /\ said => got \/ (in # <<>> /\ in[Len(in)] = "bye")
  /\ got => said /\ in = <<>>

(* What an end expects is on its way to it, or will be when the other end  *)
(* has read what is on its way there; and it has said goodbye when it has  *)
(* begun and expects nothing.                                              *)
End(in, out, begun, u, v, x, sent, said, got) ==
  /\ x = Cnt("ask", in) + Cnt("data", in) + Cnt("ask", out) + u + v
  /\ sent <=> begun /\ x = 0
  /\ ByeWay(in, said, got)

ClientEnd(c, a, b) ==
  End(a, b, Plain(a), Unasked("client", Plain(a)), Unasked("server", Plain(a) /\ Plain(b)),
      expected[AtClient(c)], sentBye[AtClient(c)], sentBye[AtServer(c)], gotBye[AtClient(c)])

ServerEnd(c, a, b) ==
  End(b, a, Plain(a) /\ Plain(b), Unasked("server", Plain(a) /\ Plain(b)), Unasked("client", Plain(a)),
      expected[AtServer(c)], sentBye[AtServer(c)], sentBye[AtClient(c)], gotBye[AtServer(c)])

Decent(c, q) == config.kind[c] # "garbled" => \A i \in DOMAIN q : q[i] # "bad"

Protocol(c, a, b) ==
  Shape(a, b) /\ ClientEnd(c, a, b) /\ ServerEnd(c, a, b) /\ Decent(c, a) /\ Decent(c, b)

Conversation(c) ==
  \E a \in Seq(Commands), b \in Seq(Commands) :
    Way(AtClient(c), a) /\ Way(AtServer(c), b) /\ Protocol(c, a, b)

-----------------------------------------------------------------------------
(* The inductive invariant.                                                *)

Both(c) == {AtClient(c), AtServer(c)}
Talking(c) == conn[c] = "open" /\ c \in sessions

(* No end has gone that waited for too long.                               *)
Kept(c) ==
  /\ conn[c] \in {"open", "closed"}
  /\ Talking(c) \/ (config.kind[c] = "honest" /\ \A e \in Both(c) : Gone(e) => ~(idle[e] > 0))

Blank(e) ==
  /\ inbuf[e] = <<>> /\ outbuf[e] = <<>> /\ written[e] = 0 /\ cmd[e] = None /\ wire[e] = <<>>
  /\ expected[e] = config.asks["client"] + config.asks["server"]
  /\ sentBye[e] = FALSE /\ gotBye[e] = FALSE

(* Before input or output is looked at, what can be armed is.              *)
ClientArmed(c) ==
  at[c] = "io" /\ cmd[AtClient(c)] = None => ~Arms(AtClient(c), inbuf[AtClient(c)])
ServerArmed(c) ==
  loop = "probe" /\ c \in sessions /\ cmd[AtServer(c)] = None => ~Arms(AtServer(c), inbuf[AtServer(c)])

Unopened(c) == conn[c] \notin {"open", "closed"}

Connection(c) ==
  /\ Unopened(c) => c \notin sessions /\ \A e \in Both(c) : Blank(e)
  /\ Kept(c) => /\ Conversation(c) /\ ClientArmed(c) /\ ServerArmed(c)
                /\ \A e \in Both(c) : Gone(e) => AllSaid(e)

Domains ==
  /\ DOMAIN inbuf = Endpoints /\ DOMAIN outbuf = Endpoints /\ DOMAIN written = Endpoints
  /\ DOMAIN cmd = Endpoints /\ DOMAIN wire = Endpoints /\ DOMAIN idle = Endpoints
  /\ DOMAIN conn = Clients /\ DOMAIN at = Clients
  /\ sentBye \in [Endpoints -> BOOLEAN] /\ gotBye \in [Endpoints -> BOOLEAN]

TalkInv ==
  /\ config \in Configs /\ Domains /\ sessions \subseteq Clients
  /\ \A c \in Clients : Connection(c)

-----------------------------------------------------------------------------
(* Lines.                                                                  *)

LEMMA UnitsOf ==
  ASSUME NEW k \in Commands
  PROVE  /\ Units(k) \in Seq(Signals) /\ Len(Units(k)) \in 1..MaxCmd
         /\ \A i \in 1..Len(Units(k)) : Units(k)[i] = IF i = Len(Units(k)) THEN k ELSE "part"
<1>0. MaxCmd \in Nat \ {0}
  BY LimitsAssumption
<1>1. CASE k = "data"
  <2> DEFINE u == [i \in 1..MaxCmd |-> IF i = MaxCmd THEN k ELSE "part"]
  <2>1. Units(k) = u
    BY <1>1 DEF Units
  <2>2. u \in [1..MaxCmd -> Signals]
    BY DEF Signals
  <2>3. u \in Seq(Signals) /\ Len(u) = MaxCmd
    BY <1>0, <2>2, SeqDef, LenProperties
  <2> QED  BY <1>0, <2>1, <2>3
<1>2. CASE k # "data"
  <2>1. Units(k) = <<k>>
    BY <1>2 DEF Units
  <2>2. <<k>> \in Seq(Signals) /\ Len(<<k>>) = 1 /\ <<k>>[1] = k
    BY DEF Signals
  <2> QED  BY <1>0, <2>1, <2>2
<1> QED  BY <1>1, <1>2

LEMMA LeastOf ==
  ASSUME NEW T \in SUBSET Nat, T # {}
  PROVE  Least(T) \in T /\ \A y \in T : Least(T) <= y
<1>1. \E x \in T : \A y \in T : x <= y
  BY LeastNat
<1> QED  BY <1>1 DEF Least

LEMMA FirstOf ==
  ASSUME NEW s \in Seq(Signals), Whole(s) # {}
  PROVE  /\ FirstWhole(s) \in 1..Len(s) /\ s[FirstWhole(s)] \in Commands
         /\ \A i \in 1..(FirstWhole(s) - 1) : s[i] = "part"
<1>1. Len(s) \in Nat /\ DOMAIN s = 1..Len(s)
  BY LenProperties
<1>2. Whole(s) \in SUBSET Nat
  BY <1>1 DEF Whole
<1>3. \E x \in Whole(s) : \A y \in Whole(s) : x <= y
  BY <1>2, LeastNat
<1>4. FirstWhole(s) \in Whole(s) /\ \A y \in Whole(s) : FirstWhole(s) <= y
  BY <1>3 DEF FirstWhole
<1> DEFINE f == FirstWhole(s)
<1> HIDE DEF f
<1>5. f \in 1..Len(s) /\ s[f] # "part"
  BY <1>1, <1>4 DEF Whole, f
<1>6. ASSUME NEW i \in 1..(f - 1), s[i] # "part" PROVE FALSE
  <2>1. i \in 1..Len(s) /\ i < f
    BY <1>1, <1>5, <1>6
  <2>2. i \in Whole(s)
    BY <1>1, <1>6, <2>1 DEF Whole
  <2> QED  BY <1>4, <1>5, <2>1, <2>2 DEF f
<1>7. s[f] \in Signals
  BY <1>5, ElementOfSeq
<1> QED  BY <1>5, <1>6, <1>7 DEF f, Signals

(* f is where the first whole command of a line ends, and t what follows.  *)
Follows(s, f, t) ==
  /\ f \in 1..Len(s) /\ s[f] # "part" /\ \A i \in 1..(f - 1) : s[i] = "part"
  /\ Len(t) = Len(s) - f /\ \A i \in 1..Len(t) : t[i] = s[f + i]

(* The first whole command of a line is armed.                             *)
LEMMA ParseArms ==
  ASSUME NEW q \in Seq(Commands), NEW s \in Seq(Signals), NEW t \in Seq(Signals),
         NEW out \in Seq(Commands), NEW n \in Nat, Parses(q, 0, s, out, n),
         NEW f, Follows(s, f, t)
  PROVE  Parses(q, 1, t, out, n) /\ q # <<>> /\ q[1] = s[f]
<1> DEFINE k == Len(s)
           j == Len(t)
<1>f. /\ f \in 1..k /\ s[f] # "part" /\ \A i \in 1..(f - 1) : s[i] = "part"
      /\ j = k - f /\ \A i \in 1..j : t[i] = s[f + i]
  BY DEF Follows
<1>1. PICK m \in [0..k -> 0..Len(q)], ph \in [0..k -> 0..(MaxCmd - 1)] : Parse(q, 0, s, out, n, m, ph)
  BY DEF Parses
<1>2. k \in Nat /\ j \in Nat /\ k = f + j /\ Len(q) \in Nat
  BY <1>f, LenProperties
<1> HIDE DEF k, j
<1>3. /\ m[0] = 0 /\ ph[k] = n
      /\ \A i \in 1..k :
           /\ s[i] = "part" => m[i] = m[i - 1] /\ ph[i] = ph[i - 1] + 1
           /\ s[i] # "part" => m[i] = m[i - 1] + 1 /\ ph[i] = 0 /\ q[m[i]] = s[i]
      /\ Len(q) = m[k] + Len(out)
      /\ \A i \in 1..Len(out) : q[m[k] + i] = out[i]
  BY <1>1 DEF Parse, k
<1>4. f \in 1..k /\ f - 1 \in 0..k /\ f - 1 \in Nat
  BY <1>2, <1>f
<1>5. m[f - 1] = 0
  <2> DEFINE T == {i \in 0..(f - 1) : m[i] = 0}
  <2>1. 0 \in T
    BY <1>3, <1>4
  <2>2. ASSUME NEW i \in 1..(f - 1), i - 1 \in T PROVE i \in T
    <3>1. i \in 1..k
      BY <1>2, <1>4
    <3>2. s[i] = "part"
      BY <2>2, <1>f
    <3> QED  BY <1>3, <2>2, <3>1, <3>2
  <2> HIDE DEF T
  <2>3. 0..(f - 1) \subseteq T
    BY <1>4, <2>1, <2>2, IntervalInduction
  <2>4. f - 1 \in T
    BY <1>4, <2>3
  <2> QED  BY <2>4 DEF T
<1>6. m[f] = 1 /\ ph[f] = 0 /\ q[1] = s[f]
  BY <1>3, <1>4, <1>5, <1>f
<1>7. q # <<>>
  <2>1. m[f] \in 0..Len(q)
    BY <1>1, <1>2, <1>4
  <2>2. Len(q) # 0
    BY <1>2, <1>6, <2>1
  <2> QED  BY <2>2, EmptySeq
<1> DEFINE m2 == [i \in 0..j |-> m[f + i]]
           ph2 == [i \in 0..j |-> ph[f + i]]
<1>8. \A i \in 0..j : f + i \in 0..k
  BY <1>2, <1>4
<1>9. m2 \in [0..j -> 0..Len(q)] /\ ph2 \in [0..j -> 0..(MaxCmd - 1)]
  BY <1>1, <1>8
<1>10. m2[0] = 1 /\ ph2[0] = 0 /\ ph2[j] = n /\ m2[j] = m[k]
  BY <1>2, <1>4, <1>3, <1>6
<1>11. ASSUME NEW i \in 1..j
       PROVE  /\ t[i] = "part" => m2[i] = m2[i - 1] /\ ph2[i] = ph2[i - 1] + 1
              /\ t[i] # "part" => m2[i] = m2[i - 1] + 1 /\ ph2[i] = 0 /\ q[m2[i]] = t[i]
  <2>1. t[i] = s[f + i] /\ f + i \in 1..k /\ i - 1 \in 0..j /\ i \in 0..j
        /\ (f + i) - 1 = f + (i - 1)
    BY <1>2, <1>4, <1>11, <1>f
  <2>2. m2[i] = m[f + i] /\ m2[i - 1] = m[(f + i) - 1] /\ ph2[i] = ph[f + i]
        /\ ph2[i - 1] = ph[(f + i) - 1]
    BY <2>1
  <2> HIDE DEF m2, ph2
  <2> QED  BY <1>3, <2>1, <2>2
<1> HIDE DEF m2, ph2
<1>12. Parse(q, 1, t, out, n, m2, ph2)
  BY <1>3, <1>10, <1>11 DEF Parse, j
<1> QED  BY <1>6, <1>7, <1>9, <1>12 DEF Parses, j

(* More of the queue is written.                                           *)
LEMMA ParseWrites ==
  ASSUME NEW q \in Seq(Commands), NEW first \in Nat, NEW s \in Seq(Signals),
         NEW out \in Seq(Commands), NEW n \in Nat, Parses(q, first, s, out, n),
         out # <<>>, NEW L, L = Len(Units(Head(out))), NEW w \in Nat, n < L, n + w <= L,
         NEW t \in Seq(Signals), Len(t) = Len(s) + w,
         \A i \in 1..Len(s) : t[i] = s[i],
         \A i \in 1..w : t[Len(s) + i] = Units(Head(out))[n + i]
  PROVE  /\ n + w = L => Parses(q, first, t, Tail(out), 0)
         /\ n + w # L => Parses(q, first, t, out, n + w)
<1> DEFINE k == Len(s)
           h == Head(out)
<1>1. PICK m \in [0..k -> 0..Len(q)], ph \in [0..k -> 0..(MaxCmd - 1)] : Parse(q, first, s, out, n, m, ph)
  BY DEF Parses
<1>2. k \in Nat /\ Len(q) \in Nat /\ Len(t) = k + w
  BY LenProperties
<1>3. h \in Commands /\ Tail(out) \in Seq(Commands) /\ Len(Tail(out)) = Len(out) - 1
      /\ Len(out) \in Nat \ {0} /\ out[1] = h /\ \A i \in 1..Len(Tail(out)) : Tail(out)[i] = out[i + 1]
  BY HeadTailProperties, LenProperties, EmptySeq
<1>4. L \in 1..MaxCmd /\ \A i \in 1..L : Units(h)[i] = IF i = L THEN h ELSE "part"
  BY <1>3, UnitsOf
<1>m. MaxCmd \in Nat \ {0}
  BY LimitsAssumption
<1>5. \A i \in 1..w : t[k + i] = IF n + i = L THEN h ELSE "part"
  <2> SUFFICES ASSUME NEW i \in 1..w PROVE t[k + i] = IF n + i = L THEN h ELSE "part"
    OBVIOUS
  <2>1. n + i \in 1..L
    BY <1>4, <1>m
  <2> QED  BY <1>4, <2>1
<1>s. \A i \in 1..k : t[i] = s[i]
  OBVIOUS
<1> HIDE DEF k, h
<1>6. /\ m[0] = first /\ ph[0] = 0 /\ ph[k] = n
      /\ \A i \in 1..k :
           /\ s[i] = "part" => m[i] = m[i - 1] /\ ph[i] = ph[i - 1] + 1
           /\ s[i] # "part" => m[i] = m[i - 1] + 1 /\ ph[i] = 0 /\ q[m[i]] = s[i]
      /\ Len(q) = m[k] + Len(out)
      /\ \A i \in 1..Len(out) : q[m[k] + i] = out[i]
  BY <1>1 DEF Parse, k
<1>7. m[k] \in Nat /\ m[k] + 1 \in 0..Len(q) /\ q[m[k] + 1] = h
  <2>1. m[k] \in 0..Len(q)
    BY <1>1, <1>2
  <2>2. 1 \in 1..Len(out)
    BY <1>3
  <2> QED  BY SMTT(30), <1>2, <1>3, <1>6, <2>1, <2>2
<1> DEFINE m2 == [i \in 0..(k + w) |-> IF i <= k THEN m[i] ELSE IF n + (i - k) = L THEN m[k] + 1 ELSE m[k]]
           ph2 == [i \in 0..(k + w) |-> IF i <= k THEN ph[i] ELSE IF n + (i - k) = L THEN 0 ELSE n + (i - k)]
<1>8. m2 \in [0..(k + w) -> 0..Len(q)]
  <2>1. \A i \in 0..(k + w) : i <= k => i \in 0..k
    BY <1>2
  <2>2. k \in 0..k
    BY <1>2
  <2> QED  BY <1>1, <1>7, <2>1, <2>2
<1>9. ph2 \in [0..(k + w) -> 0..(MaxCmd - 1)]
  <2> SUFFICES ASSUME NEW i \in 0..(k + w) PROVE ph2[i] \in 0..(MaxCmd - 1)
    OBVIOUS
  <2>1. CASE i <= k
    <3>1. i \in 0..k
      BY <1>2, <2>1
    <3> QED  BY <1>1, <2>1, <3>1
  <2>2. CASE ~(i <= k)
    <3>1. n + (i - k) \in 1..L /\ ph2[i] = IF n + (i - k) = L THEN 0 ELSE n + (i - k)
      BY <1>2, <1>4, <1>m, <2>2
    <3> QED  BY <1>4, <1>m, <3>1
  <2> QED  BY <2>1, <2>2
<1>10. \A i \in 0..k : m2[i] = m[i] /\ ph2[i] = ph[i]
  BY <1>2
<1>11. \A i \in 1..w : /\ m2[k + i] = IF n + i = L THEN m[k] + 1 ELSE m[k]
                       /\ ph2[k + i] = IF n + i = L THEN 0 ELSE n + i
  <2> SUFFICES ASSUME NEW i \in 1..w
               PROVE  /\ m2[k + i] = IF n + i = L THEN m[k] + 1 ELSE m[k]
                      /\ ph2[k + i] = IF n + i = L THEN 0 ELSE n + i
    OBVIOUS
  <2>1. k + i \in 0..(k + w) /\ ~(k + i <= k) /\ (k + i) - k = i
    BY <1>2
  <2> QED  BY <2>1
<1> HIDE DEF m2, ph2
<1>12. ASSUME NEW i \in 1..(k + w)
       PROVE  /\ t[i] = "part" => m2[i] = m2[i - 1] /\ ph2[i] = ph2[i - 1] + 1
              /\ t[i] # "part" => m2[i] = m2[i - 1] + 1 /\ ph2[i] = 0 /\ q[m2[i]] = t[i]
  <2>1. CASE i \in 1..k
    <3>1. i \in 0..k /\ i - 1 \in 0..k
      BY <1>2, <2>1
    <3>2. m2[i] = m[i] /\ m2[i - 1] = m[i - 1] /\ ph2[i] = ph[i] /\ ph2[i - 1] = ph[i - 1]
      BY <1>10, <3>1
    <3>3. t[i] = s[i]
      BY <1>s, <2>1
    <3>4. /\ s[i] = "part" => m[i] = m[i - 1] /\ ph[i] = ph[i - 1] + 1
          /\ s[i] # "part" => m[i] = m[i - 1] + 1 /\ ph[i] = 0 /\ q[m[i]] = s[i]
      BY <1>6, <2>1
    <3> QED  BY <3>2, <3>3, <3>4
  <2>2. CASE i \notin 1..k
    <3>1. PICK d \in 1..w : i = k + d
      <4>1. i - k \in 1..w /\ i = k + (i - k)
        BY <1>2, <2>2
      <4> QED  BY <4>1
    <3>2. m2[i - 1] = m[k] /\ ph2[i - 1] = n + (d - 1)
      <4>1. CASE d = 1
        <5>1. i - 1 = k /\ k \in 0..k
          BY <1>2, <3>1, <4>1
        <5>2. m2[k] = m[k] /\ ph2[k] = n
          BY <1>6, <1>10, <5>1
        <5>3. n + (d - 1) = n
          BY <1>2, <4>1
        <5> QED  BY <5>1, <5>2, <5>3
      <4>2. CASE d # 1
        <5>1. d - 1 \in 1..w /\ i - 1 = k + (d - 1) /\ n + (d - 1) # L
          BY <1>2, <1>4, <1>m, <3>1, <4>2
        <5> QED  BY <1>11, <5>1
      <4> QED  BY <4>1, <4>2
    <3>3. CASE n + d = L
      <4>1. m2[i] = m[k] + 1 /\ ph2[i] = 0 /\ t[i] = h
        BY <1>5, <1>11, <3>1, <3>3
      <4>2. h # "part"
        BY <1>3 DEF Commands
      <4> QED  BY <1>7, <3>2, <4>1, <4>2
    <3>4. CASE n + d # L
      <4>1. m2[i] = m[k] /\ ph2[i] = n + d /\ t[i] = "part"
        BY <1>5, <1>11, <3>1, <3>4
      <4> QED  BY <3>1, <3>2, <4>1
    <3> QED  BY <3>3, <3>4
  <2> QED  BY <2>1, <2>2
<1>13. m2[0] = first /\ ph2[0] = 0
  <2>1. 0 \in 0..k
    BY <1>2
  <2>2. m2[0] = m[0] /\ ph2[0] = ph[0]
    BY <1>10, <2>1
  <2>3. m[0] = first /\ ph[0] = 0
    BY <1>6
  <2> QED  BY <2>2, <2>3
<1>14. CASE n + w = L
  <2>1. w \in 1..w
    BY <1>14
  <2>2. m2[k + w] = m[k] + 1 /\ ph2[k + w] = 0
    BY <1>11, <1>14, <2>1
  <2>3. Len(q) = m2[k + w] + Len(Tail(out))
    <3>1. Len(q) = m[k] + Len(out) /\ m[k] \in Nat
      BY <1>6, <1>7
    <3> QED  BY <1>3, <2>2, <3>1
  <2>4. \A i \in 1..Len(Tail(out)) : q[m2[k + w] + i] = Tail(out)[i]
    <3> SUFFICES ASSUME NEW i \in 1..Len(Tail(out)) PROVE q[m2[k + w] + i] = Tail(out)[i]
      OBVIOUS
    <3>0. PICK a \in Nat, l \in Nat : a = m[k] /\ l = Len(out)
      BY <1>3, <1>7
    <3>1. i + 1 \in 1..Len(out) /\ (m[k] + 1) + i = m[k] + (i + 1)
      <4>1. i \in 1..(l - 1)
        BY <1>3, <3>0
      <4>2. i + 1 \in 1..l /\ (a + 1) + i = a + (i + 1)
        BY <4>1
      <4> QED  BY <3>0, <4>2
    <3> QED  BY SMTT(30), <1>3, <1>6, <2>2, <3>1
  <2>5. Parse(q, first, t, Tail(out), 0, m2, ph2)
    BY <1>2, <1>12, <1>13, <2>2, <2>3, <2>4 DEF Parse
  <2> QED  BY <1>2, <1>8, <1>9, <1>14, <2>5 DEF Parses
<1>15. CASE n + w # L
  <2>1. m2[k + w] = m[k] /\ ph2[k + w] = n + w
    <3>1. CASE w = 0
      <4>1. k + w = k /\ k \in 0..k /\ n + w = n
        BY <1>2, <3>1
      <4> QED  BY <1>6, <1>10, <4>1
    <3>2. CASE w # 0
      <4>1. w \in 1..w
        BY <3>2
      <4> QED  BY <1>11, <1>15, <4>1
    <3> QED  BY <3>1, <3>2
  <2>2. Parse(q, first, t, out, n + w, m2, ph2)
    <3>1. Len(q) = m2[k + w] + Len(out) /\ \A i \in 1..Len(out) : q[m2[k + w] + i] = out[i]
      BY <1>6, <2>1
    <3> QED  BY <1>2, <1>12, <1>13, <2>1, <3>1 DEF Parse
  <2> QED  BY <1>2, <1>8, <1>9, <1>15, <2>2 DEF Parses
<1> QED  BY <1>14, <1>15

-----------------------------------------------------------------------------
(* What an end does to its directions.                                     *)

LEMMA PieceOf ==
  ASSUME NEW S, NEW s \in Seq(S), NEW n \in Nat, NEW w \in Nat, n + w <= Len(s)
  PROVE  /\ SubSeq(s, n + 1, n + w) \in Seq(S) /\ Len(SubSeq(s, n + 1, n + w)) = w
         /\ \A i \in 1..w : SubSeq(s, n + 1, n + w)[i] = s[n + i]
<1> DEFINE a == n + 1
           b == n + w
<1>1. a \in Int /\ b \in Int /\ Len(s) \in Nat /\ (b - a) + 1 = w /\ (IF a <= b THEN (b - a) + 1 ELSE 0) = w
      /\ \A i \in a..b : i \in 1..Len(s)
  BY LenProperties
<1>2. \A i \in a..b : s[i] \in S
  BY <1>1, ElementOfSeq
<1>3. \A i \in 1..w : (a + i) - 1 = n + i
  OBVIOUS
<1> HIDE DEF a, b
<1>4. /\ SubSeq(s, a, b) \in Seq(S)
      /\ Len(SubSeq(s, a, b)) = IF a <= b THEN (b - a) + 1 ELSE 0
      /\ \A i \in 1..((b - a) + 1) : SubSeq(s, a, b)[i] = s[(a + i) - 1]
  BY <1>1, <1>2, SubSeqProperties
<1>5. /\ SubSeq(s, a, b) \in Seq(S) /\ Len(SubSeq(s, a, b)) = w
      /\ \A i \in 1..w : SubSeq(s, a, b)[i] = s[n + i]
  BY <1>1, <1>3, <1>4
<1> QED  BY <1>5 DEF a, b

LEMMA CutInTwo ==
  ASSUME NEW S, NEW s \in Seq(S), NEW r \in 0..Len(s)
  PROVE  /\ SubSeq(s, 1, r) \in Seq(S) /\ Len(SubSeq(s, 1, r)) = r
         /\ SubSeq(s, r + 1, Len(s)) \in Seq(S) /\ Len(SubSeq(s, r + 1, Len(s))) = Len(s) - r
         /\ \A i \in 1..r : SubSeq(s, 1, r)[i] = s[i]
         /\ \A i \in 1..(Len(s) - r) : SubSeq(s, r + 1, Len(s))[i] = s[r + i]
<1>1. PICK k \in Nat : k = Len(s)
  BY LenProperties
<1>2. r \in Nat /\ k - r \in Nat /\ r + (k - r) <= Len(s) /\ r + (k - r) = k /\ 0 + r <= Len(s)
      /\ 0 + 1 = 1 /\ 0 + r = r /\ \A i \in 1..r : 0 + i = i
  BY <1>1
<1>3. /\ SubSeq(s, r + 1, r + (k - r)) \in Seq(S) /\ Len(SubSeq(s, r + 1, r + (k - r))) = k - r
      /\ \A i \in 1..(k - r) : SubSeq(s, r + 1, r + (k - r))[i] = s[r + i]
  <2>1. PICK d \in Nat : d = k - r
    BY <1>2
  <2>2. r + d <= Len(s)
    BY <1>2, <2>1
  <2>3. /\ SubSeq(s, r + 1, r + d) \in Seq(S) /\ Len(SubSeq(s, r + 1, r + d)) = d
        /\ \A i \in 1..d : SubSeq(s, r + 1, r + d)[i] = s[r + i]
    BY <1>2, <2>2, PieceOf
  <2> QED  BY <2>1, <2>3
<1>4. /\ SubSeq(s, 0 + 1, 0 + r) \in Seq(S) /\ Len(SubSeq(s, 0 + 1, 0 + r)) = r
      /\ \A i \in 1..r : SubSeq(s, 0 + 1, 0 + r)[i] = s[0 + i]
  <2>1. 0 \in Nat
    OBVIOUS
  <2> QED  BY <1>2, <2>1, PieceOf
<1> QED  BY <1>1, <1>2, <1>3, <1>4

(* Two sequences with the same elements.                                   *)
LEMMA SameSeq ==
  ASSUME NEW S, NEW s \in Seq(S), NEW t \in Seq(S), Len(s) = Len(t),
         \A i \in 1..Len(s) : s[i] = t[i]
  PROVE  s = t
  BY SeqEqual

(* Reading moves units from the socket to the input buffer.                *)
LEMMA CarriesRead ==
  ASSUME NEW q \in Seq(Commands), NEW com, NEW inb, NEW wir, NEW out, NEW n,
         Carries(q, com, inb, wir, out, n), NEW r \in 0..Len(wir)
  PROVE  Carries(q, com, inb \o SubSeq(wir, 1, r), SubSeq(wir, r + 1, Len(wir)), out, n)
<1> DEFINE a == SubSeq(wir, 1, r)
           b == SubSeq(wir, r + 1, Len(wir))
           k == Len(wir)
           l == Len(inb)
<1>1. inb \in Seq(Signals) /\ wir \in Seq(Signals)
  BY DEF Carries
<1>2. /\ a \in Seq(Signals) /\ Len(a) = r /\ b \in Seq(Signals) /\ Len(b) = k - r
      /\ \A i \in 1..r : a[i] = wir[i]
      /\ \A i \in 1..(k - r) : b[i] = wir[r + i]
  BY <1>1, CutInTwo
<1>3. k \in Nat /\ r \in 0..k /\ l \in Nat
  BY <1>1, LenProperties
<1> HIDE DEF a, b
<1>4. /\ inb \o a \in Seq(Signals) /\ Len(inb \o a) = l + r
      /\ \A i \in 1..(l + r) : (inb \o a)[i] = IF i <= l THEN inb[i] ELSE a[i - l]
  <2>1. inb \in Seq(Signals) /\ a \in Seq(Signals) /\ Len(a) = r
    BY <1>1, <1>2
  <2> QED  BY <2>1, ConcatProperties
<1>5. /\ (inb \o a) \o b \in Seq(Signals) /\ Len((inb \o a) \o b) = (l + r) + (k - r)
      /\ \A i \in 1..((l + r) + (k - r)) :
           ((inb \o a) \o b)[i] = IF i <= l + r THEN (inb \o a)[i] ELSE b[i - (l + r)]
  <2> DEFINE ia == inb \o a
  <2>1. ia \in Seq(Signals) /\ Len(ia) = l + r
    BY <1>4
  <2> HIDE DEF ia, l, k
  <2>2. /\ ia \o b \in Seq(Signals) /\ Len(ia \o b) = Len(ia) + Len(b)
        /\ \A i \in 1..(Len(ia) + Len(b)) : (ia \o b)[i] = IF i <= Len(ia) THEN ia[i] ELSE b[i - Len(ia)]
    <3>1. ia \in Seq(Signals) /\ b \in Seq(Signals)
      BY <1>2, <2>1
    <3> QED  BY <3>1, ConcatProperties
  <2>3. /\ ia \o b \in Seq(Signals) /\ Len(ia \o b) = (l + r) + (k - r)
        /\ \A i \in 1..((l + r) + (k - r)) : (ia \o b)[i] = IF i <= l + r THEN ia[i] ELSE b[i - (l + r)]
    BY <1>2, <2>1, <2>2
  <2> QED  BY <2>3 DEF ia
<1>6. /\ inb \o wir \in Seq(Signals) /\ Len(inb \o wir) = l + k
      /\ \A i \in 1..(l + k) : (inb \o wir)[i] = IF i <= l THEN inb[i] ELSE wir[i - l]
  BY <1>1, ConcatProperties
<1> HIDE DEF k, l
<1>7. (l + r) + (k - r) = l + k
  BY <1>3
<1>8. ASSUME NEW i \in 1..(l + k) PROVE ((inb \o a) \o b)[i] = (inb \o wir)[i]
  <2>1. CASE i <= l
    <3>1. i \in 1..(l + r) /\ i <= l + r
      BY <1>3, <2>1
    <3> QED  BY <1>4, <1>5, <1>6, <1>7, <2>1, <3>1
  <2>2. CASE ~(i <= l) /\ i <= l + r
    <3>1. i \in 1..(l + r) /\ i - l \in 1..r
      BY <1>3, <2>2
    <3> QED  BY <1>2, <1>4, <1>5, <1>6, <1>7, <2>2, <3>1
  <2>3. CASE ~(i <= l + r)
    <3>1. i - (l + r) \in 1..(k - r) /\ r + (i - (l + r)) = i - l /\ ~(i <= l)
      BY <1>3, <2>3
    <3>2. ((inb \o a) \o b)[i] = b[i - (l + r)]
      BY <1>5, <1>7, <2>3
    <3>3. b[i - (l + r)] = wir[r + (i - (l + r))]
      BY <1>2, <3>1
    <3>4. (inb \o wir)[i] = wir[i - l]
      BY <1>6, <3>1
    <3> QED  BY <3>1, <3>2, <3>3, <3>4
  <2> QED  BY <2>1, <2>2, <2>3
<1>9. (inb \o a) \o b = inb \o wir
  BY <1>5, <1>6, <1>7, <1>8, SameSeq
<1> QED  BY <1>2, <1>4, <1>9 DEF Carries, a, b, k

LEMMA NoneIsNone == None \notin Commands
  BY DEF None, Commands

(* arm() takes the first whole command out of the input buffer.            *)
LEMMA CarriesArm ==
  ASSUME NEW q \in Seq(Commands), NEW inb, NEW wir, NEW out, NEW n,
         Carries(q, None, inb, wir, out, n), Whole(inb) # {}
  PROVE  /\ inb[FirstWhole(inb)] \in Commands
         /\ Carries(q, inb[FirstWhole(inb)], SubSeq(inb, FirstWhole(inb) + 1, Len(inb)), wir, out, n)
<1> DEFINE f == FirstWhole(inb)
           k == Len(inb)
           j == Len(wir)
           b == SubSeq(inb, f + 1, k)
<1>1. inb \in Seq(Signals) /\ wir \in Seq(Signals) /\ out \in Seq(Commands) /\ n \in Nat
      /\ Parses(q, 0, inb \o wir, out, n)
  BY DEF Carries
<1>2. /\ f \in 1..k /\ inb[f] \in Commands
      /\ \A i \in 1..(f - 1) : inb[i] = "part"
  BY <1>1, FirstOf
<1>3. k \in Nat /\ j \in Nat
  BY <1>1, LenProperties
<1> HIDE DEF f
<1>4. f \in 0..k
  BY <1>2, <1>3
<1>5. /\ b \in Seq(Signals) /\ Len(b) = k - f
      /\ \A i \in 1..(k - f) : b[i] = inb[f + i]
  BY <1>1, <1>4, CutInTwo
<1> HIDE DEF b
<1>6. /\ inb \o wir \in Seq(Signals) /\ Len(inb \o wir) = k + j
      /\ \A i \in 1..(k + j) : (inb \o wir)[i] = IF i <= k THEN inb[i] ELSE wir[i - k]
  BY <1>1, ConcatProperties
<1>7. /\ b \o wir \in Seq(Signals) /\ Len(b \o wir) = (k - f) + j
      /\ \A i \in 1..((k - f) + j) : (b \o wir)[i] = IF i <= k - f THEN b[i] ELSE wir[i - (k - f)]
  BY <1>1, <1>5, ConcatProperties
<1> HIDE DEF k, j
<1>8. ASSUME NEW i \in 1..((k - f) + j) PROVE (b \o wir)[i] = (inb \o wir)[f + i]
  <2>1. f + i \in 1..(k + j)
    BY <1>2, <1>3
  <2>2. CASE i <= k - f
    <3>1. i \in 1..(k - f) /\ f + i <= k
      BY <1>2, <1>3, <2>2
    <3> QED  BY <1>5, <1>6, <1>7, <2>1, <2>2, <3>1
  <2>3. CASE ~(i <= k - f)
    <3>1. ~(f + i <= k) /\ (f + i) - k = i - (k - f)
      BY <1>2, <1>3, <2>3
    <3> QED  BY <1>6, <1>7, <2>1, <2>3, <3>1
  <2> QED  BY <2>2, <2>3
<1> DEFINE s == inb \o wir
           t == b \o wir
<1>9. /\ s \in Seq(Signals) /\ t \in Seq(Signals) /\ f \in 1..Len(s) /\ s[f] = inb[f]
      /\ \A i \in 1..(f - 1) : s[i] = "part"
      /\ Len(t) = Len(s) - f /\ \A i \in 1..Len(t) : t[i] = s[f + i]
  <2>1. f \in 1..(k + j) /\ f <= k /\ (k + j) - f = (k - f) + j
    BY <1>2, <1>3
  <2>2. \A i \in 1..(f - 1) : i \in 1..(k + j) /\ i <= k
    BY <1>2, <1>3
  <2>3. s[f] = inb[f] /\ \A i \in 1..(f - 1) : s[i] = "part"
    BY <1>2, <1>6, <2>1, <2>2
  <2> QED  BY <1>6, <1>7, <1>8, <2>1, <2>3
<1> HIDE DEF s, t
<1>10. s[f] # "part" /\ Parses(q, 0, s, out, n)
  BY <1>1, <1>2, <1>9 DEF Commands, s
<1>11. Parses(q, 1, t, out, n) /\ q # <<>> /\ q[1] = s[f]
  <2>1. q \in Seq(Commands) /\ out \in Seq(Commands) /\ n \in Nat
    BY <1>1
  <2>2. Follows(s, f, t)
    BY <1>9, <1>10 DEF Follows
  <2>3. s \in Seq(Signals) /\ t \in Seq(Signals) /\ Parses(q, 0, s, out, n)
    BY <1>9, <1>10
  <2> QED  BY <2>1, <2>2, <2>3, ParseArms
<1>12. Carries(q, inb[f], b, wir, out, n)
  BY <1>1, <1>2, <1>5, <1>9, <1>11, NoneIsNone DEF Carries, t
<1> QED  BY <1>2, <1>12 DEF f, b, k

(* Writing moves units of the first command of the queue to the socket.    *)
LEMMA CarriesWrite ==
  ASSUME NEW q \in Seq(Commands), NEW com, NEW inb, NEW wir, NEW out, NEW n,
         Carries(q, com, inb, wir, out, n), out # <<>>,
         NEW L, L = Len(Units(Head(out))), NEW w \in Nat, n + w <= L
  PROVE  Carries(q, com, inb, wir \o SubSeq(Units(Head(out)), n + 1, n + w),
                 IF n + w = L THEN Tail(out) ELSE out, IF n + w = L THEN 0 ELSE n + w)
<1> DEFINE u == Units(Head(out))
           x == SubSeq(u, n + 1, n + w)
           first == IF com = None THEN 0 ELSE 1
           k == Len(inb)
           j == Len(wir)
<1>1. /\ inb \in Seq(Signals) /\ wir \in Seq(Signals) /\ out \in Seq(Commands) /\ n \in Nat
      /\ Parses(q, first, inb \o wir, out, n) /\ n < L
  BY DEF Carries
<1>2. Head(out) \in Commands /\ Tail(out) \in Seq(Commands)
  BY <1>1, HeadTailProperties
<1>3. u \in Seq(Signals) /\ L \in 1..MaxCmd /\ L = Len(u) /\ L \in Nat
  BY <1>2, UnitsOf, LimitsAssumption
<1>4. k \in Nat /\ j \in Nat
  BY <1>1, LenProperties
<1>5. x \in Seq(Signals) /\ Len(x) = w /\ \A i \in 1..w : x[i] = u[n + i]
  <2> HIDE DEF u
  <2>1. n + w <= Len(u)
    BY <1>3
  <2> QED  BY <1>1, <1>3, <2>1, PieceOf
<1> HIDE DEF u, x
<1>6. /\ wir \o x \in Seq(Signals) /\ Len(wir \o x) = j + w
      /\ \A i \in 1..(j + w) : (wir \o x)[i] = IF i <= j THEN wir[i] ELSE x[i - j]
  BY <1>1, <1>5, ConcatProperties
<1> DEFINE s == inb \o wir
           t == inb \o (wir \o x)
<1>7. s \in Seq(Signals) /\ Len(s) = k + j
      /\ \A i \in 1..(k + j) : s[i] = IF i <= k THEN inb[i] ELSE wir[i - k]
  BY <1>1, ConcatProperties
<1>8. t \in Seq(Signals) /\ Len(t) = k + (j + w)
      /\ \A i \in 1..(k + (j + w)) : t[i] = IF i <= k THEN inb[i] ELSE (wir \o x)[i - k]
  <2> DEFINE wx == wir \o x
  <2>1. wx \in Seq(Signals) /\ Len(wx) = j + w
    BY <1>6
  <2> HIDE DEF wx, j, k
  <2>2. /\ inb \o wx \in Seq(Signals) /\ Len(inb \o wx) = Len(inb) + Len(wx)
        /\ \A i \in 1..(Len(inb) + Len(wx)) :
             (inb \o wx)[i] = IF i <= Len(inb) THEN inb[i] ELSE wx[i - Len(inb)]
    <3>1. inb \in Seq(Signals) /\ wx \in Seq(Signals)
      BY <1>1, <2>1
    <3> QED  BY <3>1, ConcatProperties
  <2>3. Len(inb) = k
    BY DEF k
  <2>4. /\ inb \o wx \in Seq(Signals) /\ Len(inb \o wx) = k + (j + w)
        /\ \A i \in 1..(k + (j + w)) : (inb \o wx)[i] = IF i <= k THEN inb[i] ELSE wx[i - k]
    BY <2>1, <2>2, <2>3
  <2> QED  BY <2>4 DEF wx
<1> HIDE DEF s, t, k, j
<1>9. ASSUME NEW i \in 1..(k + j) PROVE t[i] = s[i]
  <2>1. i \in 1..(k + (j + w))
    BY <1>4
  <2>2. CASE i <= k
    BY <1>7, <1>8, <2>1, <2>2
  <2>3. CASE ~(i <= k)
    <3>1. i - k \in 1..(j + w) /\ i - k <= j
      BY <1>4, <2>3
    <3> QED  BY <1>6, <1>7, <1>8, <2>1, <2>3, <3>1
  <2> QED  BY <2>2, <2>3
<1>10. ASSUME NEW i \in 1..w PROVE t[Len(s) + i] = u[n + i]
  <2>1. /\ (k + j) + i \in 1..(k + (j + w)) /\ ~((k + j) + i <= k)
        /\ ((k + j) + i) - k = j + i /\ j + i \in 1..(j + w) /\ ~(j + i <= j) /\ (j + i) - j = i
    BY <1>4
  <2>2. t[(k + j) + i] = (wir \o x)[j + i]
    BY <1>8, <2>1
  <2>3. (wir \o x)[j + i] = x[i]
    BY <1>6, <2>1
  <2>4. x[i] = u[n + i] /\ Len(s) = k + j
    BY <1>5, <1>7
  <2> QED  BY <2>2, <2>3, <2>4
<1>11. Len(t) = Len(s) + w
  BY <1>4, <1>7, <1>8
<1>12. first \in Nat /\ Parses(q, first, s, out, n) /\ \A i \in 1..Len(s) : t[i] = s[i]
  BY <1>1, <1>7, <1>9 DEF s
<1> HIDE DEF first
<1>13. /\ n + w = L => Parses(q, first, t, Tail(out), 0)
       /\ n + w # L => Parses(q, first, t, out, n + w)
  <2>1. q \in Seq(Commands) /\ first \in Nat /\ s \in Seq(Signals) /\ t \in Seq(Signals)
        /\ out \in Seq(Commands) /\ n \in Nat /\ w \in Nat /\ Parses(q, first, s, out, n)
        /\ out # <<>> /\ L = Len(Units(Head(out))) /\ n < L /\ n + w <= L
    BY <1>1, <1>7, <1>8, <1>12
  <2>2. Len(t) = Len(s) + w /\ (\A i \in 1..Len(s) : t[i] = s[i])
        /\ \A i \in 1..w : t[Len(s) + i] = Units(Head(out))[n + i]
    BY <1>10, <1>11, <1>12 DEF u
  <2> HIDE DEF s, t
  <2> QED  BY <2>1, <2>2, ParseWrites
<1>14. CASE n + w = L
  <2>1. Tail(out) # <<>> => 0 < Len(Units(Head(Tail(out))))
    <3> SUFFICES ASSUME Tail(out) # <<>> PROVE 0 < Len(Units(Head(Tail(out))))
      OBVIOUS
    <3>1. Head(Tail(out)) \in Commands
      BY <1>2, HeadTailProperties
    <3> QED  BY <3>1, UnitsOf, LimitsAssumption
  <2>2. Carries(q, com, inb, wir \o x, Tail(out), 0)
    BY <1>2, <1>6, <1>13, <1>14, <2>1 DEF Carries, t, first
  <2> QED  BY <1>14, <2>2 DEF x, u
<1>15. CASE n + w # L
  <2>1. n + w < L /\ n + w \in Nat
    BY <1>1, <1>3, <1>15
  <2>2. Carries(q, com, inb, wir \o x, out, n + w)
    BY <1>6, <1>13, <1>15, <2>1 DEF Carries, t, first
  <2> QED  BY <1>15, <2>2 DEF x, u
<1> QED  BY <1>14, <1>15

(* Commands join the end of the queue.                                     *)
LEMMA CarriesQueue ==
  ASSUME NEW q \in Seq(Commands), NEW com, NEW inb, NEW wir, NEW out, NEW n,
         Carries(q, com, inb, wir, out, n), NEW r \in Seq(Commands)
  PROVE  q \o r \in Seq(Commands) /\ out \o r \in Seq(Commands) /\ Carries(q \o r, com, inb, wir, out \o r, n)
<1> DEFINE s == inb \o wir
           k == Len(s)
           first == IF com = None THEN 0 ELSE 1
           p == q \o r
           o == out \o r
<1>1. /\ inb \in Seq(Signals) /\ wir \in Seq(Signals) /\ out \in Seq(Commands) /\ n \in Nat
      /\ Parses(q, first, s, out, n) /\ com \in Commands \cup {None}
  BY DEF Carries
<1>2. PICK m \in [0..k -> 0..Len(q)], ph \in [0..k -> 0..(MaxCmd - 1)] : Parse(q, first, s, out, n, m, ph)
  BY <1>1 DEF Parses
<1>3. s \in Seq(Signals) /\ k \in Nat
  BY <1>1, ConcatProperties, LenProperties
<1>4. PICK lq \in Nat, lr \in Nat, lo \in Nat : lq = Len(q) /\ lr = Len(r) /\ lo = Len(out)
  BY <1>1, LenProperties
<1>5. /\ p \in Seq(Commands) /\ Len(p) = lq + lr
      /\ \A i \in 1..(lq + lr) : p[i] = IF i <= lq THEN q[i] ELSE r[i - lq]
  BY <1>4, ConcatProperties
<1>6. /\ o \in Seq(Commands) /\ Len(o) = lo + lr
      /\ \A i \in 1..(lo + lr) : o[i] = IF i <= lo THEN out[i] ELSE r[i - lo]
  BY <1>1, <1>4, ConcatProperties
<1> HIDE DEF s, k, p, o
<1>7. /\ m[0] = first /\ ph[0] = 0 /\ ph[k] = n
      /\ \A i \in 1..k :
           /\ s[i] = "part" => m[i] = m[i - 1] /\ ph[i] = ph[i - 1] + 1
           /\ s[i] # "part" => m[i] = m[i - 1] + 1 /\ ph[i] = 0 /\ q[m[i]] = s[i]
      /\ lq = m[k] + lo
      /\ \A i \in 1..lo : q[m[k] + i] = out[i]
  BY <1>2, <1>4 DEF Parse, k
<1>8. m \in [0..k -> 0..lq] /\ m \in [0..k -> 0..Len(p)] /\ m[k] \in Nat
  <2>1. m \in [0..k -> 0..lq]
    BY <1>2, <1>4 DEF k
  <2>2. \A i \in 0..lq : i \in 0..(lq + lr)
    BY <1>4
  <2> QED  BY <1>3, <1>4, <1>5, <2>1, <2>2
<1>9. ASSUME NEW i \in 1..k, s[i] # "part" PROVE p[m[i]] = s[i]
  <2>1. m[i] \in 0..lq /\ m[i - 1] \in 0..lq /\ m[i] = m[i - 1] + 1 /\ q[m[i]] = s[i]
    BY SMTT(30), <1>3, <1>7, <1>8, <1>9
  <2>2. PICK a \in Nat : a = m[i]
    BY <2>1
  <2>3. a \in 1..(lq + lr) /\ a <= lq
    BY <1>4, <2>1, <2>2
  <2> QED  BY <1>5, <2>1, <2>2, <2>3
<1>10. ASSUME NEW i \in 1..(lo + lr) PROVE p[m[k] + i] = o[i]
  <2>1. PICK a \in Nat : a = m[k]
    BY <1>8
  <2>2. lq = a + lo
    BY <1>7, <2>1
  <2>3. a + i \in 1..(lq + lr) /\ (a + i <= lq <=> i <= lo) /\ (a + i) - lq = i - lo
    <3>1. a \in Nat /\ lo \in Nat /\ lr \in Nat /\ i \in 1..(lo + lr)
      BY <1>4, <1>10, <2>1
    <3> QED  BY <2>2, <3>1
  <2>4. /\ o[i] = IF i <= lo THEN out[i] ELSE r[i - lo]
        /\ p[a + i] = IF i <= lo THEN q[a + i] ELSE r[i - lo]
    BY <1>5, <1>6, <2>3
  <2>5. i <= lo => q[a + i] = out[i]
    <3>1. i <= lo => i \in 1..lo
      BY <1>4
    <3> QED  BY <1>7, <2>1, <3>1
  <2> QED  BY <2>1, <2>4, <2>5
<1>11. Len(p) = m[k] + Len(o)
  BY SMTT(30), <1>4, <1>5, <1>6, <1>7, <1>8
<1>12. Parse(p, first, s, o, n, m, ph)
  BY <1>6, <1>7, <1>9, <1>10, <1>11 DEF Parse, k
<1>13. Parses(p, first, s, o, n)
  <2>1. ph \in [0..k -> 0..(MaxCmd - 1)]
    BY <1>2 DEF k
  <2> QED  BY <1>8, <1>12, <2>1 DEF Parses, k
<1>14. com # None => p # <<>> /\ p[1] = com
  <2> SUFFICES ASSUME com # None PROVE p # <<>> /\ p[1] = com
    OBVIOUS
  <2>1. q # <<>> /\ q[1] = com
    BY DEF Carries
  <2>2. lq \in Nat \ {0}
    BY <1>4, <2>1, EmptySeq
  <2>3. 1 \in 1..(lq + lr) /\ 1 <= lq /\ lq + lr # 0
    BY <1>4, <2>2
  <2> QED  BY <1>5, <2>1, <2>3, EmptySeq
<1>15. /\ o = <<>> => n = 0
       /\ o # <<>> => n < Len(Units(Head(o)))
  <2>1. CASE out = <<>>
    <3>1. n = 0
      BY <2>1 DEF Carries
    <3>2. ASSUME o # <<>> PROVE n < Len(Units(Head(o)))
      <4>1. Head(o) \in Commands
        BY <1>6, <3>2, HeadTailProperties
      <4> QED  BY <3>1, <4>1, UnitsOf, LimitsAssumption
    <3> QED  BY <3>1, <3>2
  <2>2. CASE out # <<>>
    <3>1. n < Len(Units(Head(out)))
      BY <2>2 DEF Carries
    <3>2. lo \in Nat \ {0}
      BY <1>1, <1>4, <2>2, EmptySeq
    <3>3. 1 \in 1..(lo + lr) /\ 1 <= lo /\ lo + lr # 0
      BY <1>4, <3>2
    <3>4. o # <<>> /\ o[1] = out[1]
      BY <1>6, <3>3, EmptySeq
    <3>5. Head(o) = Head(out)
      BY <3>4
    <3> QED  BY <3>1, <3>4, <3>5
  <2> QED  BY <2>1, <2>2
<1>16. Carries(p, com, inb, wir, o, n)
  BY <1>1, <1>6, <1>13, <1>14, <1>15 DEF Carries, s
<1> QED  BY <1>5, <1>6, <1>16 DEF p, o

(* The command that an end is armed with leaves the queue.                 *)
LEMMA CarriesTail ==
  ASSUME NEW q \in Seq(Commands), NEW com, NEW inb, NEW wir, NEW out, NEW n,
         Carries(q, com, inb, wir, out, n), com # None
  PROVE  /\ q # <<>> /\ q[1] = com /\ com \in Commands /\ Tail(q) \in Seq(Commands)
         /\ Carries(Tail(q), None, inb, wir, out, n)
<1> DEFINE s == inb \o wir
           k == Len(s)
           p == Tail(q)
<1>1. /\ inb \in Seq(Signals) /\ wir \in Seq(Signals) /\ out \in Seq(Commands) /\ n \in Nat
      /\ Parses(q, 1, s, out, n) /\ com \in Commands /\ q # <<>> /\ q[1] = com
  BY DEF Carries
<1>2. PICK m \in [0..k -> 0..Len(q)], ph \in [0..k -> 0..(MaxCmd - 1)] : Parse(q, 1, s, out, n, m, ph)
  BY <1>1 DEF Parses
<1>3. s \in Seq(Signals) /\ k \in Nat
  BY <1>1, ConcatProperties, LenProperties
<1>4. PICK lq \in Nat, lo \in Nat : lq = Len(q) /\ lo = Len(out)
  BY <1>1, LenProperties
<1>5. /\ p \in Seq(Commands) /\ Len(p) = lq - 1 /\ lq # 0
      /\ \A i \in 1..(lq - 1) : p[i] = q[i + 1]
  BY <1>1, <1>4, HeadTailProperties, EmptySeq
<1> HIDE DEF s, k, p
<1>7. /\ m[0] = 1 /\ ph[0] = 0 /\ ph[k] = n
      /\ \A i \in 1..k :
           /\ s[i] = "part" => m[i] = m[i - 1] /\ ph[i] = ph[i - 1] + 1
           /\ s[i] # "part" => m[i] = m[i - 1] + 1 /\ ph[i] = 0 /\ q[m[i]] = s[i]
      /\ lq = m[k] + lo
      /\ \A i \in 1..lo : q[m[k] + i] = out[i]
  BY <1>2, <1>4 DEF Parse, k
<1>8. m \in [0..k -> 0..lq] /\ k \in 0..k
  BY <1>2, <1>3, <1>4 DEF k
<1>9. \A i \in 0..k : m[i] \in 1..lq
  <2> DEFINE T == {i \in 0..k : m[i] \in 1..lq}
  <2>1. 0 \in T
    BY <1>3, <1>4, <1>5, <1>7
  <2>2. ASSUME NEW i \in 1..k, i - 1 \in T PROVE i \in T
    <3>1. i \in 0..k /\ i - 1 \in 0..k /\ m[i - 1] \in 1..lq /\ m[i] \in 0..lq
      BY <1>3, <1>8, <2>2
    <3>2. m[i] = m[i - 1] \/ m[i] = m[i - 1] + 1
      BY <1>7
    <3> QED  BY <1>4, <3>1, <3>2
  <2> HIDE DEF T
  <2>3. 0..k \subseteq T
    BY <1>3, <2>1, <2>2, IntervalInduction
  <2> QED  BY <2>3 DEF T
<1> DEFINE m2 == [i \in 0..k |-> m[i] - 1]
<1>10. m2 \in [0..k -> 0..Len(p)]
  <2>1. \A i \in 1..lq : i - 1 \in 0..(lq - 1)
    BY <1>4
  <2> QED  BY <1>5, <1>9, <2>1
<1>11. ASSUME NEW i \in 1..k
       PROVE  /\ s[i] = "part" => m2[i] = m2[i - 1] /\ ph[i] = ph[i - 1] + 1
              /\ s[i] # "part" => m2[i] = m2[i - 1] + 1 /\ ph[i] = 0 /\ p[m2[i]] = s[i]
  <2>1. i \in 0..k /\ i - 1 \in 0..k
    BY <1>3
  <2>2. PICK a \in 1..lq, b \in 1..lq : a = m[i] /\ b = m[i - 1]
    BY <1>9, <2>1
  <2>3. m2[i] = a - 1 /\ m2[i - 1] = b - 1
    BY <2>1, <2>2
  <2>4. CASE s[i] = "part"
    BY <1>7, <2>2, <2>3, <2>4
  <2>5. CASE s[i] # "part"
    <3>1. a = b + 1 /\ ph[i] = 0 /\ q[a] = s[i]
      BY <1>7, <2>2, <2>5
    <3>2. a - 1 \in 1..(lq - 1) /\ (a - 1) + 1 = a /\ a - 1 = (b - 1) + 1
      BY <1>4, <2>2, <3>1
    <3> HIDE DEF m2
    <3> QED  BY <1>5, <2>3, <2>5, <3>1, <3>2
  <2> QED  BY <2>4, <2>5
<1>12. PICK a \in 1..lq : a = m[k] /\ m2[k] = a - 1
  BY <1>8, <1>9
<1>13. m2[0] = 0
  BY <1>3, <1>7
<1> HIDE DEF m2
<1>14. Len(p) = m2[k] + Len(out)
  BY <1>4, <1>5, <1>7, <1>12
<1>15. ASSUME NEW i \in 1..Len(out) PROVE p[m2[k] + i] = out[i]
  <2>1. (a - 1) + i \in 1..(lq - 1) /\ ((a - 1) + i) + 1 = a + i /\ i \in 1..lo
    BY SMTT(30), <1>4, <1>7, <1>12
  <2>2. PICK d \in Nat : d = (a - 1) + i
    BY <2>1
  <2>3. p[d] = q[d + 1] /\ q[d + 1] = out[i] /\ m2[k] + i = d
    <3>1. q[m[k] + i] = out[i] /\ m[k] + i = a + i
      BY <1>7, <1>12, <2>1
    <3> QED  BY <1>5, <1>12, <2>1, <2>2, <3>1
  <2> QED  BY <2>3
<1>16. Parse(p, 0, s, out, n, m2, ph)
  BY <1>7, <1>11, <1>13, <1>14, <1>15 DEF Parse, k
<1>17. Parses(p, 0, s, out, n)
  <2>1. ph \in [0..k -> 0..(MaxCmd - 1)]
    BY <1>2 DEF k
  <2> QED  BY <1>10, <1>16, <2>1 DEF Parses, k
<1>18. /\ out = <<>> => n = 0
       /\ out # <<>> => n < Len(Units(Head(out)))
  BY DEF Carries
<1>19. Carries(p, None, inb, wir, out, n)
  BY <1>1, <1>17, <1>18 DEF Carries, s
<1> QED  BY <1>1, <1>5, <1>19 DEF p

(* As long as no command is whole, what is read is part of the next one.   *)
LEMMA ParseParts ==
  ASSUME NEW q \in Seq(Commands), NEW first \in Nat, NEW s \in Seq(Signals), NEW out, NEW n,
         NEW m, NEW ph, Parse(q, first, s, out, n, m, ph),
         NEW K \in 0..Len(s), \A i \in 1..K : s[i] = "part"
  PROVE  m[K] = first /\ ph[K] = K
<1>1. PICK k \in Nat : k = Len(s)
  BY LenProperties
<1> DEFINE T == {i \in 0..K : m[i] = first /\ ph[i] = i}
<1>2. K \in Nat /\ K <= k
  BY <1>1
<1>3. 0 \in T
  BY <1>2 DEF Parse
<1>4. ASSUME NEW i \in 1..K, i - 1 \in T PROVE i \in T
  <2>1. i \in 1..k /\ i \in 0..K /\ (i - 1) + 1 = i
    BY <1>1, <1>2
  <2>2. m[i] = m[i - 1] /\ ph[i] = ph[i - 1] + 1
    BY <1>1, <2>1 DEF Parse
  <2> QED  BY <1>4, <2>1, <2>2
<1> HIDE DEF T
<1>5. 0..K \subseteq T
  BY <1>2, <1>3, <1>4, IntervalInduction
<1>6. K \in T
  BY <1>2, <1>5
<1> QED  BY <1>6 DEF T

(* An input buffer without a whole command has room, and where nothing is  *)
(* under way, nothing is on its way.                                       *)
LEMMA ShortInput ==
  ASSUME NEW q \in Seq(Commands), NEW com, NEW inb, NEW wir, NEW out, NEW n,
         Carries(q, com, inb, wir, out, n), Whole(inb) = {}
  PROVE  /\ Len(inb) < MaxCmd
         /\ com = None /\ wir = <<>> /\ out = <<>> => q = <<>>
<1> DEFINE s == inb \o wir
           k == Len(s)
           first == IF com = None THEN 0 ELSE 1
           l == Len(inb)
<1>1. /\ inb \in Seq(Signals) /\ wir \in Seq(Signals) /\ out \in Seq(Commands) /\ n \in Nat
      /\ Parses(q, first, s, out, n)
  BY DEF Carries
<1>2. PICK m \in [0..k -> 0..Len(q)], ph \in [0..k -> 0..(MaxCmd - 1)] : Parse(q, first, s, out, n, m, ph)
  BY <1>1 DEF Parses
<1>3. /\ s \in Seq(Signals) /\ k = l + Len(wir)
      /\ \A i \in 1..(l + Len(wir)) : s[i] = IF i <= l THEN inb[i] ELSE wir[i - l]
  BY <1>1, ConcatProperties
<1>4. k \in Nat /\ l \in Nat /\ Len(wir) \in Nat /\ DOMAIN inb = 1..l
  BY <1>1, <1>3, LenProperties
<1>5. l \in 0..Len(s) /\ \A i \in 1..l : i \in 1..(l + Len(wir)) /\ i <= l
  BY <1>3, <1>4
<1>6. \A i \in 1..l : s[i] = "part"
  BY <1>3, <1>4, <1>5 DEF Whole
<1>7. first \in Nat
  OBVIOUS
<1> HIDE DEF s, l, first, k
<1>8. m[l] = first /\ ph[l] = l
  BY <1>2, <1>3, <1>5, <1>6, <1>7, ParseParts
<1>9. l < MaxCmd
  <2>1. ph[l] \in 0..(MaxCmd - 1)
    BY <1>2, <1>5 DEF k
  <2> QED  BY <1>4, <1>8, <2>1, LimitsAssumption
<1>10. ASSUME com = None, wir = <<>>, out = <<>> PROVE q = <<>>
  <2>1. Len(wir) = 0 /\ Len(out) = 0
    BY <1>10
  <2>2. k = l
    BY <1>3, <1>4, <2>1
  <2>3. Len(q) = m[l] + 0
    BY <1>2, <2>1, <2>2 DEF Parse, k
  <2>4. first = 0
    BY <1>10 DEF first
  <2>5. Len(q) = 0
    BY <1>8, <2>3, <2>4
  <2> QED  BY <2>5, EmptySeq
<1> QED  BY <1>9, <1>10 DEF l

(* Nothing on its way.                                                     *)
LEMMA EmptyQueue ==
  ASSUME NEW com, NEW inb, NEW wir, NEW out, NEW n, Carries(<<>>, com, inb, wir, out, n)
  PROVE  com = None /\ inb = <<>> /\ wir = <<>> /\ out = <<>> /\ n = 0
<1> DEFINE s == inb \o wir
           k == Len(s)
           q == <<>>
<1>1. /\ inb \in Seq(Signals) /\ wir \in Seq(Signals) /\ out \in Seq(Commands) /\ n \in Nat
      /\ Parses(q, 0, s, out, n) /\ com = None
  BY DEF Carries
<1>2. q \in Seq(Commands) /\ Len(q) = 0
  BY EmptySeq
<1> HIDE DEF q
<1>3. PICK m \in [0..k -> 0..Len(q)], ph \in [0..k -> 0..(MaxCmd - 1)] : Parse(q, 0, s, out, n, m, ph)
  BY <1>1 DEF Parses
<1>4. s \in Seq(Signals) /\ k = Len(inb) + Len(wir)
  BY <1>1, ConcatProperties
<1>5. k \in Nat /\ Len(inb) \in Nat /\ Len(wir) \in Nat /\ Len(out) \in Nat
  BY <1>1, <1>4, LenProperties
<1> HIDE DEF s, k
<1>6. \A i \in 0..k : m[i] = 0
  <2>1. \A i \in 0..k : m[i] \in 0..Len(q)
    BY <1>3 DEF k
  <2> QED  BY <1>2, <2>1
<1>7. \A i \in 1..k : s[i] = "part"
  <2> SUFFICES ASSUME NEW i \in 1..k, s[i] # "part" PROVE FALSE
    OBVIOUS
  <2>1. i \in 0..k /\ i - 1 \in 0..k
    BY <1>5
  <2>2. m[i] = m[i - 1] + 1
    BY <1>3 DEF Parse, k
  <2> QED  BY <1>6, <2>1, <2>2
<1>8. out = <<>>
  <2>1. Len(q) = m[k] + Len(out)
    BY <1>3 DEF Parse, k
  <2>2. m[k] = 0
    BY <1>5, <1>6
  <2>3. Len(out) = 0
    BY <1>2, <1>5, <2>1, <2>2
  <2> QED  BY <1>1, <2>3, EmptySeq
<1>9. n = 0
  BY <1>8 DEF Carries
<1>10. k = 0
  <2>1. k \in 0..Len(s) /\ 0 \in Nat
    BY <1>5 DEF k
  <2>2. ph[k] = k
    BY SMTT(30), <1>2, <1>3, <1>4, <1>7, <2>1, ParseParts
  <2>3. ph[k] = n
    BY <1>3 DEF Parse, k
  <2> QED  BY <1>9, <2>2, <2>3
<1>11. Len(inb) = 0 /\ Len(wir) = 0
  BY <1>4, <1>5, <1>10
<1> QED  BY <1>1, <1>8, <1>9, <1>11, EmptySeq

(* What an end reads was said.                                             *)
LEMMA Carried ==
  ASSUME NEW q \in Seq(Commands), NEW com, NEW inb, NEW wir, NEW out, NEW n,
         Carries(q, com, inb, wir, out, n), NEW i \in 1..Len(inb), inb[i] # "part"
  PROVE  \E j \in DOMAIN q : q[j] = inb[i]
<1> DEFINE s == inb \o wir
           k == Len(s)
           first == IF com = None THEN 0 ELSE 1
           l == Len(inb)
<1>1. /\ inb \in Seq(Signals) /\ wir \in Seq(Signals) /\ Parses(q, first, s, out, n)
  BY DEF Carries
<1>2. PICK m \in [0..k -> 0..Len(q)], ph \in [0..k -> 0..(MaxCmd - 1)] : Parse(q, first, s, out, n, m, ph)
  BY <1>1 DEF Parses
<1>3. /\ s \in Seq(Signals) /\ k = l + Len(wir)
      /\ \A x \in 1..(l + Len(wir)) : s[x] = IF x <= l THEN inb[x] ELSE wir[x - l]
  BY <1>1, ConcatProperties
<1>4. k \in Nat /\ l \in Nat /\ Len(wir) \in Nat
  BY <1>1, <1>3, LenProperties
<1>5. i \in 1..k /\ i \in 1..(l + Len(wir)) /\ i <= l /\ i \in 0..k /\ i - 1 \in 0..k
  BY <1>3, <1>4
<1>6. s[i] = inb[i]
  BY <1>3, <1>5
<1> HIDE DEF s, l, first, k
<1>7. m[i] = m[i - 1] + 1 /\ q[m[i]] = s[i]
  BY <1>2, <1>5, <1>6 DEF Parse, k
<1>8. m[i] \in 0..Len(q) /\ m[i - 1] \in 0..Len(q)
  BY <1>2, <1>5 DEF k
<1>9. m[i] \in DOMAIN q
  <2>1. Len(q) \in Nat /\ DOMAIN q = 1..Len(q)
    BY LenProperties
  <2> QED  BY <1>7, <1>8, <2>1
<1> QED  BY <1>6, <1>7, <1>9

-----------------------------------------------------------------------------
(* Counting commands.                                                      *)

LEMMA CntConcat ==
  ASSUME NEW S, NEW s \in Seq(S), NEW t \in Seq(S), NEW k
  PROVE  Cnt(k, s) \in Nat /\ Cnt(k, t) \in Nat /\ Cnt(k, s \o t) = Cnt(k, s) + Cnt(k, t)
<1> DEFINE a == Len(s)
           b == Len(t)
           A == {i \in DOMAIN s : s[i] = k}
           B == {i \in DOMAIN t : t[i] = k}
           C == {i \in DOMAIN (s \o t) : (s \o t)[i] = k}
           f == [i \in B |-> a + i]
           D == {f[i] : i \in B}
<1>1. a \in Nat /\ b \in Nat /\ DOMAIN s = 1..a /\ DOMAIN t = 1..b
  BY LenProperties
<1>2. /\ DOMAIN (s \o t) = 1..(a + b)
      /\ \A i \in 1..(a + b) : (s \o t)[i] = IF i <= a THEN s[i] ELSE t[i - a]
  <2>1. s \o t \in Seq(S) /\ Len(s \o t) = a + b
        /\ \A i \in 1..(a + b) : (s \o t)[i] = IF i <= a THEN s[i] ELSE t[i - a]
    BY ConcatProperties
  <2> QED  BY <2>1, LenProperties
<1>3. IsFiniteSet(A) /\ IsFiniteSet(B)
  <2>1. IsFiniteSet(1..a) /\ IsFiniteSet(1..b)
    BY <1>1, FS_Interval
  <2>2. A \in SUBSET (1..a) /\ B \in SUBSET (1..b)
    BY <1>1
  <2> HIDE DEF A, B
  <2> QED  BY <2>1, <2>2, FS_Subset
<1>4. \A i \in B : i \in 1..b /\ t[i] = k
  BY <1>1
<1>5. \A i \in B : f[i] = a + i
  OBVIOUS
<1>6. IsFiniteSet(D) /\ Cardinality(D) = Cardinality(B)
  <2>1. \A x, y \in B : f[x] = f[y] => x = y
    BY <1>1, <1>4, <1>5
  <2> HIDE DEF f, B
  <2> QED  BY <1>3, <2>1, ImageFinite
<1>7. A \cap D = {}
  <2>1. \A i \in A : i \in 1..a
    BY <1>1
  <2>2. \A i \in B : ~(f[i] \in 1..a)
    BY <1>1, <1>4, <1>5
  <2> HIDE DEF A, B, f
  <2> QED  BY <2>1, <2>2
<1>8. C = A \cup D
  <2>1. ASSUME NEW i \in C PROVE i \in A \cup D
    <3>1. i \in 1..(a + b) /\ (IF i <= a THEN s[i] ELSE t[i - a]) = k
      BY <1>2
    <3>2. CASE i <= a
      BY <1>1, <3>1, <3>2
    <3>3. CASE ~(i <= a)
      <4>1. i - a \in 1..b /\ t[i - a] = k /\ a + (i - a) = i
        BY <1>1, <3>1, <3>3
      <4>2. i - a \in B
        BY <1>1, <4>1
      <4>3. f[i - a] = i
        BY <4>1, <4>2
      <4> QED  BY <4>2, <4>3
    <3> QED  BY <3>2, <3>3
  <2>2. ASSUME NEW i \in A PROVE i \in C
    <3>1. i \in 1..(a + b) /\ i <= a /\ s[i] = k
      BY <1>1
    <3> QED  BY <1>2, <3>1
  <2>3. ASSUME NEW i \in D PROVE i \in C
    <3>1. PICK j \in B : i = a + j
      BY <1>5
    <3>2. j \in 1..b /\ t[j] = k
      BY <1>4
    <3>3. i \in 1..(a + b) /\ ~(i <= a) /\ i - a = j
      BY <1>1, <3>1, <3>2
    <3> QED  BY <1>2, <3>2, <3>3
  <2> HIDE DEF A, C, D
  <2> QED  BY <2>1, <2>2, <2>3
<1> HIDE DEF A, B, C, D
<1>9. Cardinality(A) \in Nat /\ Cardinality(B) \in Nat
  BY <1>3, FS_CardinalityType
<1>10. Cardinality(C) = Cardinality(A) + Cardinality(D) - Cardinality(A \cap D)
  BY <1>3, <1>6, <1>8, FS_Union
<1>11. Cardinality(C) = Cardinality(A) + Cardinality(B)
  <2>1. Cardinality(A \cap D) = 0
    BY <1>7, FS_EmptySet
  <2> QED  BY <1>6, <1>9, <1>10, <2>1
<1> QED  BY <1>9, <1>11 DEF Cnt, A, B, C

(* A sequence all of whose elements are k, or none.                        *)
LEMMA CntAll ==
  ASSUME NEW S, NEW s \in Seq(S), NEW k
  PROVE  /\ (\A i \in 1..Len(s) : s[i] = k) => Cnt(k, s) = Len(s)
         /\ (\A i \in 1..Len(s) : s[i] # k) => Cnt(k, s) = 0
<1>1. Len(s) \in Nat /\ DOMAIN s = 1..Len(s)
  BY LenProperties
<1>2. IsFiniteSet(1..Len(s)) /\ Cardinality(1..Len(s)) = Len(s)
  <2>1. 1 \in Int /\ Len(s) \in Int /\ (IF 1 > Len(s) THEN 0 ELSE Len(s) - 1 + 1) = Len(s)
    BY <1>1
  <2> QED  BY <2>1, FS_Interval
<1>3. ASSUME \A i \in 1..Len(s) : s[i] = k PROVE Cnt(k, s) = Len(s)
  <2>1. {i \in DOMAIN s : s[i] = k} = 1..Len(s)
    BY <1>1, <1>3
  <2> QED  BY <1>2, <2>1 DEF Cnt
<1>4. ASSUME \A i \in 1..Len(s) : s[i] # k PROVE Cnt(k, s) = 0
  <2>1. {i \in DOMAIN s : s[i] = k} = {}
    BY <1>1, <1>4
  <2> QED  BY <2>1, FS_EmptySet DEF Cnt
<1> QED  BY <1>3, <1>4

LEMMA CntOne ==
  ASSUME NEW x, NEW k
  PROVE  Cnt(k, <<x>>) = (IF x = k THEN 1 ELSE 0) /\ Cnt(k, <<>>) = 0
<1>1. <<x>> \in Seq({x}) /\ Len(<<x>>) = 1 /\ <<x>>[1] = x
  OBVIOUS
<1>2. <<>> \in Seq({x}) /\ Len(<<>>) = 0
  BY EmptySeq
<1>3. Cnt(k, <<>>) = 0
  <2> DEFINE t == <<>>
  <2>1. t \in Seq({x}) /\ \A i \in 1..Len(t) : t[i] # k
    BY <1>2
  <2> HIDE DEF t
  <2>2. Cnt(k, t) = 0
    BY <2>1, CntAll
  <2> QED  BY <2>2 DEF t
<1>4. \A i \in 1..Len(<<x>>) : <<x>>[i] = x
  BY <1>1
<1>5. x = k => Cnt(k, <<x>>) = 1
  <2> DEFINE t == <<x>>
  <2>1. t \in Seq({x}) /\ Len(t) = 1 /\ \A i \in 1..Len(t) : t[i] = x
    BY <1>1, <1>4
  <2> HIDE DEF t
  <2>2. x = k => Cnt(k, t) = 1
    BY <2>1, CntAll
  <2> QED  BY <2>2 DEF t
<1>6. x # k => Cnt(k, <<x>>) = 0
  <2> DEFINE t == <<x>>
  <2>1. t \in Seq({x}) /\ Len(t) = 1 /\ \A i \in 1..Len(t) : t[i] = x
    BY <1>1, <1>4
  <2> HIDE DEF t
  <2>2. x # k => Cnt(k, t) = 0
    BY <2>1, CntAll
  <2> QED  BY <2>2 DEF t
<1> QED  BY <1>3, <1>5, <1>6

LEMMA CntTail ==
  ASSUME NEW S, NEW s \in Seq(S), s # <<>>, NEW k
  PROVE  /\ Cnt(k, Tail(s)) \in Nat
         /\ Cnt(k, s) = Cnt(k, Tail(s)) + (IF s[1] = k THEN 1 ELSE 0)
<1>1. /\ Tail(s) \in Seq(S) /\ Len(Tail(s)) = Len(s) - 1 /\ s[1] \in S
      /\ \A i \in 1..Len(Tail(s)) : Tail(s)[i] = s[i + 1]
  BY HeadTailProperties
<1>2. Len(s) \in Nat \ {0}
  BY EmptySeq
<1> DEFINE h == <<s[1]>>
           t == Tail(s)
<1>3. h \in Seq(S) /\ Len(h) = 1 /\ h[1] = s[1]
  BY <1>1
<1> HIDE DEF h, t
<1>4. /\ h \o t \in Seq(S) /\ Len(h \o t) = 1 + Len(t)
      /\ \A i \in 1..(1 + Len(t)) : (h \o t)[i] = IF i <= 1 THEN h[i] ELSE t[i - 1]
  <2>1. t \in Seq(S)
    BY <1>1 DEF t
  <2>2. /\ h \o t \in Seq(S) /\ Len(h \o t) = Len(h) + Len(t)
        /\ \A i \in 1..(Len(h) + Len(t)) : (h \o t)[i] = IF i <= Len(h) THEN h[i] ELSE t[i - Len(h)]
    BY <1>3, <2>1, ConcatProperties
  <2>3. Len(h) = 1
    BY <1>3
  <2> QED  BY <2>2, <2>3
<1>5. Len(t) = Len(s) - 1 /\ \A i \in 1..Len(t) : t[i] = s[i + 1]
  BY <1>1 DEF t
<1>6. h \o t = s
  <2>1. Len(h \o t) = Len(s)
    BY <1>2, <1>4, <1>5
  <2>2. ASSUME NEW i \in 1..Len(h \o t) PROVE (h \o t)[i] = s[i]
    <3>1. i = 1 \/ (~(i <= 1) /\ i - 1 \in 1..Len(t) /\ (i - 1) + 1 = i)
      BY <1>2, <1>4, <1>5
    <3> QED  BY <1>3, <1>4, <1>5, <3>1
  <2> QED  BY <1>4, <2>1, <2>2, SameSeq
<1>7. Cnt(k, h) \in Nat /\ Cnt(k, t) \in Nat /\ Cnt(k, h \o t) = Cnt(k, h) + Cnt(k, t)
  <2>1. t \in Seq(S)
    BY <1>1 DEF t
  <2> QED  BY <1>3, <2>1, CntConcat
<1>8. Cnt(k, h) = IF s[1] = k THEN 1 ELSE 0
  BY CntOne DEF h
<1>9. Cnt(k, t) \in Nat /\ Cnt(k, s) = Cnt(k, t) + (IF s[1] = k THEN 1 ELSE 0)
  <2>1. PICK x \in Nat, y \in Nat : x = Cnt(k, h) /\ y = Cnt(k, t)
    BY <1>7
  <2>2. Cnt(k, s) = x + y
    BY <1>6, <1>7, <2>1
  <2> QED  BY <1>8, <2>1, <2>2
<1> QED  BY <1>9 DEF t

-----------------------------------------------------------------------------
(* An end processes a command.                                             *)

(* What is queued then, with the goodbye if it is due.                     *)
LEMMA Answer ==
  ASSUME NEW rep \in Seq(Commands), NEW says \in BOOLEAN, \A i \in 1..Len(rep) : rep[i] # "bye",
         NEW r, r = rep \o (IF says THEN <<"bye">> ELSE <<>>)
  PROVE  /\ r \in Seq(Commands) /\ Cnt("ask", r) = Cnt("ask", rep) /\ Cnt("data", r) = Cnt("data", rep)
         /\ \A i \in 1..Len(r) : r[i] = "bye" => says /\ i = Len(r)
         /\ says => r # <<>> /\ r[Len(r)] = "bye"
         /\ ~says => r = rep
<1>1. CASE says
  <2> DEFINE b == <<"bye">>
  <2>1. b \in Seq(Commands) /\ Len(b) = 1 /\ b[1] = "bye"
    BY DEF Commands
  <2>2. Cnt("ask", b) = 0 /\ Cnt("data", b) = 0
    BY CntOne
  <2>3. r = rep \o b
    BY <1>1
  <2> HIDE DEF b
  <2>4. /\ rep \o b \in Seq(Commands) /\ Len(rep \o b) = Len(rep) + Len(b)
        /\ \A i \in 1..(Len(rep) + Len(b)) : (rep \o b)[i] = IF i <= Len(rep) THEN rep[i] ELSE b[i - Len(rep)]
    BY <2>1, ConcatProperties
  <2>5. PICK l \in Nat : l = Len(rep)
    BY LenProperties
  <2>6. r \in Seq(Commands) /\ Len(r) = l + 1 /\ \A i \in 1..(l + 1) : r[i] = IF i <= l THEN rep[i] ELSE b[i - l]
    BY <2>1, <2>3, <2>4, <2>5
  <2>7. r[l + 1] = "bye"
    <3>1. l + 1 \in 1..(l + 1) /\ ~(l + 1 <= l) /\ (l + 1) - l = 1
      BY <2>5
    <3> QED  BY <2>1, <2>6, <3>1
  <2>8. ASSUME NEW i \in 1..Len(r), r[i] = "bye" PROVE i = Len(r)
    <3>1. i \in 1..(l + 1) /\ (i <= l => i \in 1..Len(rep)) /\ (~(i <= l) => i = l + 1)
      BY <2>5, <2>6
    <3> QED  BY <2>6, <2>8, <3>1
  <2>9. Cnt("ask", r) = Cnt("ask", rep) /\ Cnt("data", r) = Cnt("data", rep)
    <3>1. /\ Cnt("ask", rep) \in Nat /\ Cnt("ask", rep \o b) = Cnt("ask", rep) + Cnt("ask", b)
          /\ Cnt("data", rep) \in Nat /\ Cnt("data", rep \o b) = Cnt("data", rep) + Cnt("data", b)
      BY <2>1, CntConcat
    <3>2. Cnt("ask", r) = Cnt("ask", rep) + 0 /\ Cnt("data", r) = Cnt("data", rep) + 0
      BY <2>2, <2>3, <3>1
    <3>3. PICK m \in Nat, n \in Nat : m = Cnt("ask", rep) /\ n = Cnt("data", rep)
      BY <3>1
    <3> QED  BY <3>2, <3>3
  <2>10. r # <<>>
    BY <2>5, <2>6, EmptySeq
  <2> QED  BY <1>1, <2>6, <2>7, <2>8, <2>9, <2>10
<1>2. CASE ~says
  <2>1. r = rep \o <<>>
    BY <1>2
  <2>2. r = rep
    BY <2>1, ConcatEmptySeq
  <2> QED  BY <1>2, <2>2
<1> QED  BY <1>1, <1>2

(* An end has processed the command in[1] with the reply rep, and queued r. *)
Spoken(in, out, rep, begun, other, u, v, x, y, sent, said, got, heard, x2, says, r) ==
  /\ in \in Seq(Commands) /\ in # <<>> /\ out \in Seq(Commands) /\ rep \in Seq(Commands)
  /\ begun \in BOOLEAN /\ other \in BOOLEAN /\ u \in Nat /\ v \in Nat
  /\ sent \in BOOLEAN /\ said \in BOOLEAN /\ got \in BOOLEAN /\ heard \in BOOLEAN
  /\ End(in, out, begun, u, v, x, sent, said, got)
  /\ End(out, in, other, v, u, y, said, sent, heard)
  /\ Cnt("ask", rep) = u /\ Cnt("data", rep) = IF in[1] = "ask" THEN 1 ELSE 0
  /\ \A i \in 1..Len(rep) : rep[i] # "bye"
  /\ begun /\ in[1] # "ask" => rep = <<>>
  /\ x2 = IF in[1] \in {"ask", "data"} THEN x - 1 ELSE x
  /\ says \in BOOLEAN /\ (says <=> (x2 = 0 /\ ~sent))
  /\ r = rep \o (IF says THEN <<"bye">> ELSE <<>>)

LEMMA Speak ==
  ASSUME NEW in, NEW out, NEW rep, NEW begun, NEW other, NEW u, NEW v, NEW x, NEW y,
         NEW sent, NEW said, NEW got, NEW heard, NEW x2, NEW says, NEW r,
         Spoken(in, out, rep, begun, other, u, v, x, y, sent, said, got, heard, x2, says, r)
  PROVE  /\ End(Tail(in), out \o r, TRUE, 0, v, x2, sent \/ says, said, got \/ in[1] = "bye")
         /\ End(out \o r, Tail(in), other, v, 0, y, said, sent \/ says, heard)
<1>s. /\ in \in Seq(Commands) /\ in # <<>> /\ out \in Seq(Commands) /\ rep \in Seq(Commands)
      /\ begun \in BOOLEAN /\ other \in BOOLEAN /\ u \in Nat /\ v \in Nat
      /\ sent \in BOOLEAN /\ said \in BOOLEAN /\ got \in BOOLEAN /\ heard \in BOOLEAN
  BY DEF Spoken
<1>p. /\ End(in, out, begun, u, v, x, sent, said, got)
      /\ End(out, in, other, v, u, y, said, sent, heard)
      /\ Cnt("ask", rep) = u /\ Cnt("data", rep) = (IF in[1] = "ask" THEN 1 ELSE 0)
      /\ \A i \in 1..Len(rep) : rep[i] # "bye"
      /\ begun /\ in[1] # "ask" => rep = <<>>
  BY DEF Spoken
<1>o. /\ x2 = IF in[1] \in {"ask", "data"} THEN x - 1 ELSE x
      /\ says \in BOOLEAN /\ (says <=> (x2 = 0 /\ ~sent))
      /\ r = rep \o (IF says THEN <<"bye">> ELSE <<>>)
  BY DEF Spoken
<1> SUFFICES ASSUME
         in \in Seq(Commands), out \in Seq(Commands), rep \in Seq(Commands),
         begun \in BOOLEAN, other \in BOOLEAN, u \in Nat, v \in Nat,
         sent \in BOOLEAN, said \in BOOLEAN, got \in BOOLEAN, heard \in BOOLEAN,
         End(in, out, begun, u, v, x, sent, said, got),
         End(out, in, other, v, u, y, said, sent, heard),
         in # <<>>, Cnt("ask", rep) = u, Cnt("data", rep) = IF in[1] = "ask" THEN 1 ELSE 0,
         \A i \in 1..Len(rep) : rep[i] # "bye",
         begun /\ in[1] # "ask" => rep = <<>>,
         x2 = IF in[1] \in {"ask", "data"} THEN x - 1 ELSE x,
         says \in BOOLEAN, says <=> (x2 = 0 /\ ~sent),
         r = rep \o (IF says THEN <<"bye">> ELSE <<>>)
       PROVE  /\ End(Tail(in), out \o r, TRUE, 0, v, x2, sent \/ says, said, got \/ in[1] = "bye")
              /\ End(out \o r, Tail(in), other, v, 0, y, said, sent \/ says, heard)
  BY <1>s, <1>p, <1>o
<1>1. /\ r \in Seq(Commands) /\ Cnt("ask", r) = u /\ Cnt("data", r) = (IF in[1] = "ask" THEN 1 ELSE 0)
      /\ \A i \in 1..Len(r) : r[i] = "bye" => says /\ i = Len(r)
      /\ says => r # <<>> /\ r[Len(r)] = "bye"
      /\ ~says => r = rep
  BY Answer
<1> DEFINE it == Tail(in)
           or == out \o r
<1>2. /\ it \in Seq(Commands) /\ Len(it) = Len(in) - 1 /\ Len(in) \in Nat \ {0}
      /\ \A i \in 1..Len(it) : it[i] = in[i + 1]
  BY HeadTailProperties, EmptySeq
<1>3. /\ or \in Seq(Commands) /\ Len(or) = Len(out) + Len(r) /\ Len(out) \in Nat /\ Len(r) \in Nat
      /\ \A i \in 1..(Len(out) + Len(r)) : or[i] = IF i <= Len(out) THEN out[i] ELSE r[i - Len(out)]
  BY <1>1, ConcatProperties, LenProperties
<1>4. PICK a \in Nat, d \in Nat, ao \in Nat, do \in Nat :
        /\ a = Cnt("ask", it) /\ d = Cnt("data", it) /\ ao = Cnt("ask", out) /\ do = Cnt("data", out)
        /\ Cnt("ask", in) = a + (IF in[1] = "ask" THEN 1 ELSE 0)
        /\ Cnt("data", in) = d + (IF in[1] = "data" THEN 1 ELSE 0)
        /\ Cnt("ask", or) = ao + u
        /\ Cnt("data", or) = do + (IF in[1] = "ask" THEN 1 ELSE 0)
  <2>1. /\ Cnt("ask", it) \in Nat /\ Cnt("ask", in) = Cnt("ask", it) + (IF in[1] = "ask" THEN 1 ELSE 0)
        /\ Cnt("data", it) \in Nat /\ Cnt("data", in) = Cnt("data", it) + (IF in[1] = "data" THEN 1 ELSE 0)
    BY CntTail
  <2>2. Cnt("ask", out) \in Nat /\ Cnt("ask", or) = Cnt("ask", out) + Cnt("ask", r)
    <3>1. out \in Seq(Commands) /\ r \in Seq(Commands)
      BY <1>1
    <3> QED  BY <3>1, CntConcat
  <2>3. Cnt("data", out) \in Nat /\ Cnt("data", or) = Cnt("data", out) + Cnt("data", r)
    <3>1. out \in Seq(Commands) /\ r \in Seq(Commands)
      BY <1>1
    <3> QED  BY <3>1, CntConcat
  <2> HIDE DEF it, or
  <2> QED  BY <1>1, <2>1, <2>2, <2>3
<1>i. PICK ia \in {0, 1}, id \in {0, 1} :
        ia = (IF in[1] = "ask" THEN 1 ELSE 0) /\ id = (IF in[1] = "data" THEN 1 ELSE 0)
  OBVIOUS
<1>5. /\ x = (a + ia) + (d + id) + ao + u + v
      /\ y = ao + do + (a + ia) + v + u
  <2>1. /\ x = Cnt("ask", in) + Cnt("data", in) + Cnt("ask", out) + u + v
        /\ y = Cnt("ask", out) + Cnt("data", out) + Cnt("ask", in) + v + u
    BY DEF End
  <2>2. Cnt("ask", in) = a + ia /\ Cnt("data", in) = d + id
    BY <1>4, <1>i
  <2> QED  BY <1>4, <2>1, <2>2
<1>6. /\ sent <=> begun /\ x = 0
      /\ said <=> other /\ y = 0
      /\ ByeWay(in, said, got) /\ ByeWay(out, sent, heard)
  BY DEF End
<1>7. DOMAIN in = 1..Len(in) /\ DOMAIN it = 1..Len(it) /\ DOMAIN out = 1..Len(out) /\ DOMAIN or = 1..Len(or)
  BY <1>2, <1>3, LenProperties
<1> HIDE DEF it, or
<1>t. a \in Nat /\ d \in Nat /\ ao \in Nat /\ do \in Nat /\ ia \in {0, 1} /\ id \in {0, 1}
      /\ u \in Nat /\ v \in Nat
  BY <1>s, <1>4, <1>i
<1>8. /\ x2 = Cnt("ask", it) + Cnt("data", it) + Cnt("ask", or) + 0 + v
      /\ y = Cnt("ask", or) + Cnt("data", or) + Cnt("ask", it) + v + 0
      /\ x2 = x - (ia + id) /\ x \in Nat
  <2>1. x \in Nat
    <3>1. (a + ia) \in Nat /\ (d + id) \in Nat
      BY <1>t
    <3>2. (a + ia) + (d + id) + ao + u + v \in Nat
      BY <1>t, <3>1
    <3> QED  BY <1>5, <3>2
  <2>2. ia + id = IF in[1] \in {"ask", "data"} THEN 1 ELSE 0
    BY <1>i
  <2>3. x2 = x - (ia + id)
    BY <2>1, <2>2
  <2>4. Cnt("ask", or) = ao + u /\ Cnt("data", or) = do + ia
    BY <1>4, <1>i
  <2>5. ia \in Nat /\ id \in Nat
    BY <1>t
  <2>6. x2 = a + d + (ao + u) + 0 + v
    <3>1. x = (a + ia) + (d + id) + ao + u + v
      BY <1>5
    <3> QED  BY <1>t, <2>3, <2>5, <3>1
  <2>7. y = (ao + u) + (do + ia) + a + v + 0
    <3>1. y = ao + do + (a + ia) + v + u
      BY <1>5
    <3> QED  BY <1>t, <2>5, <3>1
  <2> QED  BY <1>4, <2>1, <2>3, <2>4, <2>6, <2>7
<1>9. sent => begun /\ in[1] \notin {"ask", "data"} /\ x2 = 0 /\ ~says
  <2> SUFFICES ASSUME sent PROVE begun /\ in[1] \notin {"ask", "data"} /\ x2 = 0 /\ ~says
    OBVIOUS
  <2>1. begun /\ x = 0
    BY <1>6, Zenon
  <2>2. ia = 0 /\ id = 0
    BY <1>5, <1>t, <2>1
  <2>3. x2 = 0 /\ in[1] \notin {"ask", "data"}
    BY <1>8, <1>i, <2>1, <2>2
  <2> QED  BY <2>1, <2>3, Zenon
<1>10. sent \/ says <=> TRUE /\ x2 = 0
  BY <1>9, Zenon
<1>11. ByeWay(it, said, got \/ in[1] = "bye")
  <2>1. \A i \in 1..Len(in) : in[i] = "bye" => i = Len(in) /\ said
    BY <1>6, <1>7 DEF ByeWay
  <2>2. ASSUME NEW i \in 1..Len(it), it[i] = "bye" PROVE i = Len(it) /\ said
    <3>1. i + 1 \in 1..Len(in) /\ in[i + 1] = "bye"
      BY <1>2, <2>2
    <3>2. i + 1 = Len(in) /\ said
      BY <2>1, <3>1
    <3> QED  BY <1>2, <3>2
  <2>3. 1 \in 1..Len(in)
    BY <1>2
  <2>4. ~got
    BY <1>6 DEF ByeWay
  <2>5. said => in[Len(in)] = "bye"
    BY <1>6, <2>4 DEF ByeWay
  <2>6. in[1] = "bye" => said /\ it = <<>>
    <3> SUFFICES ASSUME in[1] = "bye" PROVE said /\ it = <<>>
      OBVIOUS
    <3>1. Len(in) = 1 /\ said
      BY <2>1, <2>3
    <3>2. Len(it) = 0
      BY <1>2, <3>1
    <3> QED  BY <1>2, <3>1, <3>2, EmptySeq
  <2>7. said => in[1] = "bye" \/ (it # <<>> /\ it[Len(it)] = "bye")
    <3> SUFFICES ASSUME said, in[1] # "bye" PROVE it # <<>> /\ it[Len(it)] = "bye"
      OBVIOUS
    <3>1. Len(in) # 1
      BY <2>5
    <3>2. Len(it) \in 1..Len(it) /\ Len(it) + 1 = Len(in) /\ Len(it) # 0
      BY <1>2, <3>1
    <3> QED  BY <1>2, <2>5, <3>2, EmptySeq
  <2> QED  BY <1>7, <2>2, <2>4, <2>6, <2>7, Zenon DEF ByeWay
<1>12. ByeWay(or, sent \/ says, heard)
  <2>1. CASE sent
    <3>1. rep = <<>> /\ r = rep
      BY <1>1, <1>9, <2>1, Zenon
    <3>2. or = out
      BY <3>1, ConcatEmptySeq DEF or
    <3>3. (sent \/ says) = sent
      BY <2>1, <1>9
    <3>4. ByeWay(out, sent, heard)
      BY <1>6
    <3> QED  BY <3>2, <3>3, <3>4
  <2>2. CASE ~sent
    <3>1. ~heard /\ \A i \in 1..Len(out) : out[i] # "bye"
      BY <1>6, <1>7, <2>2, Zenon DEF ByeWay
    <3>2. ASSUME NEW i \in 1..Len(or), or[i] = "bye" PROVE i = Len(or) /\ says
      <4>1. i \in 1..(Len(out) + Len(r)) /\ (i <= Len(out) => i \in 1..Len(out))
            /\ (~(i <= Len(out)) => i - Len(out) \in 1..Len(r))
        BY <1>3
      <4>2. ~(i <= Len(out)) /\ r[i - Len(out)] = "bye"
        BY <1>3, <3>1, <3>2, <4>1
      <4>3. says /\ i - Len(out) = Len(r)
        BY <1>1, <4>1, <4>2
      <4> QED  BY <1>3, <4>1, <4>3
    <3>3. says => or # <<>> /\ or[Len(or)] = "bye"
      <4> SUFFICES ASSUME says PROVE or # <<>> /\ or[Len(or)] = "bye"
        OBVIOUS
      <4>1. r # <<>> /\ r[Len(r)] = "bye"
        BY <1>1
      <4>2. Len(r) # 0
        BY <1>1, <4>1, EmptySeq
      <4>3. Len(or) \in 1..(Len(out) + Len(r)) /\ ~(Len(or) <= Len(out)) /\ Len(or) - Len(out) = Len(r) /\ Len(or) # 0
        BY <1>3, <4>2
      <4> QED  BY <1>3, <4>1, <4>3, EmptySeq
    <3> QED  BY <1>7, <2>2, <3>1, <3>2, <3>3, Zenon DEF ByeWay
  <2> QED  BY <2>1, <2>2
<1>13. End(it, or, TRUE, 0, v, x2, sent \/ says, said, got \/ in[1] = "bye")
  <2>1. x2 = Cnt("ask", it) + Cnt("data", it) + Cnt("ask", or) + 0 + v
    BY <1>8
  <2> QED  BY <1>10, <1>11, <2>1, Zenon DEF End
<1>14. End(or, it, other, v, 0, y, said, sent \/ says, heard)
  <2>1. y = Cnt("ask", or) + Cnt("data", or) + Cnt("ask", it) + v + 0
    BY <1>8
  <2> QED  BY <1>6, <1>12, <2>1, Zenon DEF End
<1> QED  BY <1>13, <1>14 DEF it, or

-----------------------------------------------------------------------------
(* The ends of a connection.                                               *)

LEMMA EndsOf ==
  ASSUME NEW c \in Clients
  PROVE  /\ AtClient(c) \in Endpoints /\ AtServer(c) \in Endpoints /\ AtClient(c) # AtServer(c)
         /\ Peer(AtClient(c)) = AtServer(c) /\ Peer(AtServer(c)) = AtClient(c)
         /\ AtClient(c)[1] = c /\ AtServer(c)[1] = c /\ AtClient(c)[2] = "client" /\ AtServer(c)[2] = "server"
         /\ \A e \in Both(c) : e = AtClient(c) \/ e = AtServer(c)
         /\ \A e \in Both(c) : e \in Endpoints /\ Peer(e) \in Both(c) /\ Peer(e) # e /\ Peer(Peer(e)) = e /\ e[1] = c
  BY DEF AtClient, AtServer, Endpoints, Sides, Peer, Both

LEMMA OtherEnds ==
  ASSUME NEW c, NEW d, c # d
  PROVE  \A e \in Both(c), f \in Both(d) : e # f
  BY DEF AtClient, AtServer, Both

(* Nothing happens at an end but to what is on its way there.              *)
SameTalk(e) == expected'[e] = expected[e] /\ sentBye'[e] = sentBye[e] /\ gotBye'[e] = gotBye[e]

Same(e) ==
  /\ inbuf'[e] = inbuf[e] /\ outbuf'[e] = outbuf[e] /\ written'[e] = written[e] /\ cmd'[e] = cmd[e]
  /\ SameTalk(e)

LEMMA WayStays ==
  ASSUME NEW e, NEW q, Way(e, q), Same(e), Same(Peer(e)), wire'[e] = wire[e]
  PROVE  Way(e, q)'
  BY DEF Way, Same

LEMMA ProtocolStays ==
  ASSUME NEW c \in Clients, NEW a, NEW b, Protocol(c, a, b), config' = config,
         SameTalk(AtClient(c)), SameTalk(AtServer(c))
  PROVE  Protocol(c, a, b)'
<1>1. (Shape(a, b) /\ Decent(c, a) /\ Decent(c, b))'
  BY DEF Protocol, Shape, Plain, Decent
<1>2. ClientEnd(c, a, b)'
  BY DEF Protocol, SameTalk, ClientEnd, Unasked, Plain
<1>3. ServerEnd(c, a, b)'
  BY DEF Protocol, SameTalk, ServerEnd, Unasked, Plain
<1> QED  BY <1>1, <1>2, <1>3 DEF Protocol

-----------------------------------------------------------------------------
(* An end arms, reads and writes.                                          *)

(* arm(), whether it takes a command or not.                               *)
LEMMA Arming ==
  ASSUME NEW e, NEW buf, NEW q \in Seq(Commands), NEW wir, NEW out, NEW n,
         Carries(q, cmd[e], buf, wir, out, n)
  PROVE  /\ Carries(q, CmdAfter(e, buf), RestAfter(e, buf), wir, out, n)
         /\ CmdAfter(e, buf) = None => ~Arms(e, buf)
         /\ ~Arms(e, buf) => CmdAfter(e, buf) = cmd[e] /\ RestAfter(e, buf) = buf
<1>1. CASE Arms(e, buf)
  <2>1. cmd[e] = None /\ Whole(buf) # {}
    BY <1>1 DEF Arms, CanArm
  <2>2. /\ buf[FirstWhole(buf)] \in Commands
        /\ Carries(q, buf[FirstWhole(buf)], SubSeq(buf, FirstWhole(buf) + 1, Len(buf)), wir, out, n)
    BY <2>1, CarriesArm
  <2> QED  BY <1>1, <2>2, NoneIsNone DEF CmdAfter, RestAfter
<1>2. CASE ~Arms(e, buf)
  <2>1. CmdAfter(e, buf) = cmd[e] /\ RestAfter(e, buf) = buf
    BY <1>2 DEF CmdAfter, RestAfter
  <2> QED  BY <1>2, <2>1
<1> QED  BY <1>1, <1>2

(* read_some() and the arm() after it.                                     *)
LEMMA Reading ==
  ASSUME NEW e, NEW q \in Seq(Commands), NEW out, NEW n,
         Carries(q, cmd[e], inbuf[e], wire[e], out, n)
  PROVE  LET r == ReadCount(e)
         IN  Carries(q, cmd[e], inbuf[e] \o SubSeq(wire[e], 1, r), SubSeq(wire[e], r + 1, Len(wire[e])), out, n)
<1> DEFINE r == ReadCount(e)
           T == {Chunk, Len(wire[e])}
<1>1. wire[e] \in Seq(Signals)
  BY DEF Carries
<1>2. Len(wire[e]) \in Nat /\ Chunk \in Nat
  BY <1>1, LenProperties, LimitsAssumption
<1>3. T \in SUBSET Nat /\ T # {}
  BY <1>2
<1>4. Least(T) \in T /\ \A y \in T : Least(T) <= y
  <2> HIDE DEF T
  <2> QED  BY <1>3, LeastOf
<1>5. r \in 0..Len(wire[e])
  BY <1>2, <1>4 DEF ReadCount
<1> HIDE DEF r
<1>6. Carries(q, cmd[e], inbuf[e] \o SubSeq(wire[e], 1, r), SubSeq(wire[e], r + 1, Len(wire[e])), out, n)
  BY <1>5, CarriesRead
<1> QED  BY <1>6 DEF r

(* write_some().                                                           *)
LEMMA Writing ==
  ASSUME NEW e, NEW q \in Seq(Commands), NEW com, NEW inb,
         Carries(q, com, inb, wire[Peer(e)], outbuf[e], written[e]),
         WriteReady(e), ~Gone(Peer(e))
  PROVE  /\ Carries(q, com, inb, wire[Peer(e)] \o Output(e),
                    IF WritesAll(e) THEN Tail(outbuf[e]) ELSE outbuf[e],
                    IF WritesAll(e) THEN 0 ELSE written[e] + Len(Output(e)))
<1> DEFINE L == Len(Units(Head(outbuf[e])))
           n == written[e]
           j == Len(wire[Peer(e)])
           w == WriteCount(e)
           T == {Chunk, L - n, WireSize - j}
<1>1. outbuf[e] # <<>> /\ j < WireSize
  BY DEF WriteReady, WantsWrite
<1>2. n \in Nat /\ n < L /\ outbuf[e] \in Seq(Commands) /\ wire[Peer(e)] \in Seq(Signals)
  BY <1>1 DEF Carries
<1>3. Head(outbuf[e]) \in Commands
  BY <1>1, <1>2, HeadTailProperties
<1>4. /\ Units(Head(outbuf[e])) \in Seq(Signals) /\ L \in Nat /\ j \in Nat /\ WireSize \in Nat
      /\ Chunk \in Nat
  BY <1>2, <1>3, UnitsOf, LenProperties, LimitsAssumption
<1>5. T \in SUBSET Nat /\ T # {}
  BY <1>1, <1>2, <1>4
<1>6. Least(T) \in T /\ \A y \in T : Least(T) <= y
  <2> HIDE DEF T
  <2> QED  BY <1>5, LeastOf
<1>7. w \in Nat /\ n + w <= L
  <2>1. w = Least(T)
    BY DEF WriteCount
  <2>2. w \in Nat
    BY <1>5, <1>6, <2>1
  <2>3. w <= L - n
    BY <1>6, <2>1
  <2> QED  BY <1>2, <1>4, <2>2, <2>3
<1> HIDE DEF w
<1>8. Carries(q, com, inb, wire[Peer(e)] \o SubSeq(Units(Head(outbuf[e])), n + 1, n + w),
              IF n + w = L THEN Tail(outbuf[e]) ELSE outbuf[e], IF n + w = L THEN 0 ELSE n + w)
  <2> HIDE DEF L
  <2>1. L = Len(Units(Head(outbuf[e])))
    BY DEF L
  <2> QED  BY <1>1, <1>7, <2>1, CarriesWrite
<1>9. Output(e) = SubSeq(Units(Head(outbuf[e])), n + 1, n + w) /\ (WritesAll(e) <=> n + w = L)
  BY DEF Output, WritesAll, w
<1>10. Len(Output(e)) = w
  <2> DEFINE u == Units(Head(outbuf[e]))
  <2>1. u \in Seq(Signals) /\ n + w <= Len(u)
    BY <1>4, <1>7
  <2> HIDE DEF u
  <2>2. n \in Nat /\ w \in Nat
    BY <1>2, <1>7
  <2>3. Len(SubSeq(u, n + 1, n + w)) = w
    BY SMTT(30), <2>1, <2>2, PieceOf
  <2> QED  BY <1>9, <2>3 DEF u
<1> QED  BY <1>8, <1>9, <1>10

(* A round of input and output at e, in both of its directions.            *)
LEMMA ReadWriteWays ==
  ASSUME TalkInv, NEW c \in Clients, NEW e \in Both(c), ReadWrite(e), ~IoFails(e),
         NEW a \in Seq(Commands), NEW b \in Seq(Commands), Way(e, a), Way(Peer(e), b)
  PROVE  Way(e, a)' /\ Way(Peer(e), b)'
<1> DEFINE p == Peer(e)
<1>1. e \in Endpoints /\ p \in Endpoints /\ p # e /\ Peer(p) = e
  BY EndsOf
<1>2. /\ DOMAIN inbuf = Endpoints /\ DOMAIN outbuf = Endpoints /\ DOMAIN written = Endpoints
      /\ DOMAIN cmd = Endpoints /\ DOMAIN wire = Endpoints
  BY DEF TalkInv, Domains
<1>3. /\ wire'[e] = IF ReadReady(e) THEN SubSeq(wire[e], ReadCount(e) + 1, Len(wire[e])) ELSE wire[e]
      /\ wire'[p] = wire[p] \o Output(e)
      /\ inbuf'[e] = (IF ReadReady(e) THEN RestAfter(e, Input(e)) ELSE inbuf[e]) /\ inbuf'[p] = inbuf[p]
      /\ cmd'[e] = (IF ReadReady(e) THEN CmdAfter(e, Input(e)) ELSE cmd[e]) /\ cmd'[p] = cmd[p]
  BY <1>1, <1>2 DEF ReadWrite
<1>4. /\ outbuf'[e] = (IF WritesAll(e) THEN Tail(outbuf[e]) ELSE outbuf[e]) /\ outbuf'[p] = outbuf[p]
      /\ written'[e] = (IF WritesAll(e) THEN 0 ELSE written[e] + Len(Output(e))) /\ written'[p] = written[p]
  BY <1>1, <1>2 DEF ReadWrite
<1>5. Carries(a, cmd[e], inbuf[e], wire[e], outbuf[p], written[p])
  BY DEF Way
<1>6. Carries(b, cmd[p], inbuf[p], wire[p], outbuf[e], written[e])
  BY <1>1 DEF Way
<1> HIDE DEF p
<1>7. Carries(a, cmd'[e], inbuf'[e], wire'[e], outbuf[p], written[p])
  <2>1. CASE ReadReady(e)
    <3>1. Carries(a, cmd[e], Input(e), SubSeq(wire[e], ReadCount(e) + 1, Len(wire[e])), outbuf[p], written[p])
      BY <1>5, <2>1, Reading DEF Input
    <3>2. Carries(a, CmdAfter(e, Input(e)), RestAfter(e, Input(e)),
                  SubSeq(wire[e], ReadCount(e) + 1, Len(wire[e])), outbuf[p], written[p])
      BY <3>1, Arming
    <3> QED  BY <1>3, <2>1, <3>2
  <2>2. CASE ~ReadReady(e)
    BY <1>3, <1>5, <2>2
  <2> QED  BY <2>1, <2>2
<1>8. Carries(b, cmd[p], inbuf[p], wire'[p], outbuf'[e], written'[e])
  <2>1. CASE WriteReady(e)
    <3>1. ~Gone(p)
      BY <2>1 DEF IoFails, WriteReady, p
    <3>2. Carries(b, cmd[p], inbuf[p], wire[p] \o Output(e),
                    IF WritesAll(e) THEN Tail(outbuf[e]) ELSE outbuf[e],
                    IF WritesAll(e) THEN 0 ELSE written[e] + Len(Output(e)))
      BY <1>6, <2>1, <3>1, Writing DEF p
    <3> QED  BY <1>3, <1>4, <3>2
  <2>2. CASE ~WriteReady(e)
    <3>1. Output(e) = <<>> /\ ~WritesAll(e)
      BY <2>2 DEF Output, WritesAll
    <3>2. wire[p] \in Seq(Signals) /\ written[e] \in Nat
      BY <1>6 DEF Carries
    <3>3. wire'[p] = wire[p] /\ outbuf'[e] = outbuf[e] /\ written'[e] = written[e]
      BY <1>3, <1>4, <3>1, <3>2, ConcatEmptySeq, EmptySeq
    <3> QED  BY <1>6, <3>3
  <2> QED  BY <2>1, <2>2
<1>9. Carries(a, cmd'[e], inbuf'[e], wire'[e], outbuf'[p], written'[p])
      /\ Carries(b, cmd'[p], inbuf'[p], wire'[p], outbuf'[e], written'[e])
  BY <1>3, <1>4, <1>7, <1>8
<1>10. Way(e, a)'
  BY <1>9 DEF Way, p
<1>11. Way(p, b)'
  BY <1>1, <1>9 DEF Way
<1> QED  BY <1>10, <1>11 DEF p

-----------------------------------------------------------------------------
(* An end processes what it is armed with.                                 *)

LEMMA ElemsOne ==
  ASSUME NEW x
  PROVE  Elems(<<x>>) = {x} /\ Elems(<<>>) = {}
  BY DEF Elems

LEMMA PlainElems ==
  ASSUME NEW s
  PROVE  Plain(s) <=> "hello" \notin Elems(s) /\ "auth" \notin Elems(s)
  BY DEF Plain, Elems

LEMMA DecentElems ==
  ASSUME NEW c, NEW s
  PROVE  Decent(c, s) <=> (config.kind[c] # "garbled" => "bad" \notin Elems(s))
  BY DEF Decent, Elems

LEMMA AsksOf ==
  ASSUME config \in Configs, NEW side \in Sides
  PROVE  /\ config.asks[side] \in Nat /\ Asks(side) \in Seq(Commands)
         /\ Cnt("ask", Asks(side)) = config.asks[side] /\ Cnt("data", Asks(side)) = 0
         /\ Elems(Asks(side)) \subseteq {"ask"}
<1> DEFINE n == config.asks[side]
           t == Asks(side)
<1>1. n \in Nat
  BY ConfigsTyped
<1>2. t = [i \in 1..n |-> "ask"]
  BY DEF Asks
<1> HIDE DEF n
<1>3. t \in [1..n -> Commands] /\ \A i \in 1..n : t[i] = "ask"
  BY <1>2 DEF Commands
<1>4. t \in Seq(Commands) /\ Len(t) = n /\ DOMAIN t = 1..n
  BY <1>1, <1>2, <1>3, SeqDef, LenProperties
<1> HIDE DEF t
<1>5. (\A i \in 1..Len(t) : t[i] = "ask") /\ (\A i \in 1..Len(t) : t[i] # "data")
  BY <1>3, <1>4
<1>6. Cnt("ask", t) = n /\ Cnt("data", t) = 0
  BY <1>4, <1>5, CntAll
<1>7. Elems(t) \subseteq {"ask"}
  BY <1>3, <1>4 DEF Elems
<1> QED  BY <1>1, <1>4, <1>6, <1>7 DEF n, t

(* Replies to what is neither the greeting nor the authentication.         *)
LEMMA PlainReply ==
  ASSUME NEW e, cmd[e] \in Commands \ {"hello", "auth"}
  PROVE  /\ Reply(e) \in Seq(Commands) /\ Cnt("ask", Reply(e)) = 0
         /\ Cnt("data", Reply(e)) = IF cmd[e] = "ask" THEN 1 ELSE 0
         /\ Elems(Reply(e)) \subseteq {"data"}
         /\ cmd[e] # "ask" => Reply(e) = <<>>
<1>1. CASE cmd[e] = "ask"
  <2>1. Reply(e) = <<"data">>
    BY <1>1 DEF Reply
  <2>2. <<"data">> \in Seq(Commands)
    BY DEF Commands
  <2>3. Cnt("ask", <<"data">>) = 0 /\ Cnt("data", <<"data">>) = 1
    BY CntOne
  <2>4. Elems(<<"data">>) = {"data"}
    BY ElemsOne
  <2> QED  BY <1>1, <2>1, <2>2, <2>3, <2>4
<1>2. CASE cmd[e] # "ask"
  <2>1. Reply(e) = <<>>
    BY <1>2 DEF Reply, Commands
  <2>2. <<>> \in Seq(Commands)
    OBVIOUS
  <2>3. Cnt("ask", <<>>) = 0 /\ Cnt("data", <<>>) = 0
    BY CntOne
  <2>4. Elems(<<>>) = {}
    BY ElemsOne
  <2> QED  BY <1>2, <2>1, <2>2, <2>3, <2>4
<1> QED  BY <1>1, <1>2

LEMMA AuthReply ==
  ASSUME config \in Configs, NEW e, cmd[e] = "auth"
  PROVE  /\ Reply(e) \in Seq(Commands) /\ Cnt("ask", Reply(e)) = config.asks["server"]
         /\ Cnt("data", Reply(e)) = 0 /\ Elems(Reply(e)) \subseteq {"ask"}
<1>1. Reply(e) = Asks("server")
  BY DEF Reply
<1>2. "server" \in Sides
  BY DEF Sides
<1> QED  BY <1>1, <1>2, AsksOf

LEMMA HelloReply ==
  ASSUME config \in Configs, NEW e, cmd[e] = "hello"
  PROVE  /\ Reply(e) \in Seq(Commands) /\ Cnt("ask", Reply(e)) = config.asks["client"]
         /\ Cnt("data", Reply(e)) = 0 /\ Reply(e) # <<>> /\ Head(Reply(e)) = "auth"
         /\ Elems(Tail(Reply(e))) \subseteq {"ask", "bad"}
         /\ Elems(Reply(e)) \subseteq {"auth", "ask", "bad"}
         /\ "bad" \in Elems(Reply(e)) => config.kind[e[1]] = "garbled"
<1> DEFINE h == <<"auth">>
           t == Asks("client")
           b == IF config.kind[e[1]] = "garbled" THEN <<"bad">> ELSE <<>>
<1>1. Reply(e) = (h \o t) \o b
  BY DEF Reply
<1>2. /\ config.asks["client"] \in Nat /\ t \in Seq(Commands)
      /\ Cnt("ask", t) = config.asks["client"] /\ Cnt("data", t) = 0
      /\ Elems(t) \subseteq {"ask"}
  <2>1. "client" \in Sides
    BY DEF Sides
  <2> QED  BY <2>1, AsksOf
<1>3. /\ h \in Seq(Commands) /\ h # <<>> /\ Head(h) = "auth" /\ Tail(h) = <<>>
  <2>1. h \in Seq(Commands) /\ Len(h) = 1 /\ h # <<>> /\ Head(h) = "auth"
    BY DEF Commands
  <2>2. Tail(h) \in Seq(Commands) /\ Len(Tail(h)) = 0
    <3> HIDE DEF h
    <3> QED  BY <2>1, HeadTailProperties
  <2> QED  BY <2>1, <2>2, EmptySeq
<1>4. Cnt("ask", h) = 0 /\ Cnt("data", h) = 0 /\ Elems(h) = {"auth"}
  BY CntOne, ElemsOne
<1>5. /\ b \in Seq(Commands) /\ Cnt("ask", b) = 0 /\ Cnt("data", b) = 0
      /\ Elems(b) \subseteq {"bad"} /\ ("bad" \in Elems(b) => config.kind[e[1]] = "garbled")
  <2>1. <<"bad">> \in Seq(Commands) /\ <<>> \in Seq(Commands)
    BY DEF Commands
  <2>2. /\ Cnt("ask", <<"bad">>) = 0 /\ Cnt("data", <<"bad">>) = 0
        /\ Cnt("ask", <<>>) = 0 /\ Cnt("data", <<>>) = 0
    BY CntOne
  <2>3. Elems(<<"bad">>) = {"bad"} /\ Elems(<<>>) = {}
    BY ElemsOne
  <2> QED  BY <2>1, <2>2, <2>3
<1> HIDE DEF h, t, b
<1>6. /\ h \o t \in Seq(Commands) /\ Elems(h \o t) = Elems(h) \cup Elems(t)
      /\ h \o t # <<>> /\ Head(h \o t) = "auth" /\ Tail(h \o t) = t
  <2>1. h \o t \in Seq(Commands) /\ Elems(h \o t) = Elems(h) \cup Elems(t)
    BY <1>2, <1>3, ElemsConcat
  <2>2. h \o t # <<>> /\ Head(h \o t) = Head(h) /\ Tail(h \o t) = Tail(h) \o t
    BY <1>2, <1>3, TailConcat
  <2>3. <<>> \o t = t
    BY <1>2, ConcatEmptySeq
  <2> QED  BY <1>3, <2>1, <2>2, <2>3
<1>7. Cnt("ask", h \o t) = config.asks["client"] /\ Cnt("data", h \o t) = 0
  <2>1. /\ Cnt("ask", h \o t) = Cnt("ask", h) + Cnt("ask", t)
        /\ Cnt("data", h \o t) = Cnt("data", h) + Cnt("data", t)
    BY <1>2, <1>3, CntConcat
  <2> QED  BY <1>2, <1>4, <2>1
<1> DEFINE g == h \o t
<1>8. g \in Seq(Commands) /\ g # <<>>
  BY <1>6
<1> HIDE DEF g
<1>9. /\ g \o b \in Seq(Commands) /\ Elems(g \o b) = Elems(g) \cup Elems(b)
      /\ g \o b # <<>> /\ Head(g \o b) = Head(g) /\ Tail(g \o b) = Tail(g) \o b
  <2>1. g \o b \in Seq(Commands) /\ Elems(g \o b) = Elems(g) \cup Elems(b)
    BY <1>5, <1>8, ElemsConcat
  <2>2. g \o b # <<>> /\ Head(g \o b) = Head(g) /\ Tail(g \o b) = Tail(g) \o b
    BY <1>5, <1>8, TailConcat
  <2> QED  BY <2>1, <2>2
<1>10. Cnt("ask", g \o b) = config.asks["client"] /\ Cnt("data", g \o b) = 0
  <2>1. /\ Cnt("ask", g \o b) = Cnt("ask", g) + Cnt("ask", b)
        /\ Cnt("data", g \o b) = Cnt("data", g) + Cnt("data", b)
    BY <1>5, <1>8, CntConcat
  <2> QED  BY <1>2, <1>5, <1>7, <2>1 DEF g
<1>11. Elems(t \o b) = Elems(t) \cup Elems(b)
  BY <1>2, <1>5, ElemsConcat
<1>12. Reply(e) = g \o b /\ Tail(g) = t /\ Head(g) = "auth" /\ Elems(g) = {"auth"} \cup Elems(t)
  BY <1>1, <1>4, <1>6 DEF g
<1>13. Elems(Tail(Reply(e))) = Elems(t) \cup Elems(b) /\ Elems(Reply(e)) = {"auth"} \cup Elems(t) \cup Elems(b)
  BY <1>9, <1>11, <1>12
<1> QED  BY <1>2, <1>5, <1>9, <1>10, <1>12, <1>13

(* An end processes its command: what Process does at it.                  *)
Bye(e) == IF SaysBye(e) THEN <<"bye">> ELSE <<>>

Speaks(e) ==
  /\ cmd[e] # None /\ cmd'[e] = None
  /\ outbuf'[e] = (outbuf[e] \o Reply(e)) \o Bye(e)
  /\ expected'[e] = ExpectedAfter(e)
  /\ sentBye'[e] = (sentBye[e] \/ SaysBye(e))
  /\ gotBye'[e] = (gotBye[e] \/ cmd[e] = "bye")
  /\ inbuf'[e] = inbuf[e] /\ written'[e] = written[e]

(* The two directions of e: the command leaves the one, and the reply and  *)
(* the goodbye join the other.                                             *)
LEMMA SpeaksWays ==
  ASSUME NEW c \in Clients, NEW e \in Both(c), Speaks(e), Same(Peer(e)),
         wire'[e] = wire[e], wire'[Peer(e)] = wire[Peer(e)],
         NEW a \in Seq(Commands), NEW b \in Seq(Commands), Way(e, a), Way(Peer(e), b),
         Reply(e) \in Seq(Commands), NEW r, r = Reply(e) \o Bye(e)
  PROVE  /\ a # <<>> /\ a[1] = cmd[e] /\ cmd[e] \in Commands
         /\ Tail(a) \in Seq(Commands) /\ b \o r \in Seq(Commands)
         /\ Way(e, Tail(a))' /\ Way(Peer(e), b \o r)'
<1> DEFINE p == Peer(e)
<1>1. p # e /\ Peer(p) = e
  BY EndsOf
<1>2. Bye(e) \in Seq(Commands)
  <2>1. <<"bye">> \in Seq(Commands) /\ <<>> \in Seq(Commands)
    BY DEF Commands
  <2> QED  BY <2>1 DEF Bye
<1>3. Carries(a, cmd[e], inbuf[e], wire[e], outbuf[p], written[p]) /\ cmd[e] # None
  BY DEF Way, Speaks
<1>4. Carries(b, cmd[p], inbuf[p], wire[p], outbuf[e], written[e])
  BY <1>1 DEF Way
<1>5. r \in Seq(Commands)
  BY <1>2, ConcatProperties
<1> HIDE DEF p
<1>6. /\ a # <<>> /\ a[1] = cmd[e] /\ cmd[e] \in Commands /\ Tail(a) \in Seq(Commands)
      /\ Carries(Tail(a), None, inbuf[e], wire[e], outbuf[p], written[p])
  BY <1>3, CarriesTail
<1>7. outbuf[e] \in Seq(Commands)
  BY <1>4 DEF Carries
<1>8. outbuf'[e] = outbuf[e] \o r
  <2>1. (outbuf[e] \o Reply(e)) \o Bye(e) = outbuf[e] \o (Reply(e) \o Bye(e))
    <3>1. Reply(e) \in Seq(Commands)
      OBVIOUS
    <3> DEFINE o == outbuf[e]
               y == Reply(e)
               z == Bye(e)
    <3>2. o \in Seq(Commands) /\ y \in Seq(Commands) /\ z \in Seq(Commands)
      BY <1>2, <1>7, <3>1
    <3> HIDE DEF o, y, z
    <3>3. (o \o y) \o z = o \o (y \o z)
      BY SMTT(30), <3>2, ConcatAssociative
    <3> QED  BY <3>3 DEF o, y, z
  <2> QED  BY <2>1 DEF Speaks
<1>9. b \o r \in Seq(Commands) /\ Carries(b \o r, cmd[p], inbuf[p], wire[p], outbuf[e] \o r, written[e])
  BY <1>4, <1>5, CarriesQueue
<1>10. Way(e, Tail(a))'
  <2>1. cmd'[e] = None /\ inbuf'[e] = inbuf[e] /\ wire'[e] = wire[e] /\ outbuf'[p] = outbuf[p] /\ written'[p] = written[p]
    BY DEF Speaks, Same, p
  <2>2. Carries(Tail(a), cmd'[e], inbuf'[e], wire'[e], outbuf'[p], written'[p])
    BY <1>6, <2>1
  <2> QED  BY <2>2 DEF Way, p
<1>11. Way(p, b \o r)'
  <2>1. cmd'[p] = cmd[p] /\ inbuf'[p] = inbuf[p] /\ wire'[p] = wire[p] /\ written'[e] = written[e]
    BY DEF Speaks, Same, p
  <2>2. Carries(b \o r, cmd'[p], inbuf'[p], wire'[p], outbuf'[e], written'[e])
    BY <1>8, <1>9, <2>1
  <2> QED  BY <1>1, <2>2 DEF Way, p
<1> QED  BY <1>6, <1>9, <1>10, <1>11 DEF p

(* The reply of an end that has begun.                                     *)
LEMMA BegunReply ==
  ASSUME NEW e, NEW a \in Seq(Commands), a # <<>>, a[1] = cmd[e], Plain(a)
  PROVE  cmd[e] \in Commands \ {"hello", "auth"}
<1>1. 1 \in DOMAIN a /\ a[1] \in Commands
  <2>1. Len(a) \in Nat \ {0} /\ DOMAIN a = 1..Len(a)
    BY EmptySeq, LenProperties
  <2>2. 1 \in 1..Len(a)
    BY <2>1
  <2> QED  BY <2>1, <2>2, ElementOfSeq
<1> QED  BY <1>1 DEF Plain

(* What an end that has begun says is plain and decent.                    *)
LEMMA PlainAnswer ==
  ASSUME NEW q \in Seq(Commands), NEW rep \in Seq(Commands), Elems(rep) \subseteq {"data", "ask"},
         NEW bye \in Seq(Commands), Elems(bye) \subseteq {"bye"}, NEW r, r = rep \o bye,
         NEW c
  PROVE  /\ q \o r \in Seq(Commands)
         /\ Plain(q) => Plain(q \o r)
         /\ Decent(c, q) => Decent(c, q \o r)
<1>1. r \in Seq(Commands) /\ Elems(r) = Elems(rep) \cup Elems(bye)
  BY ElemsConcat
<1>2. q \o r \in Seq(Commands) /\ Elems(q \o r) = Elems(q) \cup Elems(r)
  <2> DEFINE s == r
  <2>1. s \in Seq(Commands)
    BY <1>1
  <2> HIDE DEF s
  <2>2. q \o s \in Seq(Commands) /\ Elems(q \o s) = Elems(q) \cup Elems(s)
    BY <2>1, ElemsConcat
  <2> QED  BY <2>2 DEF s
<1>3. "bad" \in Elems(q \o r) => "bad" \in Elems(q)
  BY <1>1, <1>2
<1>4. ("hello" \in Elems(q \o r) => "hello" \in Elems(q)) /\ ("auth" \in Elems(q \o r) => "auth" \in Elems(q))
  BY <1>1, <1>2
<1>5. Plain(q) => Plain(q \o r)
  BY <1>4, PlainElems
<1>6. Decent(c, q) => Decent(c, q \o r)
  BY <1>3, DecentElems
<1> QED  BY <1>2, <1>5, <1>6

LEMMA PlainTail ==
  ASSUME NEW q \in Seq(Commands), q # <<>>, NEW c
  PROVE  (Plain(q) => Plain(Tail(q))) /\ (Decent(c, q) => Decent(c, Tail(q)))
<1>1. Elems(Tail(q)) \subseteq Elems(q)
  BY ElemsTail
<1> QED  BY <1>1, PlainElems, DecentElems

(* What has to hold before e speaks.                                       *)
Due(e, in, out, begun, other, u, v, r) ==
  /\ in \in Seq(Commands) /\ out \in Seq(Commands)
  /\ begun \in BOOLEAN /\ other \in BOOLEAN /\ u \in Nat /\ v \in Nat
  /\ End(in, out, begun, u, v, expected[e], sentBye[e], sentBye[Peer(e)], gotBye[e])
  /\ End(out, in, other, v, u, expected[Peer(e)], sentBye[Peer(e)], sentBye[e], gotBye[Peer(e)])
  /\ in # <<>> /\ in[1] = cmd[e] /\ Reply(e) \in Seq(Commands)
  /\ Cnt("ask", Reply(e)) = u /\ Cnt("data", Reply(e)) = IF cmd[e] = "ask" THEN 1 ELSE 0
  /\ "bye" \notin Elems(Reply(e)) /\ (begun /\ cmd[e] # "ask" => Reply(e) = <<>>)
  /\ r = Reply(e) \o Bye(e)

(* The two ends after e has spoken.                                        *)
LEMMA SpeakEnds ==
  ASSUME NEW c \in Clients, NEW e \in Both(c), Speaks(e), Same(Peer(e)),
         sentBye \in [Endpoints -> BOOLEAN], gotBye \in [Endpoints -> BOOLEAN],
         NEW in, NEW out, NEW begun, NEW other, NEW u, NEW v, NEW r,
         Due(e, in, out, begun, other, u, v, r)
  PROVE  /\ End(Tail(in), out \o r, TRUE, 0, v, expected'[e], sentBye'[e], sentBye'[Peer(e)], gotBye'[e])
         /\ End(out \o r, Tail(in), other, v, 0, expected'[Peer(e)], sentBye'[Peer(e)], sentBye'[e], gotBye'[Peer(e)])
<1> DEFINE p == Peer(e)
           x2 == ExpectedAfter(e)
           says == SaysBye(e)
           rep == Reply(e)
<1>1. sentBye[e] \in BOOLEAN /\ sentBye[p] \in BOOLEAN /\ gotBye[e] \in BOOLEAN /\ gotBye[p] \in BOOLEAN
  BY EndsOf
<1>2. x2 = IF in[1] \in {"ask", "data"} THEN expected[e] - 1 ELSE expected[e]
  BY DEF ExpectedAfter, Due
<1>3. says \in BOOLEAN /\ (says <=> (x2 = 0 /\ ~sentBye[e]))
  BY DEF SaysBye
<1>4. \A i \in 1..Len(rep) : rep[i] # "bye"
  <2>1. DOMAIN rep = 1..Len(rep)
    BY LenProperties DEF Due
  <2> QED  BY <2>1 DEF Elems, Due
<1>5. r = rep \o (IF says THEN <<"bye">> ELSE <<>>)
  BY DEF Bye, Due
<1>6. /\ in \in Seq(Commands) /\ in # <<>> /\ out \in Seq(Commands)
      /\ begun \in BOOLEAN /\ other \in BOOLEAN /\ u \in Nat /\ v \in Nat
      /\ rep \in Seq(Commands) /\ Cnt("ask", rep) = u /\ Cnt("data", rep) = (IF in[1] = "ask" THEN 1 ELSE 0)
      /\ (begun /\ in[1] # "ask" => rep = <<>>)
  BY DEF Due
<1>7. /\ expected'[e] = x2 /\ sentBye'[e] = (sentBye[e] \/ says) /\ gotBye'[e] = (gotBye[e] \/ in[1] = "bye")
      /\ expected'[p] = expected[p] /\ sentBye'[p] = sentBye[p] /\ gotBye'[p] = gotBye[p]
  BY DEF Speaks, Same, SameTalk, Due
<1>8. /\ End(in, out, begun, u, v, expected[e], sentBye[e], sentBye[p], gotBye[e])
      /\ End(out, in, other, v, u, expected[p], sentBye[p], sentBye[e], gotBye[p])
  BY DEF Due
<1> HIDE DEF p, x2, says, rep
<1>9. Spoken(in, out, rep, begun, other, u, v, expected[e], expected[p], sentBye[e], sentBye[p], gotBye[e],
             gotBye[p], x2, says, r)
  BY <1>1, <1>2, <1>3, <1>4, <1>5, <1>6, <1>8 DEF Spoken
<1>10. /\ End(Tail(in), out \o r, TRUE, 0, v, x2, sentBye[e] \/ says, sentBye[p], gotBye[e] \/ in[1] = "bye")
       /\ End(out \o r, Tail(in), other, v, 0, expected[p], sentBye[p], sentBye[e] \/ says, gotBye[p])
  BY <1>9, Speak
<1> QED  BY <1>7, <1>10 DEF p

LEMMA ClientSpeaks ==
  ASSUME config \in Configs, config' = config, NEW c \in Clients,
         Speaks(AtClient(c)), Same(AtServer(c)),
         sentBye \in [Endpoints -> BOOLEAN], gotBye \in [Endpoints -> BOOLEAN],
         NEW a \in Seq(Commands), NEW b \in Seq(Commands), Protocol(c, a, b),
         a # <<>>, a[1] = cmd[AtClient(c)], NEW r, r = Reply(AtClient(c)) \o Bye(AtClient(c))
  PROVE  /\ Reply(AtClient(c)) \in Seq(Commands)
         /\ Protocol(c, Tail(a), b \o r)'
<1> DEFINE e == AtClient(c)
           p == AtServer(c)
           begun == Plain(a)
           other == Plain(a) /\ Plain(b)
           u == Unasked("client", begun)
           v == Unasked("server", other)
<1>1. e \in Both(c) /\ Peer(e) = p /\ Peer(p) = e /\ e[1] = c
  BY EndsOf DEF Both
<1>2. /\ End(a, b, begun, u, v, expected[e], sentBye[e], sentBye[p], gotBye[e])
      /\ End(b, a, other, v, u, expected[p], sentBye[p], sentBye[e], gotBye[p])
      /\ Decent(c, a) /\ Decent(c, b)
  BY DEF Protocol, ClientEnd, ServerEnd
<1>3. u \in Nat /\ v \in Nat
  <2>1. config.asks["client"] \in Nat /\ config.asks["server"] \in Nat
    BY ConfigsTyped DEF Sides
  <2> QED  BY <2>1 DEF Unasked
<1>b. Bye(e) \in Seq(Commands) /\ Elems(Bye(e)) \subseteq {"bye"}
  <2>1. <<"bye">> \in Seq(Commands) /\ <<>> \in Seq(Commands) /\ Elems(<<"bye">>) = {"bye"} /\ Elems(<<>>) = {}
    BY ElemsOne DEF Commands
  <2> QED  BY <2>1 DEF Bye
<1>4. ASSUME Reply(e) \in Seq(Commands), Cnt("ask", Reply(e)) = u,
             Cnt("data", Reply(e)) = IF cmd[e] = "ask" THEN 1 ELSE 0,
             "bye" \notin Elems(Reply(e)), begun /\ cmd[e] # "ask" => Reply(e) = <<>>
      PROVE  /\ End(Tail(a), b \o r, TRUE, 0, v, expected'[e], sentBye'[e], sentBye'[p], gotBye'[e])
             /\ End(b \o r, Tail(a), other, v, 0, expected'[p], sentBye'[p], sentBye'[e], gotBye'[p])
  <2>1. begun \in BOOLEAN /\ other \in BOOLEAN
    BY DEF Plain
  <2>2. Speaks(e) /\ Same(Peer(e)) /\ r = Reply(e) \o Bye(e) /\ a[1] = cmd[e]
    BY <1>1
  <2> HIDE DEF e, p, begun, other, u, v
  <2>3. /\ End(a, b, begun, u, v, expected[e], sentBye[e], sentBye[Peer(e)], gotBye[e])
        /\ End(b, a, other, v, u, expected[Peer(e)], sentBye[Peer(e)], sentBye[e], gotBye[Peer(e)])
    BY <1>1, <1>2
  <2>4. /\ End(Tail(a), b \o r, TRUE, 0, v, expected'[e], sentBye'[e], sentBye'[Peer(e)], gotBye'[e])
        /\ End(b \o r, Tail(a), other, v, 0, expected'[Peer(e)], sentBye'[Peer(e)], sentBye'[e], gotBye'[Peer(e)])
    <3>1. Due(e, a, b, begun, other, u, v, r)
      BY <1>3, <1>4, <2>1, <2>2, <2>3 DEF Due
    <3> QED  BY <1>1, <2>2, <3>1, SpeakEnds
  <2> QED  BY <1>1, <2>4
<1>5. ASSUME Plain(Tail(a)), (Plain(b \o r) <=> other), Shape(Tail(a), b \o r), Decent(c, b \o r),
             End(Tail(a), b \o r, TRUE, 0, v, expected'[e], sentBye'[e], sentBye'[p], gotBye'[e]),
             End(b \o r, Tail(a), other, v, 0, expected'[p], sentBye'[p], sentBye'[e], gotBye'[p])
      PROVE  Protocol(c, Tail(a), b \o r)'
  <2> DEFINE a2 == Tail(a)
             b2 == b \o r
  <2>1. Shape(a2, b2)'
    BY <1>5 DEF Shape, Plain
  <2>2. Decent(c, a2)' /\ Decent(c, b2)'
    BY <1>2, <1>5, PlainTail DEF Decent
  <2>3. Plain(a2)' = TRUE /\ (Plain(a2) /\ Plain(b2))' = other
    BY <1>5 DEF Plain
  <2>4. Unasked("client", TRUE)' = 0 /\ Unasked("server", other)' = v
    BY DEF Unasked
  <2>5. ClientEnd(c, a2, b2)'
    BY <1>5, <2>3, <2>4 DEF ClientEnd
  <2>6. ServerEnd(c, a2, b2)'
    BY <1>5, <2>3, <2>4 DEF ServerEnd
  <2> QED  BY <2>1, <2>2, <2>5, <2>6 DEF Protocol
<1>6. CASE a = <<"hello">> /\ b = <<>>
  <2>1. cmd[e] = "hello"
    BY <1>6
  <2>2. begun = FALSE /\ other = FALSE
    <3>1. 1 \in DOMAIN a /\ a[1] = "hello"
      BY <1>6
    <3> QED  BY <3>1 DEF Plain
  <2>3. u = config.asks["client"]
    BY <2>2 DEF Unasked
  <2>4. /\ Reply(e) \in Seq(Commands) /\ Cnt("ask", Reply(e)) = u
        /\ Cnt("data", Reply(e)) = 0 /\ Reply(e) # <<>> /\ Head(Reply(e)) = "auth"
        /\ Elems(Tail(Reply(e))) \subseteq {"ask", "bad"}
        /\ Elems(Reply(e)) \subseteq {"auth", "ask", "bad"}
        /\ "bad" \in Elems(Reply(e)) => config.kind[c] = "garbled"
    BY <1>1, <2>1, <2>3, HelloReply
  <2>5. /\ End(Tail(a), b \o r, TRUE, 0, v, expected'[e], sentBye'[e], sentBye'[p], gotBye'[e])
        /\ End(b \o r, Tail(a), other, v, 0, expected'[p], sentBye'[p], sentBye'[e], gotBye'[p])
    BY <1>4, <2>1, <2>2, <2>4
  <2>6. Tail(a) = <<>>
    <3>1. a \in Seq(Commands) /\ Len(a) = 1
      BY <1>6
    <3>2. Tail(a) \in Seq(Commands) /\ Len(Tail(a)) = 0
      BY <3>1, HeadTailProperties
    <3> QED  BY <3>2, EmptySeq
  <2> DEFINE y == Reply(e)
             z == Bye(e)
  <2>7. r = y \o z /\ y \in Seq(Commands) /\ z \in Seq(Commands) /\ y # <<>>
    BY <1>b, <2>4
  <2> HIDE DEF y, z
  <2>8. /\ r \in Seq(Commands) /\ Elems(r) = Elems(y) \cup Elems(z)
        /\ r # <<>> /\ Head(r) = Head(y) /\ Tail(r) = Tail(y) \o z
    BY <2>7, ElemsConcat, TailConcat
  <2>9. b \o r = r
    BY <1>6, <2>8, ConcatEmptySeq
  <2>10. Tail(y) \in Seq(Commands)
    BY <2>7, HeadTailProperties
  <2>11. Elems(Tail(r)) = Elems(Tail(y)) \cup Elems(z)
    <3> DEFINE w == Tail(y)
    <3>1. w \in Seq(Commands) /\ z \in Seq(Commands)
      BY <2>7, <2>10
    <3> HIDE DEF w
    <3>2. Elems(w \o z) = Elems(w) \cup Elems(z)
      BY <3>1, ElemsConcat
    <3> QED  BY <2>8, <3>2 DEF w
  <2>12. Plain(Tail(r))
    BY <1>b, <2>4, <2>11, PlainElems DEF y, z
  <2>13. Head(r) = "auth"
    BY <2>4, <2>8 DEF y
  <2>14. ~Plain(r)
    <3>1. Head(r) \in Elems(r)
      <4>1. r \in Seq(Commands) /\ r # <<>>
        BY <2>8
      <4> QED  BY <4>1, ElemsTail
    <3> QED  BY <2>13, <3>1, PlainElems
  <2>15. Plain(<<>>) /\ Shape(<<>>, r)
    <3>1. Plain(<<>>)
      BY ElemsOne, PlainElems
    <3> QED  BY <2>8, <2>12, <2>13, <3>1 DEF Shape
  <2>16. Decent(c, r)
    BY <1>b, <2>4, <2>8, DecentElems DEF y, z
  <2> QED  BY <1>5, <2>2, <2>4, <2>5, <2>6, <2>9, <2>14, <2>15, <2>16
<1>7. CASE Plain(a) /\ Plain(b)
  <2>1. cmd[e] \in Commands \ {"hello", "auth"}
    BY <1>7, BegunReply
  <2>2. /\ Reply(e) \in Seq(Commands) /\ Cnt("ask", Reply(e)) = 0
        /\ Cnt("data", Reply(e)) = (IF cmd[e] = "ask" THEN 1 ELSE 0)
        /\ Elems(Reply(e)) \subseteq {"data"}
        /\ cmd[e] # "ask" => Reply(e) = <<>>
    BY <2>1, PlainReply
  <2>3. u = 0
    BY <1>7 DEF Unasked
  <2>4. /\ End(Tail(a), b \o r, TRUE, 0, v, expected'[e], sentBye'[e], sentBye'[p], gotBye'[e])
        /\ End(b \o r, Tail(a), other, v, 0, expected'[p], sentBye'[p], sentBye'[e], gotBye'[p])
    BY <1>4, <2>2, <2>3
  <2>5. Plain(b \o r) /\ Decent(c, b \o r)
    BY <1>2, <1>7, <1>b, <2>2, PlainAnswer
  <2>6. Plain(Tail(a))
    BY <1>7, PlainTail
  <2>7. Shape(Tail(a), b \o r)
    BY <2>5, <2>6 DEF Shape
  <2> QED  BY <1>5, <1>7, <2>2, <2>4, <2>5, <2>6, <2>7
<1>8. (a = <<"hello">> /\ b = <<>>) \/ (Plain(a) /\ Plain(b))
  BY DEF Protocol, Shape
<1> QED  BY <1>6, <1>7, <1>8

LEMMA ServerSpeaks ==
  ASSUME config \in Configs, config' = config, NEW c \in Clients,
         Speaks(AtServer(c)), Same(AtClient(c)),
         sentBye \in [Endpoints -> BOOLEAN], gotBye \in [Endpoints -> BOOLEAN],
         NEW a \in Seq(Commands), NEW b \in Seq(Commands), Protocol(c, a, b),
         b # <<>>, b[1] = cmd[AtServer(c)], NEW r, r = Reply(AtServer(c)) \o Bye(AtServer(c))
  PROVE  /\ Reply(AtServer(c)) \in Seq(Commands)
         /\ Protocol(c, a \o r, Tail(b))'
<1> DEFINE e == AtServer(c)
           p == AtClient(c)
           begun == Plain(a) /\ Plain(b)
           other == Plain(a)
           u == Unasked("server", begun)
           v == Unasked("client", other)
<1>1. e \in Both(c) /\ Peer(e) = p /\ Peer(p) = e /\ e[1] = c
  BY EndsOf DEF Both
<1>2. /\ End(b, a, begun, u, v, expected[e], sentBye[e], sentBye[p], gotBye[e])
      /\ End(a, b, other, v, u, expected[p], sentBye[p], sentBye[e], gotBye[p])
      /\ Decent(c, a) /\ Decent(c, b)
  BY DEF Protocol, ClientEnd, ServerEnd
<1>3. u \in Nat /\ v \in Nat
  <2>1. config.asks["client"] \in Nat /\ config.asks["server"] \in Nat
    BY ConfigsTyped DEF Sides
  <2> QED  BY <2>1 DEF Unasked
<1>b. Bye(e) \in Seq(Commands) /\ Elems(Bye(e)) \subseteq {"bye"}
  <2>1. <<"bye">> \in Seq(Commands) /\ <<>> \in Seq(Commands) /\ Elems(<<"bye">>) = {"bye"} /\ Elems(<<>>) = {}
    BY ElemsOne DEF Commands
  <2> QED  BY <2>1 DEF Bye
<1>4. ASSUME Reply(e) \in Seq(Commands), Cnt("ask", Reply(e)) = u,
             Cnt("data", Reply(e)) = IF cmd[e] = "ask" THEN 1 ELSE 0,
             Elems(Reply(e)) \subseteq {"data", "ask"}, begun /\ cmd[e] # "ask" => Reply(e) = <<>>,
             Plain(Tail(b)), other
      PROVE  Protocol(c, a \o r, Tail(b))'
  <2> DEFINE a2 == a \o r
             b2 == Tail(b)
  <2>1. begun \in BOOLEAN /\ other \in BOOLEAN
    BY DEF Plain
  <2>2. Speaks(e) /\ Same(Peer(e)) /\ r = Reply(e) \o Bye(e) /\ b[1] = cmd[e]
    BY <1>1
  <2>3. /\ End(b2, a2, TRUE, 0, v, expected'[e], sentBye'[e], sentBye'[p], gotBye'[e])
        /\ End(a2, b2, other, v, 0, expected'[p], sentBye'[p], sentBye'[e], gotBye'[p])
    <3> HIDE DEF e, p, begun, other, u, v
    <3>1. /\ End(b, a, begun, u, v, expected[e], sentBye[e], sentBye[Peer(e)], gotBye[e])
          /\ End(a, b, other, v, u, expected[Peer(e)], sentBye[Peer(e)], sentBye[e], gotBye[Peer(e)])
      BY <1>1, <1>2
    <3>2. "bye" \notin Elems(Reply(e))
      BY <1>4
    <3>3. Due(e, b, a, begun, other, u, v, r)
      BY <1>3, <1>4, <2>1, <2>2, <3>1, <3>2 DEF Due
    <3>4. /\ End(Tail(b), a \o r, TRUE, 0, v, expected'[e], sentBye'[e], sentBye'[Peer(e)], gotBye'[e])
          /\ End(a \o r, Tail(b), other, v, 0, expected'[Peer(e)], sentBye'[Peer(e)], sentBye'[e], gotBye'[Peer(e)])
      BY <1>1, <2>2, <3>3, SpeakEnds
    <3> QED  BY <1>1, <3>4
  <2>4. Plain(a2) /\ Decent(c, a2)
    <3>1. Plain(a)
      BY <1>4
    <3>2. Reply(e) \in Seq(Commands) /\ Elems(Reply(e)) \subseteq {"data", "ask"} /\ r = Reply(e) \o Bye(e)
      BY <1>4
    <3> HIDE DEF e, p
    <3> QED  BY <1>2, <1>b, <3>1, <3>2, PlainAnswer
  <2>5. Decent(c, b2)
    BY <1>2, PlainTail
  <2>6. Shape(a2, b2)' /\ Decent(c, a2)' /\ Decent(c, b2)'
    BY <1>4, <2>4, <2>5 DEF Shape, Plain, Decent
  <2>7. Plain(a2)' = TRUE /\ (Plain(a2) /\ Plain(b2))' = TRUE /\ other = TRUE
    BY <1>4, <2>4 DEF Plain
  <2>8. Unasked("server", TRUE)' = 0 /\ Unasked("client", TRUE)' = 0 /\ v = 0
    BY <2>7 DEF Unasked
  <2>9. ClientEnd(c, a2, b2)'
    BY <2>3, <2>7, <2>8 DEF ClientEnd
  <2>10. ServerEnd(c, a2, b2)'
    BY <2>3, <2>7, <2>8 DEF ServerEnd
  <2> QED  BY <2>6, <2>9, <2>10 DEF Protocol
<1>5. CASE a = <<>> /\ Head(b) = "auth" /\ Plain(Tail(b))
  <2>1. cmd[e] = "auth"
    BY <1>5
  <2>2. ~Plain(b) /\ Plain(a)
    <3>1. Head(b) \in Elems(b)
      BY ElemsTail
    <3>2. Plain(<<>>)
      BY ElemsOne, PlainElems
    <3> QED  BY <1>5, <3>1, <3>2, PlainElems
  <2>3. u = config.asks["server"] /\ ~begun
    BY <2>2 DEF Unasked
  <2>4. /\ Reply(e) \in Seq(Commands) /\ Cnt("ask", Reply(e)) = u
        /\ Cnt("data", Reply(e)) = 0 /\ Elems(Reply(e)) \subseteq {"ask"}
    BY <2>1, <2>3, AuthReply
  <2> QED  BY <1>4, <1>5, <2>1, <2>2, <2>3, <2>4
<1>6. CASE Plain(a) /\ Plain(b)
  <2>1. cmd[e] \in Commands \ {"hello", "auth"}
    BY <1>6, BegunReply
  <2>2. /\ Reply(e) \in Seq(Commands) /\ Cnt("ask", Reply(e)) = 0
        /\ Cnt("data", Reply(e)) = (IF cmd[e] = "ask" THEN 1 ELSE 0)
        /\ Elems(Reply(e)) \subseteq {"data"}
        /\ cmd[e] # "ask" => Reply(e) = <<>>
    BY <2>1, PlainReply
  <2>3. u = 0
    BY <1>6 DEF Unasked
  <2>4. Plain(Tail(b))
    BY <1>6, PlainTail
  <2> QED  BY <1>4, <1>6, <2>2, <2>3, <2>4
<1>7. (a = <<>> /\ Head(b) = "auth" /\ Plain(Tail(b))) \/ (Plain(a) /\ Plain(b))
  BY DEF Protocol, Shape
<1> QED  BY <1>5, <1>6, <1>7

-----------------------------------------------------------------------------
(* The conversation goes on.                                               *)

LEMMA ConversationStays ==
  ASSUME NEW c \in Clients, Conversation(c), config' = config,
         \A e \in Both(c) : Same(e) /\ wire'[e] = wire[e]
  PROVE  Conversation(c)'
<1>1. PICK a \in Seq(Commands), b \in Seq(Commands) :
        Way(AtClient(c), a) /\ Way(AtServer(c), b) /\ Protocol(c, a, b)
  BY DEF Conversation
<1>2. AtClient(c) \in Both(c) /\ AtServer(c) \in Both(c)
      /\ Peer(AtClient(c)) = AtServer(c) /\ Peer(AtServer(c)) = AtClient(c)
  BY EndsOf DEF Both
<1>3. /\ Same(AtClient(c)) /\ wire'[AtClient(c)] = wire[AtClient(c)]
      /\ Same(AtServer(c)) /\ wire'[AtServer(c)] = wire[AtServer(c)]
  BY <1>2
<1>4. Way(AtClient(c), a)'
  BY <1>1, <1>2, <1>3, WayStays
<1>5. Way(AtServer(c), b)'
  BY <1>1, <1>2, <1>3, WayStays
<1>6. Protocol(c, a, b)'
  BY <1>1, <1>3, ProtocolStays DEF Same
<1> QED  BY <1>4, <1>5, <1>6 DEF Conversation

LEMMA ConversationArms ==
  ASSUME NEW c \in Clients, Conversation(c), config' = config, NEW e \in Both(c),
         cmd'[e] = CmdAfter(e, inbuf[e]), inbuf'[e] = RestAfter(e, inbuf[e]),
         outbuf'[e] = outbuf[e], written'[e] = written[e], SameTalk(e), Same(Peer(e)),
         \A f \in Both(c) : wire'[f] = wire[f]
  PROVE  Conversation(c)'
<1>1. PICK a \in Seq(Commands), b \in Seq(Commands) :
        Way(AtClient(c), a) /\ Way(AtServer(c), b) /\ Protocol(c, a, b)
  BY DEF Conversation
<1>2. Protocol(c, a, b)'
  <2>1. SameTalk(AtClient(c)) /\ SameTalk(AtServer(c))
    BY EndsOf DEF Same, SameTalk
  <2> QED  BY <1>1, <2>1, ProtocolStays
<1>3. ASSUME NEW q \in Seq(Commands), Way(e, q) PROVE Way(e, q)'
  <2>1. Carries(q, cmd[e], inbuf[e], wire[e], outbuf[Peer(e)], written[Peer(e)])
    BY <1>3 DEF Way
  <2>2. Carries(q, CmdAfter(e, inbuf[e]), RestAfter(e, inbuf[e]), wire[e], outbuf[Peer(e)], written[Peer(e)])
    BY <2>1, Arming
  <2>3. Carries(q, cmd'[e], inbuf'[e], wire'[e], outbuf'[Peer(e)], written'[Peer(e)])
    BY <2>2 DEF Same
  <2> QED  BY <2>3 DEF Way
<1>4. ASSUME NEW q \in Seq(Commands), Way(Peer(e), q) PROVE Way(Peer(e), q)'
  <2>1. Peer(Peer(e)) = e /\ Peer(e) \in Both(c)
    BY EndsOf
  <2>2. Carries(q, cmd[Peer(e)], inbuf[Peer(e)], wire[Peer(e)], outbuf[e], written[e])
    BY <1>4, <2>1 DEF Way
  <2>3. Carries(q, cmd'[Peer(e)], inbuf'[Peer(e)], wire'[Peer(e)], outbuf'[e], written'[e])
    BY <2>1, <2>2 DEF Same
  <2> QED  BY <2>1, <2>3 DEF Way
<1>5. Way(AtClient(c), a)' /\ Way(AtServer(c), b)'
  <2>1. CASE e = AtClient(c)
    BY <1>1, <1>3, <1>4, <2>1, EndsOf
  <2>2. CASE e = AtServer(c)
    BY <1>1, <1>3, <1>4, <2>2, EndsOf
  <2> QED  BY <2>1, <2>2, EndsOf
<1> QED  BY <1>2, <1>5 DEF Conversation

LEMMA ConversationReadWrites ==
  ASSUME TalkInv, NEW c \in Clients, Conversation(c), config' = config, NEW e \in Both(c),
         ReadWrite(e), ~IoFails(e)
  PROVE  Conversation(c)'
<1>1. PICK a \in Seq(Commands), b \in Seq(Commands) :
        Way(AtClient(c), a) /\ Way(AtServer(c), b) /\ Protocol(c, a, b)
  BY DEF Conversation
<1>2. Protocol(c, a, b)'
  <2>1. SameTalk(AtClient(c)) /\ SameTalk(AtServer(c))
    BY DEF ReadWrite, SameTalk
  <2> QED  BY <1>1, <2>1, ProtocolStays
<1>3. Way(AtClient(c), a)' /\ Way(AtServer(c), b)'
  <2>1. CASE e = AtClient(c)
    <3>1. Way(e, a) /\ Way(Peer(e), b) /\ Peer(e) = AtServer(c)
      BY <1>1, <2>1, EndsOf
    <3>2. Way(e, a)' /\ Way(Peer(e), b)'
      BY <3>1, ReadWriteWays
    <3> QED  BY <2>1, <3>1, <3>2
  <2>2. CASE e = AtServer(c)
    <3>1. Way(e, b) /\ Way(Peer(e), a) /\ Peer(e) = AtClient(c)
      BY <1>1, <2>2, EndsOf
    <3>2. Way(e, b)' /\ Way(Peer(e), a)'
      BY <3>1, ReadWriteWays
    <3> QED  BY <2>2, <3>1, <3>2
  <2> QED  BY <2>1, <2>2, EndsOf
<1> QED  BY <1>2, <1>3 DEF Conversation

LEMMA ConversationSpeaks ==
  ASSUME TalkInv, NEW c \in Clients, Conversation(c), config' = config, NEW e \in Both(c),
         Speaks(e), Same(Peer(e)), \A f \in Both(c) : wire'[f] = wire[f]
  PROVE  Conversation(c)'
<1>1. PICK a \in Seq(Commands), b \in Seq(Commands) :
        Way(AtClient(c), a) /\ Way(AtServer(c), b) /\ Protocol(c, a, b)
  BY DEF Conversation
<1>2. /\ config \in Configs
      /\ sentBye \in [Endpoints -> BOOLEAN] /\ gotBye \in [Endpoints -> BOOLEAN]
  BY DEF TalkInv, Domains
<1>3. PICK r : r = Reply(e) \o Bye(e)
  OBVIOUS
<1>4. Peer(e) \in Both(c)
  BY EndsOf
<1>5. wire'[e] = wire[e] /\ wire'[Peer(e)] = wire[Peer(e)]
  BY <1>4
<1>6. ASSUME NEW q \in Seq(Commands), Way(e, q) PROVE q # <<>> /\ q[1] = cmd[e]
  <2>1. Carries(q, cmd[e], inbuf[e], wire[e], outbuf[Peer(e)], written[Peer(e)]) /\ cmd[e] # None
    BY <1>6 DEF Way, Speaks
  <2> QED  BY <2>1, CarriesTail
<1>7. CASE e = AtClient(c)
  <2>1. Peer(e) = AtServer(c) /\ Way(e, a) /\ Way(Peer(e), b)
    BY <1>1, <1>7, EndsOf
  <2>2. a # <<>> /\ a[1] = cmd[e]
    BY <1>6, <2>1
  <2>3. Reply(e) \in Seq(Commands) /\ Protocol(c, Tail(a), b \o r)'
    BY <1>1, <1>2, <1>3, <1>7, <2>1, <2>2, ClientSpeaks
  <2>4. /\ Tail(a) \in Seq(Commands) /\ b \o r \in Seq(Commands)
        /\ Way(e, Tail(a))' /\ Way(Peer(e), b \o r)'
    BY <1>3, <1>5, <2>1, <2>3, SpeaksWays
  <2> DEFINE a2 == Tail(a)
             b2 == b \o r
  <2>5. a2 \in Seq(Commands) /\ b2 \in Seq(Commands)
        /\ Way(AtClient(c), a2)' /\ Way(AtServer(c), b2)' /\ Protocol(c, a2, b2)'
    BY <1>7, <2>1, <2>3, <2>4
  <2> HIDE DEF a2, b2
  <2> QED  BY <2>5 DEF Conversation
<1>8. CASE e = AtServer(c)
  <2>1. Peer(e) = AtClient(c) /\ Way(e, b) /\ Way(Peer(e), a)
    BY <1>1, <1>8, EndsOf
  <2>2. b # <<>> /\ b[1] = cmd[e]
    BY <1>6, <2>1
  <2>3. Reply(e) \in Seq(Commands) /\ Protocol(c, a \o r, Tail(b))'
    BY <1>1, <1>2, <1>3, <1>8, <2>1, <2>2, ServerSpeaks
  <2>4. /\ Tail(b) \in Seq(Commands) /\ a \o r \in Seq(Commands)
        /\ Way(e, Tail(b))' /\ Way(Peer(e), a \o r)'
    BY <1>3, <1>5, <2>1, <2>3, SpeaksWays
  <2> DEFINE a2 == a \o r
             b2 == Tail(b)
  <2>5. a2 \in Seq(Commands) /\ b2 \in Seq(Commands)
        /\ Way(AtClient(c), a2)' /\ Way(AtServer(c), b2)' /\ Protocol(c, a2, b2)'
    BY <1>8, <2>1, <2>3, <2>4
  <2> HIDE DEF a2, b2
  <2> QED  BY <2>5 DEF Conversation
<1> QED  BY <1>7, <1>8, EndsOf


-----------------------------------------------------------------------------
(* What is left of a connection.                                           *)

(* Nothing comes any more to an end that has got the goodbye.              *)
LEMMA Quiet ==
  ASSUME NEW c \in Clients, Conversation(c), NEW e \in Both(c), gotBye[e]
  PROVE  /\ cmd[e] = None /\ inbuf[e] = <<>> /\ wire[e] = <<>> /\ outbuf[Peer(e)] = <<>>
         /\ sentBye[Peer(e)]
<1>1. PICK a \in Seq(Commands), b \in Seq(Commands) :
        Way(AtClient(c), a) /\ Way(AtServer(c), b) /\ Protocol(c, a, b)
  BY DEF Conversation
<1>2. CASE e = AtClient(c)
  <2>1. a = <<>> /\ sentBye[Peer(e)]
    BY <1>1, <1>2, EndsOf DEF Protocol, ClientEnd, End, ByeWay
  <2>2. Carries(<<>>, cmd[e], inbuf[e], wire[e], outbuf[Peer(e)], written[Peer(e)])
    BY <1>1, <1>2, <2>1 DEF Way
  <2> QED  BY <2>1, <2>2, EmptyQueue
<1>3. CASE e = AtServer(c)
  <2>1. b = <<>> /\ sentBye[Peer(e)]
    BY <1>1, <1>3, EndsOf DEF Protocol, ServerEnd, End, ByeWay
  <2>2. Carries(<<>>, cmd[e], inbuf[e], wire[e], outbuf[Peer(e)], written[Peer(e)])
    BY <1>1, <1>3, <2>1 DEF Way
  <2> QED  BY <2>1, <2>2, EmptyQueue
<1> QED  BY <1>2, <1>3, EndsOf

(* An end that is finished has got and said all that it expects.           *)
LEMMA FinishedSaid ==
  ASSUME NEW c \in Clients, Conversation(c), NEW e \in Both(c), Finished(e)
  PROVE  AllSaid(e)
<1>1. PICK a \in Seq(Commands), b \in Seq(Commands) :
        Way(AtClient(c), a) /\ Way(AtServer(c), b) /\ Protocol(c, a, b)
  BY DEF Conversation
<1>2. sentBye[e] => expected[e] = 0
  <2>1. CASE e = AtClient(c)
    BY <1>1, <2>1 DEF Protocol, ClientEnd, End
  <2>2. CASE e = AtServer(c)
    BY <1>1, <2>2 DEF Protocol, ServerEnd, End
  <2> QED  BY <2>1, <2>2, EndsOf
<1> QED  BY <1>2 DEF Finished, AllSaid

(* What waits to be written is counted.                                    *)
LEMMA OutSizeOf ==
  ASSUME NEW e, outbuf[e] \in Seq(Commands)
  PROVE  OutSize(e) \in Nat /\ (outbuf[e] = <<>> => OutSize(e) = 0)
<1> DEFINE large == {i \in DOMAIN outbuf[e] : outbuf[e][i] = "data"}
<1>1. Len(outbuf[e]) \in Nat /\ DOMAIN outbuf[e] = 1..Len(outbuf[e])
  BY LenProperties
<1>2. large \in SUBSET (1..Len(outbuf[e])) /\ IsFiniteSet(1..Len(outbuf[e]))
  BY <1>1, FS_Interval
<1>3. IsFiniteSet(large) /\ Cardinality(large) \in Nat
  BY <1>2, FS_Subset, FS_CardinalityType
<1>4. MaxCmd - 1 \in Nat
  BY LimitsAssumption
<1>5. OutSize(e) = Len(outbuf[e]) + Cardinality(large) * (MaxCmd - 1)
  BY DEF OutSize
<1>6. ASSUME outbuf[e] = <<>> PROVE OutSize(e) = 0
  <2>1. Len(outbuf[e]) = 0 /\ large = {}
    BY <1>1, <1>6
  <2>2. Cardinality(large) = 0
    BY <2>1, FS_EmptySet
  <2> HIDE DEF large
  <2> QED  BY <1>4, <1>5, <2>1, <2>2
<1> HIDE DEF large
<1>7. PICK k \in Nat, n \in Nat, w \in Nat : k = Len(outbuf[e]) /\ n = Cardinality(large) /\ w = MaxCmd - 1
  BY <1>1, <1>3, <1>4
<1>8. k + n * w \in Nat
  OBVIOUS
<1> QED  BY <1>5, <1>6, <1>7, <1>8

(* What an end can arm depends on nothing else.                            *)
LEMMA ArmsStays ==
  ASSUME NEW e, cmd'[e] = cmd[e], inbuf'[e] = inbuf[e], outbuf'[e] = outbuf[e]
  PROVE  Arms(e, inbuf[e])' <=> Arms(e, inbuf[e])
<1>1. OutSize(e)' = OutSize(e)
  BY DEF OutSize
<1>2. CanArm(e, inbuf[e])' <=> CanArm(e, inbuf[e])
  BY <1>1 DEF CanArm, Whole
<1>3. Undecodable(e, inbuf[e])' <=> Undecodable(e, inbuf[e])
  BY <1>2 DEF Undecodable, FirstWhole, Whole
<1> QED  BY <1>2, <1>3 DEF Arms

(* What an end of a conversation knows of what is on its way there.        *)
LEMMA HasWay ==
  ASSUME NEW c \in Clients, Conversation(c), NEW e \in Both(c)
  PROVE  /\ \E q \in Seq(Commands) :
              Way(e, q) /\ Decent(c, q) /\ ByeWay(q, sentBye[Peer(e)], gotBye[e])
         /\ sentBye[e] => expected[e] = 0
<1>1. PICK a \in Seq(Commands), b \in Seq(Commands) :
        Way(AtClient(c), a) /\ Way(AtServer(c), b) /\ Protocol(c, a, b)
  BY DEF Conversation
<1>2. CASE e = AtClient(c)
  BY <1>1, <1>2, EndsOf DEF Protocol, ClientEnd, End
<1>3. CASE e = AtServer(c)
  BY <1>1, <1>3, EndsOf DEF Protocol, ServerEnd, End
<1> QED  BY <1>2, <1>3, EndsOf

(* The commands of a client that speaks properly can all be decoded.       *)
LEMMA Decodes ==
  ASSUME NEW c \in Clients, config.kind[c] # "garbled", NEW q \in Seq(Commands), Decent(c, q),
         NEW com, NEW buf, NEW wir, NEW out, NEW n, Carries(q, com, buf, wir, out, n), Whole(buf) # {}
  PROVE  buf[FirstWhole(buf)] # "bad"
<1> DEFINE f == FirstWhole(buf)
<1>1. buf \in Seq(Signals)
  BY DEF Carries
<1>2. f \in 1..Len(buf) /\ buf[f] \in Commands
  BY <1>1, FirstOf
<1>3. buf[f] # "part"
  BY <1>2 DEF Commands
<1>4. PICK j \in DOMAIN q : q[j] = buf[f]
  BY <1>2, <1>3, Carried
<1> QED  BY <1>4 DEF Decent

LEMMA NeverUndecodable ==
  ASSUME NEW c \in Clients, Conversation(c), config.kind[c] # "garbled", NEW e \in Both(c)
  PROVE  ~Undecodable(e, inbuf[e]) /\ (ReadReady(e) => ~Undecodable(e, Input(e)))
<1>1. PICK q \in Seq(Commands) : Way(e, q) /\ Decent(c, q)
  BY HasWay
<1>2. Carries(q, cmd[e], inbuf[e], wire[e], outbuf[Peer(e)], written[Peer(e)])
  BY <1>1 DEF Way
<1>3. ~Undecodable(e, inbuf[e])
  <2>1. ASSUME CanArm(e, inbuf[e]) PROVE inbuf[e][FirstWhole(inbuf[e])] # "bad"
    <3>1. Whole(inbuf[e]) # {}
      BY <2>1 DEF CanArm
    <3> QED  BY <1>1, <1>2, <3>1, Decodes
  <2> QED  BY <2>1 DEF Undecodable
<1>4. ASSUME ReadReady(e) PROVE ~Undecodable(e, Input(e))
  <2>1. PICK wir : Carries(q, cmd[e], Input(e), wir, outbuf[Peer(e)], written[Peer(e)])
    BY <1>2, <1>4, Reading DEF Input
  <2>2. ASSUME CanArm(e, Input(e)) PROVE Input(e)[FirstWhole(Input(e))] # "bad"
    <3>1. Whole(Input(e)) # {}
      BY <2>2 DEF CanArm
    <3> QED  BY <1>1, <2>1, <3>1, Decodes
  <2> QED  BY <2>2 DEF Undecodable
<1> QED  BY <1>3, <1>4

(* When the other end of a conversation has finished and gone, what fails  *)
(* at this one is all that is left.                                        *)
LEMMA CutClean ==
  ASSUME NEW c \in Clients, Conversation(c), config.kind[c] # "garbled", NEW e \in Both(c),
         AllSaid(Peer(e)), IoFails(e), cmd[e] = None => ~Arms(e, inbuf[e])
  PROVE  AllSaid(e)
<1> DEFINE p == Peer(e)
<1>1. p \in Both(c) /\ Peer(p) = e
  BY EndsOf
<1>2. sentBye[p] /\ gotBye[p] /\ outbuf[p] = <<>>
  BY DEF AllSaid
<1>3. outbuf[e] = <<>> /\ sentBye[e]
  BY <1>1, <1>2, Quiet
<1>4. expected[e] = 0
  BY <1>3, HasWay
<1>5. WantsRead(e) /\ cmd[e] = None /\ wire[e] = <<>>
  BY <1>3 DEF IoFails, WantsWrite, WantsRead
<1>6. PICK q \in Seq(Commands) : Way(e, q) /\ Decent(c, q) /\ ByeWay(q, sentBye[p], gotBye[e])
  BY HasWay
<1>7. Carries(q, None, inbuf[e], <<>>, <<>>, written[p])
  BY <1>2, <1>5, <1>6 DEF Way
<1>8. Whole(inbuf[e]) = {}
  <2>1. OutSize(e) = 0
    BY <1>3, OutSizeOf, EmptySeq
  <2>2. ASSUME Whole(inbuf[e]) # {} PROVE FALSE
    <3>1. CanArm(e, inbuf[e])
      BY <1>5, <2>1, <2>2, LimitsAssumption DEF CanArm
    <3>2. ~Undecodable(e, inbuf[e])
      BY NeverUndecodable
    <3> QED  BY <1>5, <3>1, <3>2 DEF Arms
  <2> QED  BY <2>2
<1>9. q = <<>>
  BY <1>7, <1>8, ShortInput
<1>10. gotBye[e]
  BY <1>2, <1>6, <1>9 DEF ByeWay
<1> QED  BY <1>3, <1>4, <1>10 DEF AllSaid

-----------------------------------------------------------------------------
(* The steps that a connection does not take, and the ends of it that go.  *)

Rests(c) ==
  /\ config' = config
  /\ \A e \in Both(c) : Same(e) /\ (wire'[e] = wire[e] \/ (wire'[e] = <<>> /\ Gone(e)'))
  /\ Unopened(c)' => Unopened(c) /\ c \notin sessions'
  /\ Kept(c)' => Kept(c) /\ \A e \in Both(c) : Gone(e)' => AllSaid(e)
  /\ at'[c] = "io" => at[c] = "io"
  /\ loop' = "probe" /\ c \in sessions' => loop = "probe" /\ c \in sessions

LEMMA RestingStays ==
  ASSUME TalkInv, NEW c \in Clients, Rests(c)
  PROVE  Connection(c)'
<1>1. Connection(c)
  BY DEF TalkInv
<1>2. ASSUME NEW e \in Both(c) PROVE Same(e) /\ (wire'[e] = wire[e] \/ (wire'[e] = <<>> /\ Gone(e)'))
  BY DEF Rests
<1>3. ASSUME Unopened(c)', NEW e \in Both(c) PROVE Blank(e)'
  <2>1. Unopened(c)
    BY <1>3 DEF Rests
  <2>2. Blank(e)
    BY <1>1, <2>1 DEF Connection
  <2>3. Same(e) /\ (wire'[e] = wire[e] \/ wire'[e] = <<>>)
    BY <1>2
  <2>4. config' = config
    BY DEF Rests
  <2> QED  BY <2>2, <2>3, <2>4 DEF Blank, Same, SameTalk
<1>4. ASSUME Kept(c)'
      PROVE  Conversation(c)' /\ ClientArmed(c)' /\ ServerArmed(c)' /\ (\A e \in Both(c) : Gone(e) => AllSaid(e))'
  <2>1. Kept(c) /\ \A e \in Both(c) : Gone(e)' => AllSaid(e)
    BY <1>4 DEF Rests
  <2>2. Conversation(c) /\ ClientArmed(c) /\ ServerArmed(c)
    BY <1>1, <2>1 DEF Connection
  <2>3. ASSUME NEW e \in Both(c) PROVE wire'[e] = wire[e]
    <3>1. CASE wire'[e] = <<>> /\ Gone(e)'
      <4>1. gotBye[e]
        BY <2>1, <3>1 DEF AllSaid
      <4>2. wire[e] = <<>>
        BY <2>2, <4>1, Quiet
      <4> QED  BY <3>1, <4>2
    <3> QED  BY <1>2, <3>1
  <2>4. config' = config
    BY DEF Rests
  <2>5. Conversation(c)'
    BY <1>2, <2>2, <2>3, <2>4, ConversationStays
  <2>6. ASSUME NEW e \in Both(c) PROVE Arms(e, inbuf[e])' <=> Arms(e, inbuf[e])
    BY <1>2, ArmsStays DEF Same
  <2>7. AtClient(c) \in Both(c) /\ AtServer(c) \in Both(c)
    BY DEF Both
  <2>8. ClientArmed(c)'
    BY <1>2, <2>2, <2>6, <2>7 DEF ClientArmed, Same, Rests
  <2>9. ServerArmed(c)'
    BY <1>2, <2>2, <2>6, <2>7 DEF ServerArmed, Same, Rests
  <2>10. ASSUME NEW e \in Both(c), Gone(e)' PROVE AllSaid(e)'
    <3>1. AllSaid(e) /\ Same(e)
      BY <1>2, <2>1, <2>10
    <3> QED  BY <3>1 DEF AllSaid, Same, SameTalk
  <2>11. (\A e \in Both(c) : Gone(e) => AllSaid(e))'
    BY <2>10 DEF Both
  <2> QED  BY <2>5, <2>8, <2>9, <2>11
<1>5. Unopened(c)' => c \notin sessions'
  BY DEF Rests
<1>6. Unopened(c)' => (\A e \in Both(c) : Blank(e))'
  BY <1>3 DEF Both
<1> QED  BY <1>4, <1>5, <1>6 DEF Connection

LEMMA GoneStays ==
  ASSUME NEW c \in Clients, conn'[c] = conn[c], c \in sessions' <=> c \in sessions
  PROVE  /\ \A e \in Both(c) : Gone(e)' <=> Gone(e)
         /\ Talking(c)' <=> Talking(c)
         /\ Unopened(c)' <=> Unopened(c)
<1>1. ASSUME NEW e \in Both(c) PROVE Gone(e)' <=> Gone(e)
  <2>1. e[1] = c
    BY EndsOf
  <2> QED  BY <2>1 DEF Gone
<1>2. (Talking(c)' <=> Talking(c)) /\ (Unopened(c)' <=> Unopened(c))
  BY DEF Talking, Unopened
<1> QED  BY <1>1, <1>2

(* Ends do not come back, and do not wait any more when they have gone.    *)
LEMMA KeptBefore ==
  ASSUME NEW c \in Clients, ~Unopened(c), config' = config, Kept(c)',
         Talking(c)' => Talking(c),
         \A e \in Both(c) : Gone(e) => Gone(e)' /\ idle'[e] = idle[e]
  PROVE  Kept(c)
<1>1. conn[c] \in {"open", "closed"}
  BY DEF Unopened
<1>2. CASE Talking(c)'
  BY <1>1, <1>2 DEF Kept
<1>3. CASE ~Talking(c)'
  <2>1. config.kind[c] = "honest" /\ (\A e \in Both(c) : Gone(e)' => ~(idle'[e] > 0))
    BY <1>3 DEF Kept, Both
  <2>2. \A e \in Both(c) : Gone(e) => ~(idle[e] > 0)
    BY <2>1
  <2> QED  BY <1>1, <2>1, <2>2 DEF Kept
<1> QED  BY <1>2, <1>3

(* A step elsewhere.                                                       *)
Elsewhere(c) ==
  /\ config' = config /\ conn'[c] = conn[c] /\ (c \in sessions' <=> c \in sessions)
  /\ at'[c] = "io" => at[c] = "io"
  /\ loop' = "probe" /\ c \in sessions' => loop = "probe"
  /\ \A e \in Both(c) : Same(e) /\ wire'[e] = wire[e] /\ (Gone(e) => idle'[e] = idle[e])

LEMMA ElsewhereStays ==
  ASSUME TalkInv, NEW c \in Clients, Elsewhere(c)
  PROVE  Connection(c)'
<1>1. Connection(c)
  BY DEF TalkInv
<1>2. /\ \A e \in Both(c) : Gone(e)' <=> Gone(e)
      /\ Talking(c)' <=> Talking(c)
      /\ Unopened(c)' <=> Unopened(c)
  BY GoneStays DEF Elsewhere
<1>3. Unopened(c)' => Unopened(c) /\ c \notin sessions'
  BY <1>1, <1>2 DEF Connection, Elsewhere
<1>4. ASSUME Kept(c)' PROVE Kept(c) /\ \A e \in Both(c) : Gone(e)' => AllSaid(e)
  <2>1. ~Unopened(c)
    BY <1>4 DEF Elsewhere, Kept, Unopened
  <2>2. Kept(c)
    BY <1>2, <1>4, <2>1, KeptBefore DEF Elsewhere
  <2> QED  BY <1>1, <1>2, <2>2 DEF Connection
<1>5. Rests(c)
  BY <1>3, <1>4 DEF Rests, Elsewhere
<1> QED  BY <1>5, RestingStays

(* A client returns.                                                       *)
LEMMA LeftStays ==
  ASSUME TalkInv, NEW c \in Clients, Leave(c), Runs(c),
         Unopened(c) => config.kind[c] # "honest" \/ idle[AtClient(c)] > 0,
         Kept(c) /\ config.kind[c] = "honest" /\ ~(idle[AtClient(c)] > 0) => AllSaid(AtClient(c))
  PROVE  Connection(c)'
<1> DEFINE e == AtClient(c)
           p == AtServer(c)
<1>1. Connection(c) /\ Domains
  BY DEF TalkInv
<1>2. /\ conn'[c] = "closed" /\ wire'[e] = <<>> /\ wire'[p] = wire[p] /\ idle' = idle
      /\ config' = config /\ sessions' = sessions /\ at' = at /\ loop' = loop
  BY <1>1, EndsOf DEF Leave, Domains, clientOnly
<1>3. Same(e) /\ Same(p)
  BY DEF Leave, exchange, Same, SameTalk
<1>4. Gone(e)' /\ ~Talking(c)' /\ ~Unopened(c)'
  BY <1>2, EndsOf DEF Gone, Talking, Unopened
<1>5. ASSUME Kept(c)' PROVE Kept(c) /\ AllSaid(e) /\ (Gone(p)' => AllSaid(p))
  <2>1. config.kind[c] = "honest" /\ ~(idle[e] > 0)
    <3>1. e \in Both(c)
      BY DEF Both
    <3>2. config'.kind[c] = "honest" /\ ~(idle'[e] > 0)
      BY <1>4, <1>5, <3>1 DEF Kept, Both
    <3> QED  BY <1>2, <3>2
  <2>2. conn[c] = "open" /\ ~Unopened(c)
    BY <2>1 DEF Runs, Unopened
  <2>3. Gone(p)' <=> Gone(p)
    BY <1>2, <2>2, EndsOf DEF Gone
  <2>4. ~Gone(e)
    BY <2>2, EndsOf DEF Gone
  <2>5. \A f \in Both(c) : Gone(f) => Gone(f)' /\ idle'[f] = idle[f]
    BY <1>2, <2>3, <2>4, EndsOf
  <2>6. Kept(c)
    BY <1>2, <1>4, <1>5, <2>2, <2>5, KeptBefore
  <2>7. Gone(p) => AllSaid(p)
    BY <1>1, <2>6 DEF Connection, Both
  <2> QED  BY <2>1, <2>3, <2>6, <2>7
<1>6. Rests(c)
  <2>1. \A f \in Both(c) : Same(f) /\ (wire'[f] = wire[f] \/ (wire'[f] = <<>> /\ Gone(f)'))
    BY <1>2, <1>3, <1>4, EndsOf
  <2>2. Kept(c)' => Kept(c) /\ \A f \in Both(c) : Gone(f)' => AllSaid(f)
    BY <1>5, EndsOf
  <2> QED  BY <1>2, <1>4, <2>1, <2>2 DEF Rests
<1> QED  BY <1>6, RestingStays

(* A session is erased.                                                    *)
Dropped(c) ==
  /\ c \in sessions /\ c \notin sessions'
  /\ config' = config /\ conn'[c] = conn[c] /\ at'[c] = at[c]
  /\ wire'[AtClient(c)] = wire[AtClient(c)] /\ wire'[AtServer(c)] = <<>>
  /\ \A e \in Both(c) : Same(e) /\ idle'[e] = idle[e]
  /\ Kept(c) /\ config.kind[c] = "honest" /\ ~(idle[AtServer(c)] > 0) => AllSaid(AtServer(c))

LEMMA DroppedStays ==
  ASSUME TalkInv, NEW c \in Clients, Dropped(c)
  PROVE  Connection(c)'
<1> DEFINE e == AtClient(c)
           p == AtServer(c)
<1>1. Connection(c)
  BY DEF TalkInv
<1>2. ~Unopened(c) /\ conn[c] \in {"open", "closed"}
  BY <1>1 DEF Connection, Dropped, Unopened
<1>3. Gone(p)' /\ ~Gone(p) /\ (Gone(e)' <=> Gone(e)) /\ ~Talking(c)' /\ ~Unopened(c)'
  BY <1>2, EndsOf DEF Gone, Talking, Unopened, Dropped
<1>4. e \in Both(c) /\ p \in Both(c)
  BY DEF Both
<1>5. ASSUME Kept(c)' PROVE Kept(c) /\ AllSaid(p) /\ (Gone(e)' => AllSaid(e))
  <2>1. config.kind[c] = "honest" /\ ~(idle[p] > 0)
    <3>1. config'.kind[c] = "honest" /\ ~(idle'[p] > 0)
      BY <1>3, <1>4, <1>5 DEF Kept, Both
    <3> QED  BY <1>4, <3>1 DEF Dropped
  <2>2. \A f \in Both(c) : Gone(f) => Gone(f)' /\ idle'[f] = idle[f]
    BY <1>3, EndsOf DEF Dropped
  <2>3. Kept(c)
    <3>1. config' = config
      BY DEF Dropped
    <3> QED  BY <1>2, <1>3, <1>5, <2>2, <3>1, KeptBefore
  <2>4. Gone(e) => AllSaid(e)
    BY <1>1, <1>4, <2>3 DEF Connection
  <2> QED  BY <1>3, <2>1, <2>3, <2>4 DEF Dropped
<1>6. Rests(c)
  <2>1. \A f \in Both(c) : Same(f) /\ (wire'[f] = wire[f] \/ (wire'[f] = <<>> /\ Gone(f)'))
    BY <1>3, EndsOf DEF Dropped
  <2>2. Kept(c)' => Kept(c) /\ \A f \in Both(c) : Gone(f)' => AllSaid(f)
    BY <1>5, EndsOf
  <2> QED  BY <1>3, <2>1, <2>2 DEF Rests, Dropped
<1> QED  BY <1>6, RestingStays

(* A step of one of the ends.                                              *)
Moves(c) ==
  /\ ~Unopened(c)
  /\ config' = config /\ conn'[c] = conn[c] /\ (c \in sessions' <=> c \in sessions)
  /\ \A e \in Both(c) : Gone(e) => Same(e) /\ idle'[e] = idle[e]
  /\ Kept(c) => Conversation(c)' /\ ClientArmed(c)' /\ ServerArmed(c)'

LEMMA MovingStays ==
  ASSUME TalkInv, NEW c \in Clients, Moves(c)
  PROVE  Connection(c)'
<1>1. Connection(c)
  BY DEF TalkInv
<1>2. /\ \A e \in Both(c) : Gone(e)' <=> Gone(e)
      /\ Talking(c)' <=> Talking(c)
      /\ Unopened(c)' <=> Unopened(c)
  BY GoneStays DEF Moves
<1>3. ASSUME Kept(c)'
      PROVE  Conversation(c)' /\ ClientArmed(c)' /\ ServerArmed(c)' /\ (\A e \in Both(c) : Gone(e) => AllSaid(e))'
  <2>1. Kept(c)
    BY <1>2, <1>3, KeptBefore DEF Moves
  <2>2. ASSUME NEW e \in Both(c), Gone(e)' PROVE AllSaid(e)'
    <3>1. Gone(e) /\ AllSaid(e) /\ Same(e)
      BY <1>1, <1>2, <2>1, <2>2 DEF Connection, Moves
    <3> QED  BY <3>1 DEF AllSaid, Same, SameTalk
  <2>3. (\A e \in Both(c) : Gone(e) => AllSaid(e))'
    BY <2>2 DEF Both
  <2> QED  BY <2>1, <2>3 DEF Moves
<1> QED  BY <1>2, <1>3 DEF Connection, Moves

-----------------------------------------------------------------------------
(* The steps of a client.                                                  *)

LEMMA ReadWriteFrame ==
  ASSUME Domains, NEW c \in Clients, NEW e \in Both(c), ReadWrite(e)
  PROVE  /\ Same(Peer(e)) /\ idle'[Peer(e)] = idle[Peer(e)]
         /\ \A d \in Clients \ {c} : \A f \in Both(d) :
              Same(f) /\ wire'[f] = wire[f] /\ idle'[f] = idle[f]
<1>1. ASSUME NEW f \in Endpoints, f # e
      PROVE  Same(f) /\ idle'[f] = idle[f]
  BY <1>1 DEF ReadWrite, Domains, Same, SameTalk
<1>2. ASSUME NEW f \in Endpoints, f # e, f # Peer(e) PROVE wire'[f] = wire[f]
  BY <1>2 DEF ReadWrite, Domains
<1>3. Peer(e) \in Endpoints /\ Peer(e) # e /\ Peer(e) \in Both(c)
  BY EndsOf
<1>4. ASSUME NEW d \in Clients \ {c}, NEW f \in Both(d) PROVE f \in Endpoints /\ f # e /\ f # Peer(e)
  BY <1>3, EndsOf, OtherEnds
<1> QED  BY <1>1, <1>2, <1>3, <1>4

LEMMA ProcessFrame ==
  ASSUME Domains, NEW S, Process(S), inbuf' = inbuf, written' = written, NEW e \in Endpoints
  PROVE  /\ e \in S /\ cmd[e] # None => Speaks(e)
         /\ ~(e \in S /\ cmd[e] # None) => Same(e)
<1> DEFINE busy == {f \in S : cmd[f] # None}
<1>1. e \in busy <=> e \in S /\ cmd[e] # None
  OBVIOUS
<1>2. /\ outbuf' = [f \in Endpoints |->
                     IF f \in busy THEN outbuf[f] \o Reply(f) \o (IF SaysBye(f) THEN <<"bye">> ELSE <<>>)
                     ELSE outbuf[f]]
      /\ expected' = [f \in Endpoints |-> IF f \in busy THEN ExpectedAfter(f) ELSE expected[f]]
      /\ sentBye' = [f \in Endpoints |-> sentBye[f] \/ (f \in busy /\ SaysBye(f))]
      /\ gotBye' = [f \in Endpoints |-> gotBye[f] \/ (f \in busy /\ cmd[f] = "bye")]
      /\ cmd' = [f \in Endpoints |-> IF f \in busy THEN None ELSE cmd[f]]
  BY DEF Process
<1> HIDE DEF busy
<1>3. /\ outbuf'[e] = IF e \in busy THEN outbuf[e] \o Reply(e) \o (IF SaysBye(e) THEN <<"bye">> ELSE <<>>)
                      ELSE outbuf[e]
      /\ expected'[e] = IF e \in busy THEN ExpectedAfter(e) ELSE expected[e]
      /\ cmd'[e] = IF e \in busy THEN None ELSE cmd[e]
  BY <1>2
<1>4. sentBye'[e] = (sentBye[e] \/ (e \in busy /\ SaysBye(e)))
  BY <1>2, Zenon
<1>5. gotBye'[e] = (gotBye[e] \/ (e \in busy /\ cmd[e] = "bye"))
  BY <1>2, Zenon
<1>6. sentBye[e] \in BOOLEAN /\ gotBye[e] \in BOOLEAN
  BY DEF Domains
<1>7. ASSUME e \in busy PROVE Speaks(e)
  <2>1. sentBye'[e] = (sentBye[e] \/ SaysBye(e))
    BY <1>4, <1>7, Zenon
  <2>2. gotBye'[e] = (gotBye[e] \/ cmd[e] = "bye")
    BY <1>5, <1>7, Zenon
  <2>3. outbuf'[e] = (outbuf[e] \o Reply(e)) \o Bye(e)
    BY <1>3, <1>7 DEF Bye
  <2> QED  BY <1>1, <1>3, <1>7, <2>1, <2>2, <2>3 DEF Speaks
<1>8. ASSUME e \notin busy PROVE Same(e)
  <2>1. sentBye'[e] = sentBye[e] /\ gotBye'[e] = gotBye[e]
    BY <1>4, <1>5, <1>6, <1>8
  <2> QED  BY <1>3, <1>8, <2>1 DEF Same, SameTalk
<1> QED  BY <1>1, <1>7, <1>8

LEMMA NothingUnopened ==
  ASSUME TalkInv, NEW c \in Clients, Unopened(c), NEW e \in Both(c)
  PROVE  ~Ready(e) /\ ~IoFails(e) /\ ~Finished(e) /\ cmd[e] = None /\ ~Arms(e, inbuf[e]) /\ ~Gone(Peer(e))
<1>1. Blank(e) /\ Peer(e)[1] = c
  BY EndsOf DEF TalkInv, Connection
<1>2. ~Gone(Peer(e))
  BY <1>1 DEF Gone, Unopened
<1>3. Whole(inbuf[e]) = {}
  BY <1>1, EmptySeq DEF Blank, Whole
<1>4. ~Arms(e, inbuf[e])
  BY <1>3 DEF Arms, CanArm
<1> QED  BY <1>1, <1>2, <1>4 DEF Blank, Ready, ReadReady, WriteReady, WantsWrite, IoFails, Finished

LEMMA ConnectTalk ==
  ASSUME TalkInv, NEW c \in Clients, Connect(c), NEW d \in Clients
  PROVE  Connection(d)'
<1>1. /\ config' = config /\ sessions' = sessions /\ at' = at /\ loop' = loop /\ wire' = wire /\ idle' = idle
      /\ \A e \in Endpoints : Same(e)
  BY DEF Connect, clientOnly, exchange, Same, SameTalk
<1>2. \A e \in Both(d) : Same(e)
  BY <1>1, EndsOf
<1>3. CASE d = c
  <2>1. conn[c] = "none" /\ conn'[c] = "waiting"
    BY DEF Connect, TalkInv, Domains
  <2>2. Unopened(c) /\ c \notin sessions /\ ~Kept(c)'
    BY <2>1 DEF Unopened, Kept, TalkInv, Connection
  <2> QED  BY <1>1, <1>2, <1>3, <2>2, RestingStays DEF Rests
<1>4. CASE d # c
  <2>1. conn'[d] = conn[d]
    BY <1>4 DEF Connect, TalkInv, Domains
  <2> QED  BY <1>1, <1>2, <2>1, ElsewhereStays DEF Elsewhere
<1> QED  BY <1>3, <1>4

(* A client that returns leaves the connections of the others alone.       *)
LEMMA LeaveTalk ==
  ASSUME TalkInv, NEW c \in Clients, Leave(c), Runs(c),
         Unopened(c) => config.kind[c] # "honest" \/ idle[AtClient(c)] > 0,
         Kept(c) /\ config.kind[c] = "honest" /\ ~(idle[AtClient(c)] > 0) => AllSaid(AtClient(c)),
         NEW d \in Clients
  PROVE  Connection(d)'
<1>1. CASE d = c
  BY <1>1, LeftStays
<1>2. CASE d # c
  <2>1. /\ config' = config /\ sessions' = sessions /\ at' = at /\ loop' = loop /\ idle' = idle
        /\ \A e \in Both(d) : Same(e)
    BY DEF Leave, clientOnly, exchange, Same, SameTalk
  <2>2. conn'[d] = conn[d]
    BY <1>2 DEF Leave, TalkInv, Domains
  <2>3. ASSUME NEW e \in Both(d) PROVE wire'[e] = wire[e]
    <3>1. e # AtClient(c) /\ e \in Endpoints
      BY <1>2, EndsOf, OtherEnds DEF Both
    <3> QED  BY <3>1 DEF Leave, TalkInv, Domains
  <2> QED  BY <2>1, <2>2, <2>3, ElsewhereStays DEF Elsewhere
<1> QED  BY <1>1, <1>2

(* A client whose connection fails.                                        *)
LEMMA ClientCut ==
  ASSUME TalkInv, NEW c \in Clients, at[c] = "io", Kept(c), config.kind[c] = "honest", IoFails(AtClient(c))
  PROVE  AllSaid(AtClient(c))
<1> DEFINE e == AtClient(c)
           p == AtServer(c)
<1>1. e \in Both(c) /\ p \in Both(c) /\ Peer(e) = p
  BY EndsOf DEF Both
<1>2. Conversation(c) /\ ClientArmed(c) /\ (Gone(p) => AllSaid(p))
  BY <1>1 DEF TalkInv, Connection
<1>3. AllSaid(p)
  BY <1>1, <1>2 DEF IoFails
<1>4. cmd[e] = None => ~Arms(e, inbuf[e])
  BY <1>2 DEF ClientArmed
<1> QED  BY <1>1, <1>2, <1>3, <1>4, CutClean

LEMMA ClientIoTalk ==
  ASSUME TalkInv, NEW c \in Clients, ClientIo(c), NEW d \in Clients
  PROVE  Connection(d)'
<1> DEFINE e == AtClient(c)
           p == AtServer(c)
<1>0. e \in Both(c) /\ p \in Both(c) /\ Peer(e) = p
  BY EndsOf DEF Both
<1>1. ~Unopened(c) /\ Runs(c) /\ at[c] = "io"
  BY <1>0, NothingUnopened DEF ClientIo
<1>2. conn[c] = "open" /\ ~Gone(e)
  BY <1>1, EndsOf DEF Unopened, Runs, Gone
<1>3. Connection(c) /\ Domains
  BY DEF TalkInv
<1>4. CASE IoFails(e)
  <2>1. Leave(c)
    BY <1>4 DEF ClientIo
  <2>2. Kept(c) /\ config.kind[c] = "honest" => AllSaid(e)
    BY <1>1, <1>4, ClientCut
  <2> QED  BY <1>1, <2>1, <2>2, LeaveTalk
<1>5. CASE ~IoFails(e)
  <2>1. /\ ReadWrite(e)
        /\ at' = [at EXCEPT ![c] = IF cmd'[e] = None THEN "end" ELSE "process"]
        /\ config' = config /\ conn' = conn /\ sessions' = sessions /\ loop' = loop
    BY <1>5 DEF ClientIo, clientOnly
  <2>2. /\ Same(p) /\ idle'[p] = idle[p]
        /\ \A x \in Clients \ {c} : \A f \in Both(x) :
              Same(f) /\ wire'[f] = wire[f] /\ idle'[f] = idle[f]
    BY <1>0, <1>3, <2>1, ReadWriteFrame
  <2>3. CASE d = c
    <3>1. ASSUME Kept(c) PROVE Conversation(c)' /\ ClientArmed(c)' /\ ServerArmed(c)'
      <4>1. Conversation(c) /\ ServerArmed(c)
        BY <1>3, <3>1 DEF Connection
      <4>2. Conversation(c)'
        BY <1>0, <1>5, <2>1, <4>1, ConversationReadWrites
      <4>3. at'[c] # "io"
        BY <1>3, <2>1 DEF Domains
      <4>4. Arms(p, inbuf[p])' <=> Arms(p, inbuf[p])
        BY <2>2, ArmsStays DEF Same
      <4>5. ServerArmed(c)'
        BY <2>1, <2>2, <4>1, <4>4 DEF ServerArmed, Same
      <4> QED  BY <4>2, <4>3, <4>5 DEF ClientArmed
    <3>2. \A f \in Both(c) : Gone(f) => Same(f) /\ idle'[f] = idle[f]
      BY <1>2, <2>2, EndsOf
    <3>3. Moves(c)
      BY <1>1, <2>1, <3>1, <3>2 DEF Moves
    <3> QED  BY <2>3, <3>3, MovingStays
  <2>4. CASE d # c
    <3>1. \A f \in Both(d) : Same(f) /\ wire'[f] = wire[f] /\ idle'[f] = idle[f]
      BY <2>2, <2>4
    <3>2. at'[d] = at[d]
      BY <1>3, <2>1, <2>4 DEF Domains
    <3> QED  BY <2>1, <3>1, <3>2, ElsewhereStays DEF Elsewhere
  <2> QED  BY <2>3, <2>4
<1> QED  BY <1>4, <1>5

(* Only the client's own ends are another's than d's.                      *)
LEMMA NotOurs ==
  ASSUME NEW c \in Clients, NEW d \in Clients, d # c, NEW f \in Both(d)
  PROVE  f \in Endpoints /\ f # AtClient(c) /\ f # AtServer(c)
  BY EndsOf, OtherEnds DEF Both

LEMMA ClientProcessTalk ==
  ASSUME TalkInv, NEW c \in Clients, ClientProcess(c), NEW d \in Clients
  PROVE  Connection(d)'
<1> DEFINE e == AtClient(c)
           p == AtServer(c)
<1>0. e \in Both(c) /\ p \in Both(c) /\ Peer(e) = p /\ e \in Endpoints /\ p \in Endpoints /\ e # p
  BY EndsOf DEF Both
<1>1. Connection(c) /\ Domains
  BY DEF TalkInv
<1>2. /\ Process({e}) /\ at' = [at EXCEPT ![c] = "end"]
      /\ config' = config /\ conn' = conn /\ sessions' = sessions /\ loop' = loop
      /\ inbuf' = inbuf /\ written' = written /\ wire' = wire /\ idle' = idle
  BY DEF ClientProcess, clientOnly
<1>3. at'[c] = "end"
  BY <1>1, <1>2 DEF Domains
<1>4. \A f \in Endpoints : f # e => Same(f)
  BY <1>1, <1>2, ProcessFrame
<1>5. CASE d # c
  <2>1. \A f \in Both(d) : Same(f)
    BY <1>4, <1>5, NotOurs
  <2>2. at'[d] = at[d]
    BY <1>1, <1>2, <1>5 DEF Domains
  <2> QED  BY <1>2, <2>1, <2>2, ElsewhereStays DEF Elsewhere
<1>6. CASE d = c /\ cmd[e] = None
  <2>1. \A f \in Both(c) : Same(f)
    BY <1>0, <1>1, <1>2, <1>4, <1>6, ProcessFrame, EndsOf
  <2> QED  BY <1>2, <1>3, <1>6, <2>1, ElsewhereStays DEF Elsewhere
<1>7. CASE d = c /\ cmd[e] # None
  <2>1. Speaks(e) /\ Same(p)
    BY <1>0, <1>1, <1>2, <1>4, <1>7, ProcessFrame
  <2>2. ~Unopened(c)
    BY <1>0, <1>7, NothingUnopened
  <2>3. ~Gone(e)
    BY <2>2, EndsOf DEF ClientProcess, Runs, Unopened, Gone
  <2>4. ASSUME Kept(c) PROVE Conversation(c)' /\ ClientArmed(c)' /\ ServerArmed(c)'
    <3>1. Conversation(c) /\ ServerArmed(c)
      BY <1>1, <2>4 DEF Connection
    <3>2. Conversation(c)'
      BY <1>0, <1>2, <2>1, <3>1, ConversationSpeaks
    <3>3. Arms(p, inbuf[p])' <=> Arms(p, inbuf[p])
      BY <2>1, ArmsStays DEF Same
    <3>4. ServerArmed(c)'
      BY <1>2, <2>1, <3>1, <3>3 DEF ServerArmed, Same
    <3> QED  BY <1>3, <3>2, <3>4 DEF ClientArmed
  <2>5. \A f \in Both(c) : Gone(f) => Same(f) /\ idle'[f] = idle[f]
    BY <1>2, <2>1, <2>3, EndsOf
  <2> QED  BY <1>2, <1>7, <2>2, <2>4, <2>5, MovingStays DEF Moves
<1> QED  BY <1>5, <1>6, <1>7

(* What an end that has tried to arm can still arm: nothing.               *)
LEMMA ArmedIsArmed ==
  ASSUME NEW c \in Clients, Conversation(c), NEW e \in Both(c),
         cmd'[e] = CmdAfter(e, inbuf[e]), inbuf'[e] = RestAfter(e, inbuf[e]), outbuf'[e] = outbuf[e],
         cmd'[e] = None
  PROVE  ~Arms(e, inbuf[e])'
<1>1. PICK q \in Seq(Commands) : Way(e, q)
  BY HasWay
<1>2. Carries(q, cmd[e], inbuf[e], wire[e], outbuf[Peer(e)], written[Peer(e)])
  BY <1>1 DEF Way
<1>3. ~Arms(e, inbuf[e]) /\ cmd'[e] = cmd[e] /\ inbuf'[e] = inbuf[e]
  BY <1>2, Arming
<1> QED  BY <1>3, ArmsStays

LEMMA ClientNextTalk ==
  ASSUME TalkInv, NEW c \in Clients, ClientNext(c), NEW d \in Clients
  PROVE  Connection(d)'
<1> DEFINE e == AtClient(c)
           p == AtServer(c)
<1>0. e \in Both(c) /\ p \in Both(c) /\ Peer(e) = p /\ e \in Endpoints /\ p \in Endpoints /\ e # p
  BY EndsOf DEF Both
<1>1. Connection(c) /\ Domains /\ Runs(c)
  BY DEF TalkInv, ClientNext
<1>2. CASE Finished(e)
  <2>1. Leave(c)
    BY <1>2 DEF ClientNext
  <2>2. Kept(c) => AllSaid(e)
    BY <1>0, <1>1, <1>2, FinishedSaid DEF Connection
  <2>3. ~Unopened(c)
    BY <1>0, <1>2, NothingUnopened
  <2> QED  BY <1>1, <2>1, <2>2, <2>3, LeaveTalk
<1>3. CASE ~Finished(e)
  <2>1. /\ inbuf' = [inbuf EXCEPT ![e] = RestAfter(e, @)]
        /\ cmd' = [cmd EXCEPT ![e] = CmdAfter(e, inbuf[e])]
        /\ at' = [at EXCEPT ![c] = "io"]
        /\ config' = config /\ conn' = conn /\ sessions' = sessions /\ loop' = loop
        /\ written' = written /\ wire' = wire /\ idle' = idle
        /\ outbuf' = outbuf /\ expected' = expected /\ sentBye' = sentBye /\ gotBye' = gotBye
    BY <1>3 DEF ClientNext, clientOnly, exchange
  <2>2. inbuf'[e] = RestAfter(e, inbuf[e]) /\ cmd'[e] = CmdAfter(e, inbuf[e])
    BY <1>0, <1>1, <2>1 DEF Domains
  <2>3. \A f \in Endpoints : f # e => Same(f)
    BY <1>1, <2>1 DEF Domains, Same, SameTalk
  <2>4. CASE d # c
    <3>1. \A f \in Both(d) : Same(f)
      BY <2>3, <2>4, NotOurs
    <3>2. at'[d] = at[d]
      BY <1>1, <2>1, <2>4 DEF Domains
    <3> QED  BY <2>1, <3>1, <3>2, ElsewhereStays DEF Elsewhere
  <2>5. CASE d = c /\ Unopened(c)
    <3>1. ~Arms(e, inbuf[e])
      BY <1>0, <2>5, NothingUnopened
    <3>2. Same(e) /\ Same(p)
      BY <1>0, <2>1, <2>2, <2>3, <3>1 DEF RestAfter, CmdAfter, Same, SameTalk
    <3>3. Unopened(c)' /\ ~Kept(c)'
      BY <2>1, <2>5 DEF Unopened, Kept
    <3>4. Blank(e) /\ Blank(p) /\ c \notin sessions
      BY <1>0, <1>1, <2>5 DEF Connection
    <3>5. Blank(e)' /\ Blank(p)'
      BY <2>1, <3>2, <3>4 DEF Blank, Same, SameTalk
    <3>6. (\A f \in Both(c) : Blank(f))'
      BY <3>5 DEF Both
    <3> QED  BY <2>1, <2>5, <3>3, <3>4, <3>6 DEF Connection
  <2>6. CASE d = c /\ ~Unopened(c)
    <3>1. ~Gone(e)
      BY <1>1, <2>6, EndsOf DEF Runs, Unopened, Gone
    <3>2. Same(p)
      BY <1>0, <2>3
    <3>3. ASSUME Kept(c) PROVE Conversation(c)' /\ ClientArmed(c)' /\ ServerArmed(c)'
      <4>1. Conversation(c) /\ ServerArmed(c)
        BY <1>1, <3>3 DEF Connection
      <4>2. Conversation(c)'
        BY <1>0, <2>1, <2>2, <3>2, <4>1, ConversationArms DEF SameTalk
      <4>3. ClientArmed(c)'
        BY <1>0, <2>1, <2>2, <4>1, ArmedIsArmed DEF ClientArmed
      <4>4. Arms(p, inbuf[p])' <=> Arms(p, inbuf[p])
        BY <3>2, ArmsStays DEF Same
      <4>5. ServerArmed(c)'
        BY <2>1, <3>2, <4>1, <4>4 DEF ServerArmed, Same
      <4> QED  BY <4>2, <4>3, <4>5
    <3>4. \A f \in Both(c) : Gone(f) => Same(f) /\ idle'[f] = idle[f]
      BY <2>1, <3>1, <3>2, EndsOf
    <3> QED  BY <2>1, <2>6, <3>3, <3>4, MovingStays DEF Moves
  <2> QED  BY <2>4, <2>5, <2>6
<1> QED  BY <1>2, <1>3

LEMMA ClientTalk ==
  ASSUME TalkInv, NEW c \in Clients, Connect(c) \/ ClientStep(c) \/ Die(c), NEW d \in Clients
  PROVE  Connection(d)'
<1>1. CASE Connect(c)
  BY <1>1, ConnectTalk
<1>2. CASE ClientIo(c)
  BY <1>2, ClientIoTalk
<1>3. CASE ClientInstant(c)
  <2>1. /\ config' = config /\ sessions' = sessions /\ conn' = conn /\ loop' = loop
        /\ wire' = wire /\ idle' = idle
        /\ at' = [at EXCEPT ![c] = "process"]
        /\ \A e \in Both(d) : Same(e)
    BY <1>3 DEF ClientInstant, clientOnly, exchange, Same, SameTalk
  <2>2. at'[d] = "io" => at[d] = "io"
    BY <2>1 DEF TalkInv, Domains
  <2> QED  BY <2>1, <2>2, ElsewhereStays DEF Elsewhere
<1>4. CASE ClientTimeout(c)
  BY <1>4, LeaveTalk DEF ClientTimeout
<1>5. CASE ClientProcess(c)
  BY <1>5, ClientProcessTalk
<1>6. CASE ClientNext(c)
  BY <1>6, ClientNextTalk
<1>7. CASE Die(c)
  BY <1>7, LeaveTalk DEF Die
<1> QED  BY <1>1, <1>2, <1>3, <1>4, <1>5, <1>6, <1>7 DEF ClientStep

-----------------------------------------------------------------------------
(* The steps of the server.                                                *)

LEMMA NothingCarried == Carries(<<>>, None, <<>>, <<>>, <<>>, 0)
<1>1. <<>> \o <<>> = <<>> /\ Len(<<>>) = 0
  BY ConcatEmptySeq, EmptySeq
<1>2. <<>> \in Seq(Signals) /\ <<>> \in Seq(Commands) /\ 0 \in Nat
  OBVIOUS
<1> DEFINE z == [i \in 0..0 |-> 0]
<1>3. z \in [0..Len(<<>>) -> 0..Len(<<>>)] /\ z \in [0..Len(<<>>) -> 0..(MaxCmd - 1)]
  BY <1>1, LimitsAssumption
<1>4. Parse(<<>>, 0, <<>>, <<>>, 0, z, z)
  <2>1. z[0] = 0
    OBVIOUS
  <2>2. 1..Len(<<>>) = {}
    BY <1>1
  <2> HIDE DEF z
  <2> QED  BY <1>1, <2>1, <2>2 DEF Parse
<1> HIDE DEF z
<1>5. Parses(<<>>, 0, <<>>, <<>>, 0)
  BY <1>3, <1>4 DEF Parses
<1> QED  BY <1>1, <1>2, <1>5 DEF Carries

(* The greeting begins the conversation.                                   *)
LEMMA HelloProtocol ==
  ASSUME config \in Configs, NEW c \in Clients,
         \A e \in Both(c) : /\ expected[e] = config.asks["client"] + config.asks["server"]
                            /\ sentBye[e] = FALSE /\ gotBye[e] = FALSE
  PROVE  Protocol(c, <<"hello">>, <<>>)
<1> DEFINE a == <<"hello">>
           e == AtClient(c)
           p == AtServer(c)
<1>0. e \in Both(c) /\ p \in Both(c) /\ Peer(e) = p /\ Peer(p) = e
  BY EndsOf DEF Both
<1>1. ~Plain(a)
  BY DEF Plain
<1>2. Cnt("ask", a) = 0 /\ Cnt("data", a) = 0 /\ Cnt("ask", <<>>) = 0 /\ Cnt("data", <<>>) = 0
  BY CntOne
<1>3. Decent(c, a) /\ Decent(c, <<>>)
  BY EmptySeq DEF Decent
<1>4. ByeWay(a, FALSE, FALSE) /\ ByeWay(<<>>, FALSE, FALSE)
  BY EmptySeq DEF ByeWay
<1>5. Shape(a, <<>>)
  BY DEF Shape
<1>6. PICK u \in Nat, v \in Nat : u = config.asks["client"] /\ v = config.asks["server"]
  <2>1. "client" \in Sides /\ "server" \in Sides
    BY DEF Sides
  <2> QED  BY <2>1, AsksOf
<1> HIDE DEF a
<1>7. /\ Unasked("client", Plain(a)) = u
      /\ Unasked("server", Plain(a) /\ Plain(<<>>)) = v
  BY <1>1, <1>6 DEF Unasked
<1>8. /\ expected[e] = u + v /\ sentBye[e] = FALSE /\ gotBye[e] = FALSE
      /\ expected[p] = u + v /\ sentBye[p] = FALSE /\ gotBye[p] = FALSE
  BY <1>0, <1>6
<1> DEFINE z == <<>>
<1> HIDE DEF z
<1>9. End(a, z, FALSE, u, v, u + v, FALSE, FALSE, FALSE) /\ End(z, a, FALSE, v, u, u + v, FALSE, FALSE, FALSE)
  <2>1. /\ Cnt("ask", a) = 0 /\ Cnt("data", a) = 0 /\ Cnt("ask", z) = 0 /\ Cnt("data", z) = 0
        /\ ByeWay(a, FALSE, FALSE) /\ ByeWay(z, FALSE, FALSE)
    BY <1>2, <1>4 DEF z
  <2>2. 0 + 0 + 0 + u + v = u + v /\ 0 + 0 + 0 + v + u = u + v
    OBVIOUS
  <2> HIDE DEF a
  <2> QED  BY <2>1, <2>2 DEF End
<1>10. End(a, <<>>, FALSE, u, v, u + v, FALSE, FALSE, FALSE) /\ End(<<>>, a, FALSE, v, u, u + v, FALSE, FALSE, FALSE)
  BY <1>9 DEF z
<1>11. Plain(a) = FALSE /\ (Plain(a) /\ Plain(<<>>)) = FALSE
  <2>1. Plain(a) \in BOOLEAN
    BY DEF Plain
  <2> QED  BY <1>1, <2>1
<1>12. ClientEnd(c, a, <<>>)
  BY <1>7, <1>8, <1>10, <1>11 DEF ClientEnd
<1>13. ServerEnd(c, a, <<>>)
  BY <1>7, <1>8, <1>10, <1>11 DEF ServerEnd
<1>14. Protocol(c, a, <<>>)
  BY <1>3, <1>5, <1>12, <1>13 DEF Protocol
<1> QED  BY <1>14 DEF a

LEMMA AcceptTalk ==
  ASSUME TalkInv, NEW c \in Clients, Accept(c), NEW d \in Clients
  PROVE  Connection(d)'
<1> DEFINE e == AtClient(c)
           p == AtServer(c)
<1>0. e \in Both(c) /\ p \in Both(c) /\ Peer(e) = p /\ Peer(p) = e /\ e \in Endpoints /\ p \in Endpoints /\ e # p
  BY EndsOf DEF Both
<1>1. Connection(c) /\ Domains /\ config \in Configs
  BY DEF TalkInv
<1>2. /\ conn' = [conn EXCEPT ![c] = "open"] /\ conn[c] = "waiting"
      /\ sessions' = sessions \cup {c}
      /\ outbuf' = [outbuf EXCEPT ![p] = <<"hello">>]
      /\ idle' = [idle EXCEPT ![p] = 0]
      /\ loop' = "process" /\ config' = config /\ at' = at /\ inbuf' = inbuf /\ written' = written
      /\ cmd' = cmd /\ expected' = expected /\ sentBye' = sentBye /\ gotBye' = gotBye /\ wire' = wire
  BY DEF Accept, Waiting, serverOnly
<1>3. CASE d # c
  <2>1. ASSUME NEW f \in Both(d) PROVE Same(f) /\ idle'[f] = idle[f]
    <3>1. f \in Endpoints /\ f # p
      BY <1>3, NotOurs
    <3> QED  BY <1>1, <1>2, <3>1 DEF Domains, Same, SameTalk
  <2>2. conn'[d] = conn[d] /\ (d \in sessions' <=> d \in sessions)
    BY <1>1, <1>2, <1>3 DEF Domains
  <2> QED  BY <1>2, <2>1, <2>2, ElsewhereStays DEF Elsewhere
<1>4. CASE d = c
  <2>1. Blank(e) /\ Blank(p)
    BY <1>0, <1>1, <1>2 DEF Connection, Unopened
  <2>2. conn'[c] = "open" /\ c \in sessions' /\ ~Unopened(c)'
    BY <1>1, <1>2 DEF Domains, Unopened
  <2>3. ~Gone(e)' /\ ~Gone(p)'
    BY <2>2, EndsOf DEF Gone
  <2>4. (\A f \in Both(c) : Gone(f) => AllSaid(f))'
    BY <2>3 DEF Both
  <2>5. ServerArmed(c)'
    BY <1>2 DEF ServerArmed
  <2>6. ClientArmed(c)'
    <3>1. inbuf'[e] = <<>>
      BY <1>2, <2>1 DEF Blank
    <3>2. (Whole(inbuf[e]) = {})'
      BY <3>1, EmptySeq DEF Whole
    <3> QED  BY <3>2 DEF ClientArmed, Arms, CanArm
  <2>7. Conversation(c)'
    <3> DEFINE a == <<"hello">>
    <3>1. a \in Seq(Commands) /\ <<>> \in Seq(Commands)
      BY DEF Commands
    <3>2. <<>> \o a = a
      BY <3>1, ConcatEmptySeq
    <3> HIDE DEF a
    <3>3. Carries(a, None, <<>>, <<>>, a, 0)
      <4>1. Carries(<<>> \o a, None, <<>>, <<>>, <<>> \o a, 0)
        BY <3>1, NothingCarried, CarriesQueue
      <4> QED  BY <3>2, <4>1
    <3>4. /\ cmd'[e] = None /\ inbuf'[e] = <<>> /\ wire'[e] = <<>> /\ outbuf'[p] = a /\ written'[p] = 0
          /\ cmd'[p] = None /\ inbuf'[p] = <<>> /\ wire'[p] = <<>> /\ outbuf'[e] = <<>> /\ written'[e] = 0
      BY <1>0, <1>1, <1>2, <2>1 DEF Blank, Domains, a
    <3>5. \A f \in Both(c) : /\ expected[f] = config.asks["client"] + config.asks["server"]
                             /\ sentBye[f] = FALSE /\ gotBye[f] = FALSE
      BY <2>1, EndsOf DEF Blank
    <3>6. Protocol(c, a, <<>>)
      BY <1>1, <3>5, HelloProtocol DEF a
    <3>7. Protocol(c, a, <<>>)'
      BY <1>2, <3>6, ProtocolStays DEF SameTalk
    <3>8. Way(e, a)' /\ Way(p, <<>>)'
      BY <1>0, <3>3, <3>4, NothingCarried DEF Way
    <3> QED  BY <3>1, <3>7, <3>8 DEF Conversation
  <2> QED  BY <1>4, <2>2, <2>4, <2>5, <2>6, <2>7 DEF Connection
<1> QED  BY <1>3, <1>4

(* Sessions end.                                                           *)
LEMMA EraseTalk ==
  ASSUME TalkInv, NEW S \in SUBSET sessions, Erase(S),
         config' = config, conn' = conn, at' = at, idle' = idle, \A e \in Endpoints : Same(e),
         loop' = "probe" => loop = "probe",
         \A c \in S : Kept(c) /\ config.kind[c] = "honest" /\ ~(idle[AtServer(c)] > 0) => AllSaid(AtServer(c)),
         NEW d \in Clients
  PROVE  Connection(d)'
<1>1. AtClient(d) \in Endpoints /\ AtServer(d) \in Endpoints
      /\ \A e \in Both(d) : e \in Endpoints /\ (e = AtClient(d) \/ e = AtServer(d))
  BY EndsOf
<1>2. \A e \in Both(d) : Same(e)
  BY <1>1
<1>3. wire'[AtClient(d)] = wire[AtClient(d)]
  BY <1>1 DEF Erase, AtClient, AtServer
<1>4. wire'[AtServer(d)] = IF d \in S THEN <<>> ELSE wire[AtServer(d)]
  BY <1>1 DEF Erase, AtServer
<1>5. sessions' = sessions \ S
  BY DEF Erase
<1>6. CASE d \in S
  BY <1>2, <1>3, <1>4, <1>5, <1>6, DroppedStays DEF Dropped
<1>7. CASE d \notin S
  <2>1. \A e \in Both(d) : wire'[e] = wire[e]
    BY <1>1, <1>3, <1>4, <1>7
  <2> QED  BY <1>2, <1>5, <1>7, <2>1, ElsewhereStays DEF Elsewhere
<1> QED  BY <1>6, <1>7

LEMMA ServerArmTalk ==
  ASSUME TalkInv, ServerArm, NEW d \in Clients
  PROVE  Connection(d)'
<1> DEFINE e == AtServer(d)
           p == AtClient(d)
           bad == {c \in sessions : Undecodable(AtServer(c), inbuf[AtServer(c)])}
           arms == {AtServer(c) : c \in sessions}
<1>0. e \in Both(d) /\ p \in Both(d) /\ Peer(e) = p /\ e \in Endpoints /\ p \in Endpoints /\ e # p
      /\ \A f \in Both(d) : f = e \/ f = p
  BY EndsOf DEF Both
<1>1. Connection(d) /\ Domains
  BY DEF TalkInv
<1>2. /\ inbuf' = [f \in Endpoints |-> IF f \in arms THEN RestAfter(f, inbuf[f]) ELSE inbuf[f]]
      /\ cmd' = [f \in Endpoints |-> IF f \in arms THEN CmdAfter(f, inbuf[f]) ELSE cmd[f]]
      /\ Erase(bad) /\ config' = config /\ at' = at /\ conn' = conn /\ written' = written /\ idle' = idle
      /\ outbuf' = outbuf /\ expected' = expected /\ sentBye' = sentBye /\ gotBye' = gotBye
  BY DEF ServerArm, serverOnly, exchange
<1>3. (e \in arms <=> d \in sessions) /\ p \notin arms
  BY DEF AtServer, AtClient
<1>4. /\ d \in sessions' <=> d \in sessions \ bad
      /\ wire'[p] = wire[p] /\ wire'[e] = IF d \in bad THEN <<>> ELSE wire[e]
  <2>1. wire' = [f \in Endpoints |-> IF f \in {AtServer(c) : c \in bad} THEN <<>> ELSE wire[f]]
        /\ sessions' = sessions \ bad
    BY <1>2 DEF Erase
  <2>2. e \in {AtServer(c) : c \in bad} <=> d \in bad
    BY DEF AtServer
  <2>3. p \notin {AtServer(c) : c \in bad}
    BY DEF AtServer, AtClient
  <2> HIDE DEF bad
  <2> QED  BY <1>0, <2>1, <2>2, <2>3
<1>5. /\ inbuf'[p] = inbuf[p] /\ cmd'[p] = cmd[p]
      /\ inbuf'[e] = IF d \in sessions THEN RestAfter(e, inbuf[e]) ELSE inbuf[e]
      /\ cmd'[e] = IF d \in sessions THEN CmdAfter(e, inbuf[e]) ELSE cmd[e]
  <2> HIDE DEF arms
  <2> QED  BY <1>0, <1>2, <1>3
<1>6. Same(p)
  BY <1>2, <1>5 DEF Same, SameTalk
<1>7. d \in bad <=> d \in sessions /\ Undecodable(e, inbuf[e])
  OBVIOUS
<1> HIDE DEF bad, arms
<1>8. CASE d \notin sessions
  <2>1. Same(e)
    BY <1>2, <1>5, <1>8 DEF Same, SameTalk
  <2>2. d \notin bad
    BY <1>7, <1>8
  <2> QED  BY <1>0, <1>2, <1>4, <1>6, <1>8, <2>1, <2>2, ElsewhereStays DEF Elsewhere
<1>9. CASE d \in sessions /\ Undecodable(e, inbuf[e])
  <2>1. Same(e)
    BY <1>2, <1>5, <1>9 DEF Arms, RestAfter, CmdAfter, Same, SameTalk
  <2>2. ~(Kept(d) /\ config.kind[d] = "honest")
    BY <1>0, <1>1, <1>9, NeverUndecodable DEF Connection
  <2>3. d \in sessions /\ d \notin sessions' /\ wire'[e] = <<>>
    BY <1>4, <1>7, <1>9
  <2> QED  BY <1>0, <1>2, <1>4, <1>6, <2>1, <2>2, <2>3, DroppedStays DEF Dropped
<1>10. CASE d \in sessions /\ ~Undecodable(e, inbuf[e])
  <2>1. ~Unopened(d)
    BY <1>1, <1>10 DEF Connection
  <2>2. d \notin bad /\ d \in sessions' /\ wire'[e] = wire[e]
    BY <1>4, <1>7, <1>10
  <2>3. ~Gone(e)
    BY <1>10, EndsOf DEF Gone
  <2>4. ASSUME Kept(d) PROVE Conversation(d)' /\ ClientArmed(d)' /\ ServerArmed(d)'
    <3>1. Conversation(d) /\ ClientArmed(d)
      BY <1>1, <2>4 DEF Connection
    <3>2. cmd'[e] = CmdAfter(e, inbuf[e]) /\ inbuf'[e] = RestAfter(e, inbuf[e]) /\ outbuf'[e] = outbuf[e]
      BY <1>2, <1>5, <1>10
    <3>3. Conversation(d)'
      <4>1. \A f \in Both(d) : wire'[f] = wire[f]
        BY <1>0, <1>4, <2>2
      <4> QED  BY <1>0, <1>2, <1>6, <3>1, <3>2, <4>1, ConversationArms DEF SameTalk
    <3>4. ServerArmed(d)'
      BY <1>0, <3>1, <3>2, ArmedIsArmed DEF ServerArmed
    <3>5. Arms(p, inbuf[p])' <=> Arms(p, inbuf[p])
      BY <1>6, ArmsStays DEF Same
    <3>6. ClientArmed(d)'
      BY <1>2, <1>6, <3>1, <3>5 DEF ClientArmed, Same
    <3> QED  BY <3>3, <3>4, <3>6
  <2>5. \A f \in Both(d) : Gone(f) => Same(f) /\ idle'[f] = idle[f]
    BY <1>0, <1>2, <1>6, <2>3
  <2> QED  BY <1>2, <1>10, <2>1, <2>2, <2>4, <2>5, MovingStays DEF Moves
<1> QED  BY <1>8, <1>9, <1>10

(* A session that is dropped when its input or output fails.               *)
LEMMA ServerCut ==
  ASSUME TalkInv, NEW c \in Clients, ServerIo(c), Kept(c), config.kind[c] = "honest",
         LET e == AtServer(c) IN IoFails(e) \/ (ReadReady(e) /\ Undecodable(e, Input(e)))
  PROVE  AllSaid(AtServer(c))
<1> DEFINE e == AtServer(c)
           p == AtClient(c)
<1>0. e \in Both(c) /\ p \in Both(c) /\ Peer(e) = p
  BY EndsOf DEF Both
<1>1. Conversation(c) /\ ServerArmed(c) /\ (Gone(p) => AllSaid(p))
  BY <1>0 DEF TalkInv, Connection
<1>2. ~(ReadReady(e) /\ Undecodable(e, Input(e)))
  BY <1>0, <1>1, NeverUndecodable
<1>3. IoFails(e)
  BY <1>2
<1>4. AllSaid(p)
  BY <1>0, <1>1, <1>3 DEF IoFails
<1>5. cmd[e] = None => ~Arms(e, inbuf[e])
  BY <1>1 DEF ServerIo, ServerArmed
<1> QED  BY <1>0, <1>1, <1>3, <1>4, <1>5, CutClean

LEMMA ServerIoTalk ==
  ASSUME TalkInv, NEW c \in Clients, ServerIo(c), NEW d \in Clients
  PROVE  Connection(d)'
<1> DEFINE e == AtServer(c)
           p == AtClient(c)
           fails == IoFails(e) \/ (ReadReady(e) /\ Undecodable(e, Input(e)))
<1>0. e \in Both(c) /\ p \in Both(c) /\ Peer(e) = p /\ \A f \in Both(c) : f = e \/ f = p
  BY EndsOf DEF Both
<1>1. Connection(c) /\ Domains
  BY DEF TalkInv
<1>2. c \in sessions /\ loop' = "process" /\ config' = config /\ at' = at /\ conn' = conn
  BY DEF ServerIo, serverOnly
<1>3. ~Unopened(c) /\ ~Gone(e)
  BY <1>1, <1>2, EndsOf DEF Connection, Gone
<1>4. CASE fails
  <2>1. Erase({c}) /\ idle' = idle /\ \A f \in Endpoints : Same(f)
    BY <1>4 DEF ServerIo, exchange, Same, SameTalk
  <2>2. Kept(c) /\ config.kind[c] = "honest" => AllSaid(e)
    BY <1>4, ServerCut
  <2>3. {c} \in SUBSET sessions
    BY <1>2
  <2>4. \A x \in {c} : Kept(x) /\ config.kind[x] = "honest" /\ ~(idle[AtServer(x)] > 0) => AllSaid(AtServer(x))
    BY <2>2
  <2> HIDE DEF fails
  <2> QED  BY <1>2, <2>1, <2>3, <2>4, EraseTalk
<1>5. CASE ~fails
  <2>1. ReadWrite(e) /\ sessions' = sessions /\ ~IoFails(e)
    BY <1>5 DEF ServerIo
  <2>2. /\ Same(p) /\ idle'[p] = idle[p]
        /\ \A x \in Clients \ {c} : \A f \in Both(x) :
              Same(f) /\ wire'[f] = wire[f] /\ idle'[f] = idle[f]
    BY <1>0, <1>1, <2>1, ReadWriteFrame
  <2> HIDE DEF fails
  <2>3. CASE d # c
    <3>1. \A f \in Both(d) : Same(f) /\ wire'[f] = wire[f] /\ idle'[f] = idle[f]
      BY <2>2, <2>3
    <3> QED  BY <1>2, <2>1, <3>1, ElsewhereStays DEF Elsewhere
  <2>4. CASE d = c
    <3>1. ASSUME Kept(c) PROVE Conversation(c)' /\ ClientArmed(c)' /\ ServerArmed(c)'
      <4>1. Conversation(c) /\ ClientArmed(c)
        BY <1>1, <3>1 DEF Connection
      <4>2. Conversation(c)'
        BY <1>0, <1>2, <2>1, <4>1, ConversationReadWrites
      <4>3. Arms(p, inbuf[p])' <=> Arms(p, inbuf[p])
        BY <2>2, ArmsStays DEF Same
      <4>4. ClientArmed(c)'
        BY <1>2, <2>2, <4>1, <4>3 DEF ClientArmed, Same
      <4> QED  BY <1>2, <4>2, <4>4 DEF ServerArmed
    <3>2. \A f \in Both(c) : Gone(f) => Same(f) /\ idle'[f] = idle[f]
      BY <1>0, <1>3, <2>2
    <3> QED  BY <1>2, <1>3, <2>1, <2>4, <3>1, <3>2, MovingStays DEF Moves
  <2> QED  BY <2>3, <2>4
<1> QED  BY <1>4, <1>5

LEMMA ServerProcessTalk ==
  ASSUME TalkInv, ServerProcess, NEW d \in Clients
  PROVE  Connection(d)'
<1> DEFINE e == AtServer(d)
           p == AtClient(d)
           S == {AtServer(c) : c \in armed \cap sessions}
<1>0. e \in Both(d) /\ p \in Both(d) /\ Peer(e) = p /\ e \in Endpoints /\ p \in Endpoints /\ e # p
      /\ \A f \in Both(d) : f = e \/ f = p
  BY EndsOf DEF Both
<1>1. Connection(d) /\ Domains
  BY DEF TalkInv
<1>2. /\ Process(S) /\ loop' = "reap" /\ inbuf' = inbuf /\ written' = written
      /\ config' = config /\ conn' = conn /\ sessions' = sessions /\ at' = at /\ wire' = wire /\ idle' = idle
  BY DEF ServerProcess, serverOnly
<1>3. p \notin S /\ (e \in S => d \in sessions)
  BY DEF AtServer, AtClient
<1> HIDE DEF S
<1>4. Same(p)
  BY <1>0, <1>1, <1>2, <1>3, ProcessFrame
<1>5. CASE ~(e \in S /\ cmd[e] # None)
  <2>1. Same(e)
    BY <1>0, <1>1, <1>2, <1>5, ProcessFrame
  <2> QED  BY <1>0, <1>2, <1>4, <2>1, ElsewhereStays DEF Elsewhere
<1>6. CASE e \in S /\ cmd[e] # None
  <2>1. Speaks(e)
    BY <1>0, <1>1, <1>2, <1>6, ProcessFrame
  <2>2. ~Unopened(d) /\ ~Gone(e)
    BY <1>1, <1>3, <1>6, EndsOf DEF Connection, Gone
  <2>3. ASSUME Kept(d) PROVE Conversation(d)' /\ ClientArmed(d)' /\ ServerArmed(d)'
    <3>1. Conversation(d) /\ ClientArmed(d)
      BY <1>1, <2>3 DEF Connection
    <3>2. Conversation(d)'
      BY <1>0, <1>2, <1>4, <2>1, <3>1, ConversationSpeaks
    <3>3. Arms(p, inbuf[p])' <=> Arms(p, inbuf[p])
      BY <1>4, ArmsStays DEF Same
    <3>4. ClientArmed(d)'
      BY <1>2, <1>4, <3>1, <3>3 DEF ClientArmed, Same
    <3> QED  BY <1>2, <3>2, <3>4 DEF ServerArmed
  <2>4. \A f \in Both(d) : Gone(f) => Same(f) /\ idle'[f] = idle[f]
    BY <1>0, <1>2, <1>4, <2>2
  <2> QED  BY <1>2, <2>2, <2>3, <2>4, MovingStays DEF Moves
<1> QED  BY <1>5, <1>6

(* Who is reaped has waited for too long, or has finished.                 *)
LEMMA ReapedSaid ==
  ASSUME TalkInv, ServerReap, NEW c \in sessions, c \notin sessions', Kept(c), ~(idle[AtServer(c)] > 0)
  PROVE  AllSaid(AtServer(c))
<1>1. Finished(AtServer(c))
  BY DEF ServerReap, Erase
<1>2. c \in Clients /\ AtServer(c) \in Both(c)
  BY DEF TalkInv, Both
<1>3. Conversation(c)
  BY <1>2 DEF TalkInv, Connection
<1> QED  BY <1>1, <1>2, <1>3, FinishedSaid

LEMMA ServerReapTalk ==
  ASSUME TalkInv, ServerReap, NEW d \in Clients
  PROVE  Connection(d)'
<1>1. PICK S \in SUBSET sessions : Erase(S)
  BY DEF ServerReap
<1>2. /\ config' = config /\ conn' = conn /\ at' = at /\ idle' = idle /\ loop' = "arm"
      /\ \A e \in Endpoints : Same(e)
  BY DEF ServerReap, serverOnly, exchange, Same, SameTalk
<1>3. ASSUME NEW c \in S, Kept(c), ~(idle[AtServer(c)] > 0) PROVE AllSaid(AtServer(c))
  <2>1. c \in sessions /\ c \notin sessions'
    BY <1>1 DEF Erase
  <2> QED  BY <1>3, <2>1, ReapedSaid
<1> QED  BY <1>1, <1>2, <1>3, EraseTalk

LEMMA TickTalk ==
  ASSUME TalkInv, Tick, NEW d \in Clients
  PROVE  Connection(d)'
<1> DEFINE waits == {AtClient(c) : c \in {x \in Clients : Runs(x)}} \cup {AtServer(c) : c \in sessions}
<1>1. /\ config' = config /\ conn' = conn /\ sessions' = sessions /\ wire' = wire /\ at' = at /\ loop = "probe"
      /\ idle' = [e \in Endpoints |-> IF e \in waits /\ idle[e] < 2 THEN idle[e] + 1 ELSE idle[e]]
      /\ \A e \in Endpoints : Same(e)
  BY DEF Tick, exchange, Same, SameTalk
<1>2. ASSUME NEW e \in Both(d), Gone(e) PROVE e \notin waits
  <2>1. CASE e = AtClient(d)
    <3>1. ~Runs(d)
      BY <1>2, <2>1 DEF Gone, Runs, AtClient
    <3> QED  BY <2>1, <3>1 DEF AtClient, AtServer
  <2>2. CASE e = AtServer(d)
    <3>1. d \notin sessions
      BY <1>2, <2>2 DEF Gone, AtServer
    <3> QED  BY <2>2, <3>1 DEF AtClient, AtServer
  <2> QED  BY <2>1, <2>2, EndsOf
<1> HIDE DEF waits
<1>3. \A e \in Both(d) : e \in Endpoints
  BY EndsOf
<1>4. \A e \in Both(d) : Same(e) /\ (Gone(e) => idle'[e] = idle[e])
  BY <1>1, <1>2, <1>3
<1> QED  BY <1>1, <1>4, ElsewhereStays DEF Elsewhere

LEMMA NextTalk ==
  ASSUME TalkInv, [Next]_vars, NEW d \in Clients
  PROVE  Connection(d)'
<1>1. CASE ServerArm
  BY <1>1, ServerArmTalk
<1>2. CASE ServerInstant
  <2>1. /\ config' = config /\ conn' = conn /\ sessions' = sessions /\ wire' = wire /\ idle' = idle /\ at' = at
        /\ loop' = "process" /\ \A e \in Both(d) : Same(e)
    BY <1>2 DEF ServerInstant, serverOnly, exchange, Same, SameTalk
  <2> QED  BY <2>1, ElsewhereStays DEF Elsewhere
<1>3. CASE ServerProcess
  BY <1>3, ServerProcessTalk
<1>4. CASE ServerReap
  BY <1>4, ServerReapTalk
<1>5. CASE \E c \in Clients : Accept(c) \/ ServerIo(c)
  BY <1>5, AcceptTalk, ServerIoTalk
<1>6. CASE Tick
  BY <1>6, TickTalk
<1>7. CASE \E c \in Clients : Connect(c) \/ ClientStep(c) \/ Die(c)
  BY <1>7, ClientTalk
<1>8. CASE UNCHANGED vars
  <2>1. /\ config' = config /\ conn' = conn /\ sessions' = sessions /\ wire' = wire /\ idle' = idle /\ at' = at
        /\ loop' = loop /\ \A e \in Both(d) : Same(e)
    BY <1>8 DEF vars, exchange, Same, SameTalk
  <2> QED  BY <2>1, ElsewhereStays DEF Elsewhere
<1> QED  BY <1>1, <1>2, <1>3, <1>4, <1>5, <1>6, <1>7, <1>8 DEF Next, ServerStep

(* The domains of what the ends keep, and who has a session.               *)
LEMMA ReadWriteDomains ==
  ASSUME Domains, NEW e, ReadWrite(e), conn' = conn, DOMAIN at' = Clients
  PROVE  Domains'
  BY DEF Domains, ReadWrite

LEMMA ProcessDomains ==
  ASSUME Domains, NEW S, Process(S), inbuf' = inbuf, written' = written, wire' = wire, idle' = idle,
         conn' = conn, DOMAIN at' = Clients
  PROVE  Domains'
<1>1. /\ DOMAIN outbuf' = Endpoints /\ DOMAIN cmd' = Endpoints
  BY DEF Process
<1>2. sentBye' \in [Endpoints -> BOOLEAN]
  <2>1. sentBye' = [e \in Endpoints |-> sentBye[e] \/ (e \in {f \in S : cmd[f] # None} /\ SaysBye(e))]
    BY DEF Process
  <2> QED  BY <2>1
<1>3. gotBye' \in [Endpoints -> BOOLEAN]
  <2>1. gotBye' = [e \in Endpoints |-> gotBye[e] \/ (e \in {f \in S : cmd[f] # None} /\ cmd[e] = "bye")]
    BY DEF Process
  <2> QED  BY <2>1
<1> QED  BY <1>1, <1>2, <1>3 DEF Domains

LEMMA NextDomains ==
  ASSUME TalkInv, [Next]_vars
  PROVE  Domains' /\ config' \in Configs /\ sessions' \subseteq Clients
<1>0. Domains /\ config \in Configs /\ sessions \subseteq Clients
  BY DEF TalkInv
<1>1. CASE ServerArm
  BY <1>0, <1>1 DEF ServerArm, Erase, serverOnly, exchange, Domains
<1>2. CASE ServerInstant
  BY <1>0, <1>2 DEF ServerInstant, serverOnly, exchange, Domains
<1>3. CASE ServerProcess
  <2>1. Domains'
    BY <1>0, <1>3, ProcessDomains DEF ServerProcess, serverOnly, Domains
  <2> QED  BY <1>0, <1>3, <2>1 DEF ServerProcess, serverOnly
<1>4. CASE ServerReap
  <2>1. PICK S : Erase(S)
    BY <1>4 DEF ServerReap
  <2> QED  BY <1>0, <1>4, <2>1 DEF ServerReap, Erase, serverOnly, exchange, Domains
<1>5. ASSUME NEW c \in Clients, Accept(c) \/ ServerIo(c) PROVE Domains' /\ config' \in Configs /\ sessions' \subseteq Clients
  <2>1. CASE Accept(c)
    BY <1>0, <2>1 DEF Accept, serverOnly, Domains
  <2>2. CASE ServerIo(c)
    <3>1. CASE Erase({c}) /\ UNCHANGED <<inbuf, written, cmd, exchange, idle, armed>>
      BY <1>0, <2>2, <3>1 DEF ServerIo, Erase, serverOnly, exchange, Domains
    <3>2. CASE ReadWrite(AtServer(c)) /\ UNCHANGED sessions
      <4>1. Domains'
        BY <1>0, <2>2, <3>2, ReadWriteDomains DEF ServerIo, serverOnly, Domains
      <4> QED  BY <1>0, <2>2, <3>2, <4>1 DEF ServerIo, serverOnly
    <3> QED  BY <2>2, <3>1, <3>2 DEF ServerIo
  <2> QED  BY <1>5, <2>1, <2>2
<1>6. CASE Tick
  BY <1>0, <1>6 DEF Tick, exchange, Domains
<1>7. ASSUME NEW c \in Clients, Connect(c) \/ ClientStep(c) \/ Die(c) PROVE Domains' /\ config' \in Configs /\ sessions' \subseteq Clients
  <2>1. CASE Connect(c)
    BY <1>0, <2>1 DEF Connect, clientOnly, exchange, Domains
  <2>2. CASE Leave(c)
    BY <1>0, <2>2 DEF Leave, clientOnly, exchange, Domains
  <2>3. CASE ClientIo(c) /\ ~Leave(c)
    <3>1. ReadWrite(AtClient(c)) /\ conn' = conn /\ config' = config /\ sessions' = sessions
          /\ at' = [at EXCEPT ![c] = IF cmd'[AtClient(c)] = None THEN "end" ELSE "process"]
      BY <2>3 DEF ClientIo, clientOnly
    <3>2. Domains'
      <4>1. DOMAIN at' = Clients
        BY <1>0, <3>1 DEF Domains
      <4> QED  BY <1>0, <3>1, <4>1, ReadWriteDomains
    <3> QED  BY <1>0, <3>1, <3>2
  <2>4. CASE ClientInstant(c)
    BY <1>0, <2>4 DEF ClientInstant, clientOnly, exchange, Domains
  <2>5. CASE ClientProcess(c)
    <3>1. DOMAIN at' = Clients
      BY <1>0, <2>5 DEF ClientProcess, Domains
    <3>2. Domains'
      BY <1>0, <2>5, <3>1, ProcessDomains DEF ClientProcess
    <3> QED  BY <1>0, <2>5, <3>2 DEF ClientProcess, clientOnly
  <2>6. CASE ClientNext(c) /\ ~Leave(c)
    BY <1>0, <2>6 DEF ClientNext, clientOnly, exchange, Domains
  <2> QED  BY <1>7, <2>1, <2>2, <2>3, <2>4, <2>5, <2>6 DEF ClientStep, ClientTimeout, Die
<1>8. CASE UNCHANGED vars
  BY <1>0, <1>8 DEF vars, exchange, Domains
<1> QED  BY <1>1, <1>2, <1>3, <1>4, <1>5, <1>6, <1>7, <1>8 DEF Next, ServerStep

-----------------------------------------------------------------------------
(* The invariant holds, and what follows from it.                          *)

LEMMA InitTalk ==
  ASSUME Init PROVE TalkInv
<1>1. config \in Configs /\ sessions \subseteq Clients /\ Domains
  BY DEF Init, Domains
<1>2. ASSUME NEW c \in Clients PROVE Connection(c)
  <2>1. conn[c] = "none" /\ c \notin sessions
    BY DEF Init
  <2>2. ~Kept(c)
    BY <2>1 DEF Kept
  <2>3. \A e \in Both(c) : Blank(e)
    BY EndsOf DEF Init, Blank
  <2> QED  BY <2>1, <2>2, <2>3 DEF Connection
<1> QED  BY <1>1, <1>2 DEF TalkInv

LEMMA NextTalkInv ==
  ASSUME TalkInv, [Next]_vars PROVE TalkInv'
<1>1. Domains' /\ config' \in Configs /\ sessions' \subseteq Clients
  BY NextDomains
<1>2. \A c \in Clients : Connection(c)'
  BY NextTalk
<1> QED  BY <1>1, <1>2 DEF TalkInv

LEMMA AlwaysTalk == Spec => []TalkInv
  BY InitTalk, NextTalkInv, PTL DEF Spec

(* Nothing on its way in either direction is the end of a conversation.    *)
LEMMA NothingLeft ==
  ASSUME config \in Configs, NEW c \in Clients, Protocol(c, <<>>, <<>>), NEW e \in Both(c)
  PROVE  sentBye[e] /\ gotBye[e]
<1> DEFINE z == <<>>
           p == AtClient(c)
           s == AtServer(c)
<1>1. Plain(z) /\ Cnt("ask", z) = 0 /\ Cnt("data", z) = 0
  <2>1. DOMAIN z = {}
    OBVIOUS
  <2>2. Cnt("ask", z) = 0 /\ Cnt("data", z) = 0
    BY CntOne
  <2> HIDE DEF z
  <2> QED  BY <2>1, <2>2 DEF Plain
<1>2. Unasked("client", TRUE) = 0 /\ Unasked("server", TRUE) = 0
  BY DEF Unasked
<1>3. z = <<>>
  OBVIOUS
<1> HIDE DEF z
<1>4. Plain(z) = TRUE /\ (Plain(z) /\ Plain(z)) = TRUE
  <2>1. Plain(z) \in BOOLEAN
    BY DEF Plain
  <2> QED  BY <1>1, <2>1
<1>5. ClientEnd(c, z, z) /\ ServerEnd(c, z, z)
  BY <1>3 DEF Protocol
<1>6. End(z, z, TRUE, 0, 0, expected[p], sentBye[p], sentBye[s], gotBye[p])
  BY <1>2, <1>4, <1>5 DEF ClientEnd
<1>7. End(z, z, TRUE, 0, 0, expected[s], sentBye[s], sentBye[p], gotBye[s])
  BY <1>2, <1>4, <1>5 DEF ServerEnd
<1>8. sentBye[p] /\ sentBye[s]
  BY <1>1, <1>6, <1>7 DEF End
<1>9. gotBye[p] /\ gotBye[s]
  BY <1>3, <1>6, <1>7, <1>8 DEF End, ByeWay
<1> QED  BY <1>8, <1>9, EndsOf

LEMMA StandstillFull ==
  ASSUME TalkInv, NEW c \in Clients, Standstill(c), NEW e0 \in Both(c)
  PROVE  Len(inbuf[e0]) >= MaxCmd /\ OutSize(e0) > OutLimit
<1>1. Conversation(c) /\ config \in Configs
  BY DEF Standstill, Kept, Talking, TalkInv, Connection
<1>2. PICK a \in Seq(Commands), b \in Seq(Commands) :
        Way(AtClient(c), a) /\ Way(AtServer(c), b) /\ Protocol(c, a, b)
  BY <1>1 DEF Conversation
<1>3. ASSUME NEW e \in Both(c)
      PROVE  /\ cmd[e] = None /\ ~ReadReady(e) /\ ~WriteReady(e) /\ ~CanArm(e, inbuf[e]) /\ ~Finished(e)
             /\ Peer(e) \in Both(c) /\ Peer(Peer(e)) = e
             /\ Len(inbuf[e]) \in Nat /\ Len(wire[e]) \in Nat /\ OutSize(e) \in Nat
             /\ wire[e] = <<>> => Len(wire[e]) = 0
             /\ outbuf[e] = <<>> => OutSize(e) = 0
             /\ Whole(inbuf[e]) = {} => Len(inbuf[e]) < MaxCmd
  <2>1. cmd[e] = None /\ ~Ready(e) /\ ~CanArm(e, inbuf[e]) /\ ~Finished(e)
    BY DEF Standstill, Both
  <2>2. Peer(e) \in Both(c) /\ Peer(Peer(e)) = e
    BY EndsOf
  <2>3. PICK q \in Seq(Commands) : Way(e, q)
    BY <1>1, HasWay
  <2>4. Carries(q, cmd[e], inbuf[e], wire[e], outbuf[Peer(e)], written[Peer(e)])
    BY <2>3 DEF Way
  <2>5. inbuf[e] \in Seq(Signals) /\ wire[e] \in Seq(Signals)
    BY <2>4 DEF Carries
  <2>6. Len(inbuf[e]) \in Nat /\ Len(wire[e]) \in Nat /\ (wire[e] = <<>> => Len(wire[e]) = 0)
    BY <2>5, LenProperties, EmptySeq
  <2>7. PICK q2 \in Seq(Commands) : Way(Peer(e), q2)
    BY <1>1, <2>2, HasWay
  <2>8. outbuf[e] \in Seq(Commands)
    BY <2>2, <2>7 DEF Way, Carries
  <2>9. OutSize(e) \in Nat /\ (outbuf[e] = <<>> => OutSize(e) = 0)
    BY <2>8, OutSizeOf
  <2>10. Whole(inbuf[e]) = {} => Len(inbuf[e]) < MaxCmd
    BY <2>4, ShortInput
  <2> QED  BY <2>1, <2>2, <2>6, <2>9, <2>10 DEF Ready
<1>4. MaxCmd \in Nat /\ OutLimit \in Nat /\ WireSize \in Nat \ {0}
  BY LimitsAssumption
<1>5. ASSUME NEW e \in Both(c), Whole(inbuf[e]) # {} PROVE OutSize(e) > OutLimit
  <2>1. ~(OutSize(e) <= OutLimit)
    BY <1>3, <1>5 DEF CanArm
  <2> QED  BY <1>3, <1>4, <2>1
<1>6. ASSUME NEW e \in Both(c), OutSize(e) > OutLimit
      PROVE  Whole(inbuf[Peer(e)]) # {} /\ Len(inbuf[Peer(e)]) >= MaxCmd
  <2> DEFINE p == Peer(e)
  <2>1. p \in Both(c) /\ outbuf[e] # <<>>
    BY <1>3, <1>4, <1>6
  <2>2. ~(Len(wire[p]) < WireSize)
    BY <1>3, <2>1 DEF WriteReady, WantsWrite
  <2>3. wire[p] # <<>>
    BY <1>3, <1>4, <2>1, <2>2
  <2>4. ~(Len(inbuf[p]) < MaxCmd)
    BY <1>3, <2>1, <2>3 DEF ReadReady, WantsRead
  <2> QED  BY <1>3, <1>4, <2>1, <2>4
<1>7. \E e \in Both(c) : Whole(inbuf[e]) # {}
  <2>1. ASSUME \A e \in Both(c) : Whole(inbuf[e]) = {} PROVE FALSE
    <3>1. ASSUME NEW e \in Both(c) PROVE wire[e] = <<>>
      BY <1>3, <2>1 DEF ReadReady, WantsRead
    <3>2. ASSUME NEW e \in Both(c) PROVE outbuf[e] = <<>>
      <4>1. Peer(e) \in Both(c)
        BY <1>3
      <4>2. Len(wire[Peer(e)]) = 0
        BY <1>3, <3>1, <4>1
      <4> QED  BY <1>3, <1>4, <4>2 DEF WriteReady, WantsWrite
    <3>3. ASSUME NEW e \in Both(c), NEW q \in Seq(Commands), Way(e, q) PROVE q = <<>>
      <4>1. Peer(e) \in Both(c) /\ cmd[e] = None /\ wire[e] = <<>> /\ Whole(inbuf[e]) = {}
        BY <1>3, <2>1, <3>1
      <4>2. Carries(q, None, inbuf[e], <<>>, <<>>, written[Peer(e)])
        BY <3>2, <3>3, <4>1 DEF Way
      <4> QED  BY <4>1, <4>2, ShortInput
    <3>4. AtClient(c) \in Both(c) /\ AtServer(c) \in Both(c)
      BY DEF Both
    <3>5. a = <<>> /\ b = <<>>
      BY <1>2, <3>3, <3>4
    <3>6. Protocol(c, <<>>, <<>>)
      BY <1>2, <3>5
    <3>7. Finished(AtClient(c))
      BY <1>1, <3>2, <3>4, <3>6, NothingLeft DEF Finished
    <3> QED  BY <1>3, <3>4, <3>7
  <2> QED  BY <2>1
<1>8. PICK e \in Both(c) : Whole(inbuf[e]) # {}
  BY <1>7
<1>9. OutSize(e) > OutLimit /\ Whole(inbuf[Peer(e)]) # {} /\ Len(inbuf[Peer(e)]) >= MaxCmd
  BY <1>5, <1>6, <1>8
<1>10. OutSize(Peer(e)) > OutLimit /\ Len(inbuf[e]) >= MaxCmd
  BY <1>3, <1>5, <1>6, <1>9
<1> QED  BY <1>9, <1>10, EndsOf

(* The limits on buffers stop an exchange only where both ends have a full *)
(* input buffer and too much to write: whatever else arm() refuses and     *)
(* which_events() does not ask for, some end can still move.               *)
THEOREM NeverStuck == Spec => []NoStandstill
<1>1. ASSUME TalkInv PROVE NoStandstill
  <2>1. ASSUME NEW c \in Clients, Standstill(c), NEW e \in {AtClient(c), AtServer(c)}
        PROVE  Len(inbuf[e]) >= MaxCmd /\ OutSize(e) > OutLimit
    BY <1>1, <2>1, StandstillFull DEF Both
  <2> QED  BY <2>1 DEF NoStandstill
<1> QED  BY <1>1, AlwaysTalk, PTL

LEMMA SessionCut ==
  ASSUME TalkInv, [Next]_vars, NEW c \in Clients, config.kind[c] = "honest", ~TimedOut(c),
         c \in sessions \ sessions'
  PROVE  AllSaid(AtServer(c))
<1>1. Connection(c) /\ ~(idle[AtServer(c)] > 0)
  BY DEF TalkInv, TimedOut
<1>2. Kept(c)
  <2>1. \A e \in Both(c) : ~(idle[e] > 0)
    BY EndsOf DEF TimedOut
  <2> QED  BY <1>1, <2>1 DEF Connection, Unopened, Kept
<1>3. CASE ServerArm
  <2>1. AtServer(c) \in Both(c) /\ Conversation(c)
    BY <1>1, <1>2 DEF Both, Connection
  <2>2. Undecodable(AtServer(c), inbuf[AtServer(c)])
    BY <1>3 DEF ServerArm, Erase
  <2> QED  BY <2>1, <2>2, NeverUndecodable
<1>4. CASE ServerReap
  BY <1>1, <1>2, <1>4, ReapedSaid
<1>5. ASSUME NEW d \in Clients, ServerIo(d) PROVE AllSaid(AtServer(c))
  <2>1. d = c /\ (IoFails(AtServer(d)) \/ (ReadReady(AtServer(d)) /\ Undecodable(AtServer(d), Input(AtServer(d)))))
    BY <1>5 DEF ServerIo, Erase
  <2> QED  BY <1>2, <1>5, <2>1, ServerCut
<1>6. ASSUME ~ServerArm, ~ServerReap, ~\E d \in Clients : ServerIo(d) PROVE c \in sessions'
  BY <1>6 DEF Next, ServerStep, ServerInstant, ServerProcess, Accept, Tick, Connect, ClientStep,
       ClientIo, ClientInstant, ClientTimeout, ClientProcess, ClientNext, Die, Leave, clientOnly, vars
<1> QED  BY <1>3, <1>4, <1>5, <1>6

LEMMA ClientCloses ==
  ASSUME TalkInv, [Next]_vars, NEW c \in Clients, config.kind[c] = "honest", ~TimedOut(c),
         conn[c] # "closed", conn'[c] = "closed"
  PROVE  AllSaid(AtClient(c))
<1>1. Connection(c) /\ DOMAIN conn = Clients /\ ~(idle[AtClient(c)] > 0)
  BY DEF TalkInv, Domains, TimedOut
<1>2. AtClient(c) \in Both(c)
  BY DEF Both
<1>3. ~Unopened(c) => Kept(c)
  <2>1. \A e \in Both(c) : ~(idle[e] > 0)
    BY EndsOf DEF TimedOut
  <2> QED  BY <2>1 DEF Unopened, Kept
<1>4. PICK d \in Clients : Connect(d) \/ ClientStep(d) \/ Die(d)
  BY <1>1 DEF Next, ServerStep, ServerArm, ServerInstant, ServerProcess, ServerReap, Accept, ServerIo, Tick, vars
<1>5. d = c
  BY <1>1, <1>4 DEF Connect, ClientStep, ClientIo, ClientInstant, ClientTimeout, ClientProcess, ClientNext, Die, Leave
<1>6. CASE ClientIo(c)
  <2>1. IoFails(AtClient(c)) /\ at[c] = "io"
    BY <1>6 DEF ClientIo
  <2>2. ~Unopened(c)
    BY <1>2, <2>1, NothingUnopened
  <2> QED  BY <1>3, <2>1, <2>2, ClientCut
<1>7. CASE ClientNext(c)
  <2>1. Finished(AtClient(c))
    BY <1>7 DEF ClientNext
  <2>2. ~Unopened(c)
    BY <1>2, <2>1, NothingUnopened
  <2> QED  BY <1>1, <1>2, <1>3, <2>1, <2>2, FinishedSaid DEF Connection
<1>8. ~Connect(c) /\ ~ClientInstant(c) /\ ~ClientTimeout(c) /\ ~ClientProcess(c) /\ ~Die(c)
  BY <1>1 DEF Connect, ClientInstant, ClientTimeout, ClientProcess, Die
<1> QED  BY <1>4, <1>5, <1>6, <1>7, <1>8 DEF ClientStep

(* A client that keeps to the protocol is never cut short: neither the     *)
(* server's sessions.erase nor the client's return comes before the        *)
(* exchange is finished at that end, if no timeout has passed, although    *)
(* each end closes its socket when it is finished itself, while the other  *)
(* may still have to read.                                                 *)
THEOREM FinishesProperly == Spec => NotCutShort
<1>1. ASSUME TalkInv, [Next]_vars
      PROVE  [\A c \in Clients : config.kind[c] = "honest" /\ ~TimedOut(c) =>
                /\ c \in sessions \ sessions' => AllSaid(AtServer(c))
                /\ conn[c] # "closed" /\ conn'[c] = "closed" => AllSaid(AtClient(c))]_vars
  BY <1>1, SessionCut, ClientCloses
<1> QED  BY <1>1, AlwaysTalk, PTL DEF Spec, NotCutShort

=============================================================================
