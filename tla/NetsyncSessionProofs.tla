------------------------ MODULE NetsyncSessionProofs ------------------------
(***************************************************************************)
(* What is proved of a netsync session for all items, all situations the   *)
(* two sides can start from, every interleaving of the two processes, and  *)
(* connections and processes that end at any moment: the databases stay    *)
(* closed, no command is refused once the sides are authenticated, nothing *)
(* is written before the epochs are known to agree, a goodbye is never     *)
(* said too early, and a sink that ended with goodbyes has all that its    *)
(* source had.  The invariants are defined in NetsyncInvariants.           *)
(***************************************************************************)
EXTENDS NetsyncInvariants, DataLemmas, FiniteSetTheorems

-----------------------------------------------------------------------------
(* Items, sequences of commands, and what the writer writes.               *)

LEMMA KindOf ==
  ASSUME NEW x \in Things
  PROVE  /\ TypeOf(x) \in {"epoch", "key", "cert", "revision", "content"}
         /\ TypeOf(x) = "epoch" <=> x \in Epochs
         /\ TypeOf(x) = "key" <=> x \in Keys
         /\ TypeOf(x) = "cert" <=> x \in Certs
         /\ TypeOf(x) = "revision" <=> x \in Revisions
         /\ TypeOf(x) = "content" <=> x \in Contents
<1>1. CASE x \in Epochs
  BY <1>1, SessionConstants DEF TypeOf, Items
<1>2. CASE x \in Keys
  BY <1>2, SessionConstants DEF TypeOf, Items
<1>3. CASE x \in Certs
  BY <1>3, SessionConstants DEF TypeOf, Items
<1>4. CASE x \in Revisions
  BY <1>4, SessionConstants DEF TypeOf, Items
<1>5. CASE x \in Contents
  BY <1>5, SessionConstants DEF TypeOf, Items
<1> QED  BY <1>1, <1>2, <1>3, <1>4, <1>5 DEF Things, Items

LEMMA FiniteThings == \A S \in SUBSET Things : IsFiniteSet(S)
  BY SessionConstants, FS_Subset DEF Things

LEMMA ListedCommands ==
  ASSUME NEW c \in {"send_data", "data", "nonexistant"}, NEW xs \in SUBSET Things
  PROVE  /\ Commands(c, xs) \in Seq(Messages)
         /\ Elems(Commands(c, xs)) = {[cmd |-> c, item |-> x] : x \in xs}
         /\ \A i \in DOMAIN Commands(c, xs) : \E x \in xs : Commands(c, xs)[i] = [cmd |-> c, item |-> x]
<1> DEFINE q == SetToSeq(xs)
           n == Cardinality(xs)
           l == Commands(c, xs)
<1>1. q \in [1..n -> xs] /\ n \in Nat /\ \A x \in xs : \E i \in 1..n : q[i] = x
  BY FiniteThings, SetSequence
<1> HIDE DEF n
<1>2. l = [i \in 1..n |-> [cmd |-> c, item |-> q[i]]]
  BY <1>1 DEF Commands
<1> HIDE DEF l, q
<1>3. \A i \in 1..n : l[i] = [cmd |-> c, item |-> q[i]] /\ q[i] \in xs
  BY <1>1, <1>2
<1>4. \A x \in xs : [cmd |-> c, item |-> x] \in Messages
  BY DEF Messages
<1>5. l \in Seq(Messages) /\ DOMAIN l = 1..n
  <2>1. l \in [1..n -> Messages]
    BY <1>2, <1>3, <1>4
  <2> QED  BY <1>1, <2>1
<1>6. \A i \in DOMAIN l : \E x \in xs : l[i] = [cmd |-> c, item |-> x]
  BY <1>3, <1>5
<1>7. \A x \in xs : \E i \in DOMAIN l : l[i] = [cmd |-> c, item |-> x]
  BY <1>1, <1>3, <1>5
<1>8. Elems(l) = {[cmd |-> c, item |-> x] : x \in xs}
  BY <1>6, <1>7 DEF Elems
<1> QED  BY <1>5, <1>6, <1>8 DEF l

(* The writer adds some of what it holds, and never an item before what    *)
(* the item needs.                                                         *)
LEMMA WrittenClosed ==
  ASSUME NEW D \in SUBSET Items, NEW held \in SUBSET Items
  PROVE  /\ D \subseteq Written(D, held) /\ Written(D, held) \subseteq D \cup held
         /\ Closure(D) => Closure(Written(D, held))
<1> DEFINE N == Cardinality(held)
           U == SUBSET (D \cup held)
           F == [X \in U |-> X \cup {x \in held : Needs(x) \subseteq X}]
           Growing(g) == g = [n \in 0..N |-> IF n = 0 THEN D
                                ELSE g[n-1] \cup {x \in held : Needs(x) \subseteq g[n-1]}]
           grow == CHOOSE g : Growing(g)
<1>1. N \in Nat
  BY FiniteThings, FS_CardinalityType DEF Things
<1>2. \E g : Growing(g)
  <2>1. D \in U /\ F \in [U -> U]
    OBVIOUS
  <2>2. PICK u \in [0..N -> U] : Iterating(u, N, D, F)
    <3> HIDE DEF U, F, N
    <3> QED  BY <1>1, <2>1, IteratingExists
  <2>3. u = [n \in 0..N |-> IF n = 0 THEN D ELSE F[u[n-1]]]
    BY <2>2 DEF Iterating
  <2>4. \A n \in 0..N : n # 0 => u[n-1] \in U
    <3> HIDE DEF U, N
    <3> QED  BY <1>1, <2>2
  <2>5. \A X \in U : F[X] = X \cup {x \in held : Needs(x) \subseteq X}
    OBVIOUS
  <2> HIDE DEF F, U, N
  <2>6. \A n \in 0..N : n # 0 => F[u[n-1]] = u[n-1] \cup {x \in held : Needs(x) \subseteq u[n-1]}
    BY <2>4, <2>5
  <2>7. [n \in 0..N |-> IF n = 0 THEN D ELSE F[u[n-1]]]
          = [n \in 0..N |-> IF n = 0 THEN D
               ELSE u[n-1] \cup {x \in held : Needs(x) \subseteq u[n-1]}]
    BY <2>6
  <2> QED  BY <2>3, <2>7
<1>3. Growing(grow)
  <2> HIDE DEF Growing
  <2> QED  BY <1>2
<1>4. Written(D, held) = grow[N]
  BY DEF Written
<1> HIDE DEF grow, N
<1>5. /\ grow[0] = D
      /\ \A n \in 1..N : grow[n] = grow[n-1] \cup {x \in held : Needs(x) \subseteq grow[n-1]}
  <2>1. grow = [n \in 0..N |-> IF n = 0 THEN D
                  ELSE grow[n-1] \cup {x \in held : Needs(x) \subseteq grow[n-1]}]
    BY <1>3
  <2>2. 0 \in 0..N /\ \A n \in 1..N : n \in 0..N /\ n # 0
    BY <1>1
  <2> HIDE DEF Growing
  <2> QED  BY <2>1, <2>2, Zenon
<1> HIDE DEF Growing
<1> DEFINE T == {n \in Nat : n <= N =>
                   /\ D \subseteq grow[n] /\ grow[n] \subseteq D \cup held
                   /\ Closure(D) => Closure(grow[n])}
<1>6. 0 \in T
  BY <1>5
<1>7. ASSUME NEW n \in Nat, n \in T PROVE n + 1 \in T
  <2>1. SUFFICES ASSUME n + 1 <= N
                 PROVE  /\ D \subseteq grow[n+1] /\ grow[n+1] \subseteq D \cup held
                        /\ Closure(D) => Closure(grow[n+1])
    OBVIOUS
  <2>2. /\ D \subseteq grow[n] /\ grow[n] \subseteq D \cup held
        /\ Closure(D) => Closure(grow[n])
    BY <1>1, <1>7, <2>1
  <2>3. grow[n+1] = grow[n] \cup {x \in held : Needs(x) \subseteq grow[n]}
    BY <1>1, <1>5, <2>1
  <2> QED  BY <2>2, <2>3 DEF Closure
<1>8. N \in T
  <2> HIDE DEF T
  <2> QED  BY <1>1, <1>6, <1>7, SetInduction
<1> QED  BY <1>1, <1>4, <1>8
-----------------------------------------------------------------------------
(* What the parts of a step do: the commands on their way, and the session *)
(* that a handler leaves.                                                  *)

LEMMA TwoPeers ==
  ASSUME NEW p \in Peers
  PROVE  Other(p) \in Peers /\ Other(p) # p /\ Other(Other(p)) = p /\ Peers = {p, Other(p)}
  BY DEF Peers, Other

LEMMA SimpleCommands ==
  \A c \in {"hello", "auth", "anonymous", "confirm", "error", "bye"} :
    Simple(c) \in Messages /\ Simple(c).cmd = c
  BY DEF Messages, Simple

LEMMA StreamsFlow ==
  ASSUME NEW p \in Peers, NEW out \in Seq(Messages),
         Stream(p) \in Seq(Messages), Stream(p) # <<>>, Stream(Other(p)) \in Seq(Messages),
         Stream(p)' = Tail(Stream(p)), Stream(Other(p))' = Stream(Other(p)) \o out
  PROVE  /\ Flow(p, 1, out) /\ 1 \in DOMAIN Stream(p) /\ Stream(p)[1] = Head(Stream(p))
         /\ Head(Stream(p)) \in Messages
<1> DEFINE a == Stream(p)
           b == Stream(Other(p))
           aa == Stream(p)'
           bb == Stream(Other(p))'
<1>1. a \in Seq(Messages) /\ b \in Seq(Messages) /\ a # <<>> /\ aa = Tail(a) /\ bb = b \o out
  OBVIOUS
<1> HIDE DEF a, b, aa, bb
<1>2. /\ Len(b) \in Nat /\ DOMAIN b = 1..Len(b) /\ Len(a) \in Nat /\ DOMAIN a = 1..Len(a)
      /\ bb \in Seq(Messages) /\ DOMAIN bb = 1..Len(bb) /\ Len(bb) \in Nat
      /\ \A i \in DOMAIN a : a[i] \in Messages
      /\ \A i \in DOMAIN b : b[i] \in Messages
  <2>1. bb \in Seq(Messages)
    BY <1>1, ConcatProperties
  <2> QED  BY <1>1, <2>1, LenProperties, ElementOfSeq
<1>3. /\ Head(a) \in Messages /\ 1 \in DOMAIN a /\ a[1] = Head(a)
      /\ \A i \in DOMAIN a : i = 1 \/ i - 1 \in DOMAIN aa
      /\ \A i \in DOMAIN aa : i \in Nat \ {0} /\ i + 1 \in DOMAIN a /\ aa[i] = a[i+1]
  BY <1>1, ElemsTail
<1>4. /\ \A i \in DOMAIN b : i \in DOMAIN bb /\ bb[i] = b[i]
      /\ \A i \in DOMAIN bb : \/ i \in DOMAIN b
                              \/ i > Len(b) /\ i - Len(b) \in DOMAIN out /\ bb[i] = out[i - Len(b)]
      /\ \A i \in DOMAIN out : i + Len(b) \in DOMAIN bb /\ bb[i + Len(b)] = out[i]
  <2>1. b \in Seq(Messages) /\ out \in Seq(Messages) /\ bb = b \o out
    BY <1>1
  <2>2. \A i \in DOMAIN b : i \in DOMAIN (b \o out) /\ (b \o out)[i] = b[i]
    BY <2>1, ConcatAt
  <2>3. \A i \in DOMAIN (b \o out) :
          \/ i \in DOMAIN b
          \/ i > Len(b) /\ i - Len(b) \in DOMAIN out /\ (b \o out)[i] = out[i - Len(b)]
    BY <2>1, ConcatAt
  <2>4. \A i \in DOMAIN out :
          i + Len(b) \in DOMAIN (b \o out) /\ (b \o out)[i + Len(b)] = out[i]
    BY <2>1, ConcatAt
  <2> QED  BY <2>1, <2>2, <2>3, <2>4
<1>5. \A i \in DOMAIN a : i \in Nat \ {0} /\ (i > 1 => i - 1 \in DOMAIN aa)
  BY <1>2, <1>3
<1>6. (\A i \in DOMAIN b : i \in Nat \ {0} /\ i <= Len(b)) /\ (\A i \in DOMAIN bb : i \in Nat \ {0})
  BY <1>2
<1>7. Flow(p, 1, out)
  BY <1>2, <1>3, <1>4, <1>5, <1>6 DEF Flow, a, b, aa, bb
<1> QED  BY <1>3, <1>7 DEF a

(* A command is taken and others are sent.                                 *)
LEMMA TakenFlow ==
  ASSUME TypeOK, NEW p \in Peers, inbuf[p] # <<>>, NEW sent \in Seq(Messages),
         inbuf' = [inbuf EXCEPT ![p] = Tail(@)],
         net' = [net EXCEPT ![Other(p)] = net[Other(p)] \o sent]
  PROVE  /\ Flow(p, 1, sent)
         /\ 1 \in DOMAIN Stream(p) /\ Stream(p)[1] = Head(inbuf[p]) /\ Head(inbuf[p]) \in Messages
         /\ net' \in [Peers -> Seq(Messages)] /\ inbuf' \in [Peers -> Seq(Messages)]
<1> DEFINE q == Other(p)
<1>1. q \in Peers /\ q # p /\ Peers = {p, q}
  BY TwoPeers
<1>2. /\ inbuf \in [Peers -> Seq(Messages)] /\ net \in [Peers -> Seq(Messages)]
      /\ inbuf[p] \in Seq(Messages) /\ net[p] \in Seq(Messages)
      /\ inbuf[q] \in Seq(Messages) /\ net[q] \in Seq(Messages)
  BY <1>1 DEF TypeOK
<1>7. inbuf'[p] = Tail(inbuf[p]) /\ inbuf'[q] = inbuf[q] /\ net'[p] = net[p]
      /\ net'[q] = net[q] \o sent
  <2> HIDE DEF q
  <2> QED  BY <1>1, <1>2 DEF q
<1>8. sent \in Seq(Messages)
  OBVIOUS
<1>9. Stream(p) \in Seq(Messages) /\ Stream(q) \in Seq(Messages) /\ Stream(p) # <<>>
      /\ Head(Stream(p)) = Head(inbuf[p]) /\ Stream(p)' = Tail(Stream(p))
  <2> DEFINE a == inbuf[p]
             b == net[p]
             c == inbuf[q]
             d == net[q]
  <2>1. a \in Seq(Messages) /\ b \in Seq(Messages) /\ c \in Seq(Messages) /\ d \in Seq(Messages)
        /\ a # <<>>
    BY <1>2
  <2>2. Stream(p) = a \o b /\ Stream(q) = c \o d /\ Stream(p)' = Tail(a) \o b
    BY <1>7 DEF Stream
  <2> HIDE DEF a, b, c, d
  <2>3. a \o b \in Seq(Messages) /\ c \o d \in Seq(Messages)
    BY <2>1, ConcatProperties
  <2>4. a \o b # <<>> /\ Head(a \o b) = Head(a) /\ Tail(a \o b) = Tail(a) \o b
    BY <2>1, TailConcat
  <2> QED  BY <2>2, <2>3, <2>4 DEF a
<1>10. Stream(q)' = Stream(q) \o sent
  <2> DEFINE c == inbuf[q]
             d == net[q]
  <2>1. c \in Seq(Messages) /\ d \in Seq(Messages)
    BY <1>2
  <2>2. Stream(q) = c \o d /\ Stream(q)' = c \o (d \o sent)
    BY <1>7 DEF Stream
  <2> HIDE DEF c, d
  <2>3. (c \o d) \o sent = c \o (d \o sent)
    BY <1>8, <2>1, ConcatAssociative
  <2> QED  BY <2>2, <2>3
<1>11. Flow(p, 1, sent) /\ 1 \in DOMAIN Stream(p) /\ Stream(p)[1] = Head(inbuf[p])
       /\ Head(inbuf[p]) \in Messages
  BY <1>8, <1>9, <1>10, StreamsFlow
<1>12. net' \in [Peers -> Seq(Messages)] /\ inbuf' \in [Peers -> Seq(Messages)]
  <2>1. DOMAIN net' = Peers /\ DOMAIN inbuf' = Peers /\ net' = [r \in Peers |-> net'[r]]
        /\ inbuf' = [r \in Peers |-> inbuf'[r]]
    BY <1>2
  <2>2. net'[q] \in Seq(Messages)
    <3> DEFINE d == net[q]
    <3>1. d \in Seq(Messages)
      BY <1>2
    <3> HIDE DEF d
    <3>2. d \o sent \in Seq(Messages)
      BY <1>8, <3>1, ConcatProperties
    <3> QED  BY <1>7, <3>2 DEF d
  <2>3. Tail(inbuf[p]) \in Seq(Messages)
    <3> DEFINE d == inbuf[p]
    <3>1. d \in Seq(Messages) /\ d # <<>>
      BY <1>2
    <3> HIDE DEF d
    <3>2. Tail(d) \in Seq(Messages)
      BY <3>1, HeadTailProperties
    <3> QED  BY <3>2 DEF d
  <2> HIDE DEF q
  <2> QED  BY <1>1, <1>2, <1>7, <2>1, <2>2, <2>3
<1> QED  BY <1>11, <1>12

LEMMA ReplyFlow ==
  ASSUME TypeOK, NEW p \in Peers, inbuf[p] # <<>>, NEW s \in Sessions,
         NEW epoch \in Epochs \cup {NoEpoch}, NEW out \in Seq(Messages), Reply(p, s, epoch, out)
  PROVE  /\ \E sent : Leaving(p, out, sent) /\ Flow(p, 1, sent)
         /\ 1 \in DOMAIN Stream(p) /\ Stream(p)[1] = Head(inbuf[p]) /\ Head(inbuf[p]) \in Messages
         /\ net' \in [Peers -> Seq(Messages)] /\ inbuf' \in [Peers -> Seq(Messages)]
<1> DEFINE q == Other(p)
           bye == s.tree_is_done = Types /\ s.requested = {} /\ ~s.sent_goodbye
           last == IF bye THEN <<Simple("bye")>> ELSE <<>>
           all == out \o last
           sent == IF sess[p].error THEN <<>> ELSE all
<1>1. q \in Peers /\ q # p /\ Peers = {p, q}
  BY TwoPeers
<1>2. /\ inbuf \in [Peers -> Seq(Messages)] /\ net \in [Peers -> Seq(Messages)]
      /\ inbuf[p] \in Seq(Messages) /\ net[p] \in Seq(Messages)
      /\ inbuf[q] \in Seq(Messages) /\ net[q] \in Seq(Messages)
  BY <1>1 DEF TypeOK
<1>3. last \in Seq(Messages) /\ \A i \in DOMAIN last : last[i] = Simple("bye")
  <2>1. Simple("bye") \in Messages
    BY SimpleCommands
  <2> HIDE DEF bye
  <2>2. CASE bye
    BY <2>1, <2>2
  <2>3. CASE ~bye
    BY <2>3
  <2> QED  BY <2>2, <2>3
<1>4. /\ all \in Seq(Messages)
      /\ \A i \in DOMAIN out : i \in DOMAIN all /\ all[i] = out[i]
      /\ \A i \in DOMAIN all : (i \in DOMAIN out /\ all[i] = out[i]) \/ all[i] = Simple("bye")
  <2>1. last \in Seq(Messages)
    BY <1>3
  <2> HIDE DEF last
  <2> QED  BY <1>3, <2>1, ConcatAt
<1>5. Leaving(p, out, sent)
  <2> HIDE DEF all
  <2> QED  BY <1>4 DEF Leaving
<1>6. /\ inbuf' = [inbuf EXCEPT ![p] = Tail(@)]
      /\ net' = IF sess[p].error THEN net ELSE [net EXCEPT ![q] = @ \o all]
  BY DEF Reply
<1>7. net' = [net EXCEPT ![q] = net[q] \o sent]
  <2>1. net[q] \o <<>> = net[q]
    <3> DEFINE o == net[q]
    <3>1. o \in Seq(Messages)
      BY <1>2
    <3> HIDE DEF o
    <3>2. o \o <<>> = o
      BY <3>1, ConcatEmptySeq
    <3> QED  BY <3>2 DEF o
  <2> HIDE DEF all, q
  <2> QED  BY <1>1, <1>2, <1>6, <2>1
<1> HIDE DEF all
<1>8. sent \in Seq(Messages)
  BY <1>4
<1> HIDE DEF sent
<1> QED  BY <1>5, <1>6, <1>7, <1>8, TakenFlow

LEMMA ReplyLeft ==
  ASSUME TypeOK, NEW p \in Peers, inbuf[p] # <<>>, NEW s \in Sessions,
         NEW epoch \in Epochs \cup {NoEpoch}, NEW out \in Seq(Messages), Reply(p, s, epoch, out)
  PROVE  Left(p, s, epoch) /\ TypeOK' /\ (DatabaseClosed => DatabaseClosed') /\ (Committed => Committed')
<1> DEFINE q == Other(p)
           items == IF s.valve THEN Written(db[p].items, s.held) ELSE db[p].items
           bye == s.tree_is_done = Types /\ s.requested = {} /\ ~s.sent_goodbye
           new == [s EXCEPT !.held = @ \ items, !.sent_goodbye = @ \/ bye]
           D == [items |-> items, epoch |-> epoch]
<1>1. q \in Peers /\ q # p /\ Peers = {p, q}
  BY TwoPeers
<1>2. /\ db \in [Peers -> Databases] /\ disk \in [Peers -> Databases] /\ sess \in [Peers -> Sessions]
      /\ db[p].items \in SUBSET Items /\ s.held \in SUBSET Items
  BY DEF TypeOK, Databases, Sessions
<1>3. /\ db' = [db EXCEPT ![p] = D]
      /\ disk' = IF p = "server" THEN [disk EXCEPT ![p] = db'[p]] ELSE disk
      /\ sess' = [sess EXCEPT ![p] = new] /\ conf' = conf
  BY DEF Reply
<1>4. items \in SUBSET Items /\ (Closure(db[p].items) => Closure(items)) /\ db[p].items \subseteq items
  <2>1. CASE s.valve
    <3> DEFINE old == db[p].items
               h == s.held
    <3>1. items = Written(old, h) /\ old \in SUBSET Items /\ h \in SUBSET Items
      BY <1>2, <2>1
    <3> HIDE DEF items, old, h
    <3>2. /\ old \subseteq Written(old, h) /\ Written(old, h) \subseteq old \cup h
          /\ Closure(old) => Closure(Written(old, h))
      BY <3>1, WrittenClosed
    <3> QED  BY <3>1, <3>2 DEF old
  <2>2. CASE ~s.valve
    BY <1>2, <2>2
  <2> QED  BY <2>1, <2>2
<1>5. bye \in BOOLEAN
  OBVIOUS
<1> HIDE DEF items, bye
<1>6. new \in Sessions
  BY <1>4, <1>5, Zenon DEF Sessions
<1>7. /\ new.live = s.live /\ new.crashed = s.crashed /\ new.role = s.role
      /\ new.authenticated = s.authenticated /\ new.valve = s.valve /\ new.tree = s.tree
      /\ new.had_refinements = s.had_refinements /\ new.tree_is_done = s.tree_is_done
      /\ new.requested = s.requested /\ new.received = s.received /\ new.certs = s.certs
      /\ new.ancestry = s.ancestry /\ new.analyzed = s.analyzed /\ new.error = s.error
      /\ new.held \subseteq s.held
  BY DEF Sessions
<1>8. D \in Databases /\ D.items = items /\ D.epoch = epoch
  BY <1>4 DEF Databases
<1> HIDE DEF D, new, q
<1>9. sess'[p] = new /\ sess'[q] = sess[q] /\ sess' \in [Peers -> Sessions]
      /\ db'[p] = D /\ db'[q] = db[q] /\ db' \in [Peers -> Databases]
  BY <1>1, <1>2, <1>3, <1>6, <1>8
<1>10. Left(p, s, epoch)
  BY <1>3, <1>7, <1>8, <1>9 DEF Left, items, q
<1>11. disk' \in [Peers -> Databases] /\ disk'[q] = disk[q] /\ disk'[p] \in {disk[p], db'[p]}
  BY <1>1, <1>2, <1>3, <1>8, <1>9
<1>12. TypeOK'
  BY <1>3, <1>9, <1>11, ReplyFlow DEF TypeOK
<1>13. DatabaseClosed => DatabaseClosed'
  BY <1>1, <1>4, <1>8, <1>9, <1>11 DEF DatabaseClosed
<1>14. Committed => Committed'
  BY <1>1, <1>4, <1>8, <1>9, <1>11 DEF Committed
<1> QED  BY <1>10, <1>12, <1>13, <1>14
-----------------------------------------------------------------------------
(* The parts of the handlers.                                              *)

LEMMA AskingLeft ==
  ASSUME NEW s \in Sessions, NEW xs \in SUBSET Things
  PROVE  /\ Asking(s, xs) \in Sessions /\ Requests(s, xs) \in Seq(Messages)
         /\ Asking(s, xs).requested = s.requested \cup Wanted(s, xs)
         /\ \A i \in DOMAIN Requests(s, xs) :
              \E x \in xs : Requests(s, xs)[i] = [cmd |-> "send_data", item |-> x] /\ s.role # "source"
         /\ Wanted(s, xs) \subseteq xs
         /\ \A x \in xs : s.role # "source" /\ x \notin s.requested \cup s.received =>
              \E i \in DOMAIN Requests(s, xs) : Requests(s, xs)[i] = [cmd |-> "send_data", item |-> x]
         /\ \A x \in xs : s.role # "source" => x \in Asking(s, xs).requested \cup s.received
<1>1. Wanted(s, xs) \in SUBSET xs /\ (s.role = "source" => Wanted(s, xs) = {})
      /\ (s.role # "source" => Wanted(s, xs) = xs \ (s.requested \cup s.received))
  BY DEF Wanted
<1>2. s.requested \in SUBSET Things
  BY DEF Sessions
<1>3. Asking(s, xs) \in Sessions /\ Asking(s, xs).requested = s.requested \cup Wanted(s, xs)
  BY <1>1, <1>2, SMTT(30) DEF Asking, Sessions
<1>4. /\ Requests(s, xs) \in Seq(Messages)
      /\ \A i \in DOMAIN Requests(s, xs) :
           \E x \in Wanted(s, xs) : Requests(s, xs)[i] = [cmd |-> "send_data", item |-> x]
  BY <1>1, ListedCommands DEF Requests
<1>5. \A x \in Wanted(s, xs) :
        \E i \in DOMAIN Requests(s, xs) : Requests(s, xs)[i] = [cmd |-> "send_data", item |-> x]
  <2>1. Elems(Requests(s, xs)) = {[cmd |-> "send_data", item |-> x] : x \in Wanted(s, xs)}
    BY <1>1, ListedCommands DEF Requests
  <2> QED  BY <2>1 DEF Elems
<1> QED  BY <1>1, <1>3, <1>4, <1>5

LEMMA AskingRelated ==
  ASSUME NEW s \in Sessions, NEW xs
  PROVE  /\ Related(Asking(s, xs), s) /\ Asking(s, xs).held = s.held
         /\ Asking(s, xs).valve = s.valve /\ Asking(s, xs).received = s.received
  BY DEF Asking, Related, Sessions

(* The analysis asks for contents only.                                    *)
LEMMA AnalyzedLeft ==
  ASSUME TypeOK, NEW p \in Peers, NEW s \in Sessions
  PROVE  LET a == Analyzed(p, s)
             out == AnalyzeRequests(p, s)
         IN  /\ a \in Sessions /\ out \in Seq(Messages)
             /\ Related(a, s) /\ a.valve = s.valve /\ a.received = s.received
             /\ a.held \subseteq s.held \cup s.certs \cup s.ancestry
             /\ a.requested \subseteq s.requested \cup Contents /\ s.requested \subseteq a.requested
             /\ \A i \in DOMAIN out :
                  \E x \in Contents : out[i] = [cmd |-> "send_data", item |-> x] /\ s.role # "source"
<1> DEFINE xs == Missing(p, s)
           b == Asking(s, xs)
           new == [b EXCEPT !.analyzed = TRUE, !.held = @ \cup s.certs \cup s.ancestry]
<1>1. xs \in SUBSET Contents /\ xs \in SUBSET Things
  <2>1. Contents \subseteq Things
    BY DEF Things, Items
  <2>2. xs \subseteq Contents
    BY DEF Missing
  <2> HIDE DEF xs
  <2> QED  BY <2>1, <2>2
<1> HIDE DEF xs
<1>2. b \in Sessions /\ b.requested = s.requested \cup Wanted(s, xs) /\ Wanted(s, xs) \subseteq xs
      /\ Requests(s, xs) \in Seq(Messages)
      /\ \A i \in DOMAIN Requests(s, xs) :
           \E x \in xs : Requests(s, xs)[i] = [cmd |-> "send_data", item |-> x] /\ s.role # "source"
  BY <1>1, AskingLeft
<1>3. Related(b, s) /\ b.held = s.held /\ b.valve = s.valve /\ b.received = s.received
  BY AskingRelated
<1> HIDE DEF b
<1>4. b.held \in SUBSET Items /\ s.certs \in SUBSET Items /\ s.ancestry \in SUBSET Items
  BY <1>2 DEF Sessions
<1>5. new \in Sessions
  <2>1. b.held \cup s.certs \cup s.ancestry \in SUBSET Items
    BY <1>4
  <2> QED  BY <1>2, <2>1, Zenon DEF Sessions
<1>6. Related(new, b) /\ new.held = b.held \cup s.certs \cup s.ancestry /\ new.requested = b.requested
      /\ new.valve = b.valve /\ new.received = b.received
  BY <1>2, SMTT(30) DEF Related, Sessions
<1>7. Related(new, s)
  BY <1>3, <1>6 DEF Related
<1> HIDE DEF new
<1>8. CASE ReadyToAnalyze(s)
  <2>1. Analyzed(p, s) = new /\ AnalyzeRequests(p, s) = Requests(s, xs)
    BY <1>8 DEF Analyzed, AnalyzeRequests, new, b, xs
  <2> QED  BY <1>1, <1>2, <1>3, <1>5, <1>6, <1>7, <2>1
<1>9. CASE ~ReadyToAnalyze(s)
  <2>1. Analyzed(p, s) = s /\ AnalyzeRequests(p, s) = <<>>
    BY <1>9 DEF Analyzed, AnalyzeRequests
  <2> QED  BY <2>1 DEF Related
<1> QED  BY <1>8, <1>9

LEMMA EpochsNotedLeft ==
  ASSUME NEW s \in Sessions
  PROVE  LET n == EpochsNoted(s)
         IN  /\ n \in Sessions
             /\ n.valve <=> s.valve \/ (s.requested \cap Epochs = {} /\ "epoch" \in s.tree_is_done)
             /\ n.held = s.held /\ n.requested = s.requested
             /\ Related(n, s) /\ n.received = s.received
<1> DEFINE v == s.valve \/ (s.requested \cap Epochs = {} /\ "epoch" \in s.tree_is_done)
<1>1. s.valve \in BOOLEAN /\ v \in BOOLEAN
  BY DEF Sessions
<1>2. EpochsNoted(s) = [s EXCEPT !.valve = v]
  BY Zenon DEF EpochsNoted
<1> HIDE DEF v
<1>3. [s EXCEPT !.valve = v] \in Sessions
  BY <1>1, SMTT(30) DEF Sessions
<1> QED  BY <1>1, <1>2, <1>3 DEF Sessions, Related, v

LEMMA ArrivedLeft ==
  ASSUME NEW s \in Sessions, NEW x \in Things
  PROVE  LET a == Arrived(s, x)
         IN  /\ a \in Sessions
             /\ a.requested = s.requested \ {x} /\ a.received = s.received \cup {x}
             /\ a.held = s.held /\ Related(a, s) /\ a.valve = s.valve
<1>1. s.requested \ {x} \in SUBSET Things /\ s.received \cup {x} \in SUBSET Things
  BY DEF Sessions
<1>2. Arrived(s, x) \in Sessions
  BY <1>1, Zenon DEF Arrived, Sessions
<1> QED  BY <1>2 DEF Arrived, Sessions, Related

LEMMA GiftsLeft ==
  ASSUME NEW s \in Sessions, NEW xs \in SUBSET Things
  PROVE  /\ Gifts(s, xs) \in Seq(Messages)
         /\ \A i \in DOMAIN Gifts(s, xs) :
              \E x \in xs : Gifts(s, xs)[i] = [cmd |-> "data", item |-> x] /\ s.role # "sink"
         /\ s.role # "sink" =>
              \A x \in xs : \E i \in DOMAIN Gifts(s, xs) : Gifts(s, xs)[i] = [cmd |-> "data", item |-> x]
<1>1. CASE s.role = "sink"
  BY <1>1 DEF Gifts
<1>2. CASE s.role # "sink"
  <2>1. Gifts(s, xs) = Commands("data", xs)
    BY <1>2 DEF Gifts
  <2>2. /\ Commands("data", xs) \in Seq(Messages)
        /\ Elems(Commands("data", xs)) = {[cmd |-> "data", item |-> x] : x \in xs}
        /\ \A i \in DOMAIN Commands("data", xs) :
             \E x \in xs : Commands("data", xs)[i] = [cmd |-> "data", item |-> x]
    BY ListedCommands
  <2>3. \A x \in xs : \E i \in DOMAIN Commands("data", xs) :
          Commands("data", xs)[i] = [cmd |-> "data", item |-> x]
    BY <2>2 DEF Elems
  <2> QED  BY <1>2, <2>1, <2>2, <2>3
<1> QED  BY <1>1, <1>2
-----------------------------------------------------------------------------
(* Steps of authenticated sessions that neither take a node or a marker    *)
(* nor send one.                                                           *)

LEMMA PlainRoots ==
  ASSUME NEW p \in Peers, NEW k, NEW sent, Plain(p, k, sent), Roots
  PROVE  Roots'
<1> DEFINE q == Other(p)
<1>0. q \in Peers /\ q # p /\ Peers = {p, q}
  BY TwoPeers
<1>1. Flow(p, k, sent) /\ k \in Nat /\ Len(Stream(q)) \in Nat
  BY DEF Plain, Flow
<1>2. \A i \in DOMAIN sent : sent[i].cmd \notin {"refine", "done"}
  BY DEF Plain
<1>3. \A r \in Peers, t \in Types : \A x \in sess'[r].tree[t] : TypeOf(x) = t
  BY DEF Roots, Plain, Settled
<1>4. ASSUME NEW r \in Peers, NEW t \in Types, NEW i \in DOMAIN Stream(r)', IsRefine(r, i, t)'
      PROVE  /\ r = "server" /\ Stream(r)'[i].items = sess'["client"].tree[t]
             /\ \A o \in Peers : t \notin sess'[o].tree_is_done \cup sess'[o].had_refinements
             /\ \A j \in DOMAIN Stream(r)' : IsRefine(r, j, t)' => j = i
             /\ \A j \in DOMAIN Stream(r)' : IsDone(r, j, t)' => j > i
             /\ \E j \in DOMAIN Stream(r)' : IsDone(r, j, t)'
             /\ \A j \in DOMAIN Stream(r)' : Stream(r)'[j].cmd = "data" => j > i
             /\ ~sess'[r].error
  <2>0. Stream(r)'[i].cmd = "refine" /\ Stream(r)'[i].type = t
    BY <1>4 DEF IsRefine
  <2>1. CASE r = p
    <3>1. i \in Nat /\ i + k \in DOMAIN Stream(p) /\ Stream(p)'[i] = Stream(p)[i+k]
      BY <1>1, <2>1 DEF Flow
    <3>2. IsRefine(p, i + k, t)
      BY <2>0, <2>1, <3>1 DEF IsRefine
    <3>3. /\ p = "server" /\ Stream(p)[i+k].items = sess["client"].tree[t]
          /\ \A o \in Peers : t \notin sess[o].tree_is_done \cup sess[o].had_refinements
          /\ \A j \in DOMAIN Stream(p) : IsRefine(p, j, t) => j = i + k
          /\ \A j \in DOMAIN Stream(p) : IsDone(p, j, t) => j > i + k
          /\ \E j \in DOMAIN Stream(p) : IsDone(p, j, t)
          /\ \A j \in DOMAIN Stream(p) : Stream(p)[j].cmd = "data" => j > i + k
          /\ ~sess[p].error
      BY <3>1, <3>2 DEF Roots
    <3>4. ASSUME NEW j \in DOMAIN Stream(p)'
          PROVE  /\ j \in Nat /\ j + k \in DOMAIN Stream(p) /\ Stream(p)'[j] = Stream(p)[j+k]
                 /\ (j + k > i + k => j > i) /\ (j + k = i + k => j = i)
                 /\ (IsDone(p, j, t)' => IsDone(p, j + k, t))
                 /\ (IsRefine(p, j, t)' => IsRefine(p, j + k, t))
      BY <1>1, <3>1 DEF Flow, IsDone, IsRefine
    <3>5. PICK d \in DOMAIN Stream(p) : IsDone(p, d, t) /\ d > i + k /\ d \in Nat
      BY <1>1, <3>3 DEF Flow
    <3>6. d > k /\ d - k \in DOMAIN Stream(p)' /\ (d - k) + k = d
      <4>1. i \in Nat /\ k \in Nat /\ d \in Nat /\ d > i + k
        BY <1>1, <3>1, <3>5
      <4>2. d > k /\ (d - k) + k = d
        BY <4>1
      <4>3. \A j \in DOMAIN Stream(p) : j > k => j - k \in DOMAIN Stream(p)'
        BY <1>1 DEF Flow
      <4> QED  BY <4>2, <4>3
    <3>7. IsDone(p, d - k, t)'
      BY <3>4, <3>5, <3>6 DEF IsDone
    <3>8. ~sess'[p].error
      BY <2>0, <2>1, <3>3 DEF Plain
    <3>9. /\ sess'["client"].tree = sess["client"].tree
          /\ \A o \in Peers : /\ sess'[o].had_refinements = sess[o].had_refinements
                              /\ sess'[o].tree_is_done = sess[o].tree_is_done
      BY DEF Plain, Settled, Peers
    <3> QED  BY <2>1, <3>1, <3>3, <3>4, <3>6, <3>7, <3>8, <3>9
  <2>2. CASE r = q
    <3>1. i \in DOMAIN Stream(q) /\ Stream(q)'[i] = Stream(q)[i] /\ i \in Nat /\ i <= Len(Stream(q))
      BY <1>1, <1>2, <2>0, <2>2 DEF Flow
    <3>2. IsRefine(q, i, t)
      BY <2>0, <2>2, <3>1 DEF IsRefine
    <3>3. /\ q = "server" /\ Stream(q)[i].items = sess["client"].tree[t]
          /\ \A o \in Peers : t \notin sess[o].tree_is_done \cup sess[o].had_refinements
          /\ \A j \in DOMAIN Stream(q) : IsRefine(q, j, t) => j = i
          /\ \A j \in DOMAIN Stream(q) : IsDone(q, j, t) => j > i
          /\ \E j \in DOMAIN Stream(q) : IsDone(q, j, t)
          /\ \A j \in DOMAIN Stream(q) : Stream(q)[j].cmd = "data" => j > i
          /\ ~sess[q].error
      BY <1>0, <3>1, <3>2 DEF Roots
    <3>4. ASSUME NEW j \in DOMAIN Stream(q)'
          PROVE  /\ (j \in DOMAIN Stream(q) /\ Stream(q)'[j] = Stream(q)[j]) \/ j > i
                 /\ IsDone(q, j, t)' => IsDone(q, j, t)
                 /\ IsRefine(q, j, t)' => IsRefine(q, j, t)
      <4>1. \/ j \in DOMAIN Stream(q) /\ Stream(q)'[j] = Stream(q)[j]
            \/ j > Len(Stream(q)) /\ j - Len(Stream(q)) \in DOMAIN sent
                 /\ Stream(q)'[j] = sent[j - Len(Stream(q))] /\ j \in Nat
        BY <1>1 DEF Flow
      <4> QED  BY <1>1, <1>2, <3>1, <4>1 DEF IsDone, IsRefine
    <3>5. PICK d \in DOMAIN Stream(q) : IsDone(q, d, t)
      BY <3>3
    <3>6. d \in DOMAIN Stream(q)' /\ IsDone(q, d, t)'
      BY <1>1, <3>5 DEF Flow, IsDone
    <3>7. ~sess'[q].error
      BY <1>0, <2>0, <2>2, <3>3 DEF Plain
    <3>8. /\ sess'["client"].tree = sess["client"].tree
          /\ \A o \in Peers : /\ sess'[o].had_refinements = sess[o].had_refinements
                              /\ sess'[o].tree_is_done = sess[o].tree_is_done
      BY DEF Plain, Settled, Peers
    <3>9. \A j \in DOMAIN Stream(q)' :
            (IsDone(q, j, t)' => j > i) /\ (IsRefine(q, j, t)' => j = i)
      BY <3>3, <3>4 DEF IsDone, IsRefine
    <3> HIDE DEF q
    <3> QED  BY <2>2, <3>1, <3>3, <3>4, <3>6, <3>7, <3>8, <3>9
  <2> QED  BY <1>0, <2>1, <2>2
<1> HIDE DEF q
<1> QED  BY <1>3, <1>4 DEF Roots

LEMMA PlainPositions ==
  ASSUME NEW p \in Peers, NEW k, NEW sent, Plain(p, k, sent)
  PROVE  /\ \A r \in Peers : Shift(p, k, r) \in Nat
         /\ \A r \in Peers, t \in Types : \A i \in DOMAIN Stream(r)' :
              IsDone(r, i, t)' \/ IsRefine(r, i, t)' =>
                /\ i \in Nat /\ i + Shift(p, k, r) \in DOMAIN Stream(r)
                /\ IsDone(r, i, t)' => IsDone(r, i + Shift(p, k, r), t)
                /\ IsRefine(r, i, t)' => IsRefine(r, i + Shift(p, k, r), t)
         /\ \A r \in Peers, t \in Types : \A i \in DOMAIN Stream(r)' :
              IsData(r, i, t)' \/ IsRequest(r, i, t)' =>
                \/ /\ i \in Nat /\ i + Shift(p, k, r) \in DOMAIN Stream(r)
                   /\ IsData(r, i, t)' => IsData(r, i + Shift(p, k, r), t)
                   /\ IsRequest(r, i, t)' => IsRequest(r, i + Shift(p, k, r), t)
                \/ /\ i \in Nat /\ p = "client" /\ r = "server" /\ i > Len(Stream(r))
                   /\ IsRequest(p, 1, t) /\ IsData(r, i, t)'
<1> DEFINE q == Other(p)
<1>0. q \in Peers /\ q # p /\ Peers = {p, q}
  BY TwoPeers
<1>1. Flow(p, k, sent) /\ k \in Nat /\ Len(Stream(q)) \in Nat
  BY DEF Plain, Flow
<1>2. \A i \in DOMAIN sent : sent[i].cmd \notin {"refine", "done"}
  BY DEF Plain
<1>3. \A r \in Peers : Shift(p, k, r) \in Nat
  BY <1>1 DEF Shift
<1>4. ASSUME NEW i \in DOMAIN Stream(p)'
      PROVE  i \in Nat /\ i + k \in DOMAIN Stream(p) /\ Stream(p)'[i] = Stream(p)[i+k]
  BY <1>1 DEF Flow
<1>5. ASSUME NEW i \in DOMAIN Stream(q)'
      PROVE  /\ i \in Nat /\ i + 0 = i
             /\ \/ i \in DOMAIN Stream(q) /\ Stream(q)'[i] = Stream(q)[i]
                \/ i > Len(Stream(q)) /\ i - Len(Stream(q)) \in DOMAIN sent
                     /\ Stream(q)'[i] = sent[i - Len(Stream(q))]
  BY <1>1 DEF Flow
<1>6. ASSUME NEW r \in Peers, NEW t \in Types, NEW i \in DOMAIN Stream(r)',
             IsDone(r, i, t)' \/ IsRefine(r, i, t)'
      PROVE  /\ i \in Nat /\ i + Shift(p, k, r) \in DOMAIN Stream(r)
             /\ IsDone(r, i, t)' => IsDone(r, i + Shift(p, k, r), t)
             /\ IsRefine(r, i, t)' => IsRefine(r, i + Shift(p, k, r), t)
  <2>1. CASE r = p
    BY <1>4, <1>6, <2>1 DEF Shift, IsDone, IsRefine
  <2>2. CASE r = q
    <3>1. i \in DOMAIN Stream(q) /\ Stream(q)'[i] = Stream(q)[i] /\ i \in Nat /\ i + 0 = i
      <4> HIDE DEF q
      <4> QED  BY <1>2, <1>5, <1>6, <2>2 DEF IsDone, IsRefine
    <3>2. Shift(p, k, r) = 0
      BY <1>0, <2>2 DEF Shift
    <3> HIDE DEF q
    <3> QED  BY <1>6, <2>2, <3>1, <3>2 DEF IsDone, IsRefine
  <2> QED  BY <1>0, <2>1, <2>2
<1>7. ASSUME NEW r \in Peers, NEW t \in Types, NEW i \in DOMAIN Stream(r)',
             IsData(r, i, t)' \/ IsRequest(r, i, t)'
      PROVE  \/ /\ i \in Nat /\ i + Shift(p, k, r) \in DOMAIN Stream(r)
                /\ IsData(r, i, t)' => IsData(r, i + Shift(p, k, r), t)
                /\ IsRequest(r, i, t)' => IsRequest(r, i + Shift(p, k, r), t)
             \/ /\ i \in Nat /\ p = "client" /\ r = "server" /\ i > Len(Stream(r))
                /\ IsRequest(p, 1, t) /\ IsData(r, i, t)'
  <2>1. CASE r = p
    BY <1>4, <1>7, <2>1 DEF Shift, IsData, IsRequest
  <2>2. CASE r = q /\ i \in DOMAIN Stream(q) /\ Stream(q)'[i] = Stream(q)[i]
    <3>1. Shift(p, k, r) = 0 /\ i \in Nat /\ i + 0 = i
      BY <1>0, <1>5, <2>2 DEF Shift
    <3> HIDE DEF q
    <3> QED  BY <1>7, <2>2, <3>1 DEF IsData, IsRequest
  <2>3. CASE r = q /\ i > Len(Stream(q)) /\ i - Len(Stream(q)) \in DOMAIN sent
              /\ Stream(q)'[i] = sent[i - Len(Stream(q))]
    <3> DEFINE m == sent[i - Len(Stream(q))]
    <3>1. /\ m.cmd = "send_data" => TypeOf(m.item) \notin Types
          /\ m.cmd = "data" /\ TypeOf(m.item) \in Types =>
               p = "client" /\ IsRequest(p, 1, TypeOf(m.item))
      BY <2>3 DEF Plain
    <3>2. /\ IsData(r, i, t)' => m.cmd = "data" /\ TypeOf(m.item) = t
          /\ IsRequest(r, i, t)' => m.cmd = "send_data" /\ TypeOf(m.item) = t
      <4> HIDE DEF q
      <4> QED  BY <2>3 DEF IsData, IsRequest
    <3>3. p = "client" => q = "server"
      BY DEF Other
    <3>4. i \in Nat
      <4> HIDE DEF q, m
      <4> QED  BY <1>5, <2>3
    <3> HIDE DEF m, q
    <3> QED  BY <1>7, <2>3, <3>1, <3>2, <3>3, <3>4
  <2> HIDE DEF q
  <2> QED  BY <1>0, <1>5, <2>1, <2>2, <2>3
<1> QED  BY <1>3, <1>6, <1>7

LEMMA PlainMarkers ==
  ASSUME NEW p \in Peers, NEW k, NEW sent, Plain(p, k, sent), Markers
  PROVE  Markers'
<1> DEFINE d(r) == Shift(p, k, r)
<1>1. /\ \A r \in Peers : d(r) \in Nat
      /\ \A r \in Peers, t \in Types : \A i \in DOMAIN Stream(r)' : IsDone(r, i, t)' =>
           i \in Nat /\ i + d(r) \in DOMAIN Stream(r) /\ IsDone(r, i + d(r), t)
  BY PlainPositions
<1>2. /\ sess'["client"].had_refinements = sess["client"].had_refinements
      /\ sess'["server"].had_refinements = sess["server"].had_refinements
      /\ sess'["client"].tree_is_done = sess["client"].tree_is_done
      /\ sess'["server"].tree_is_done = sess["server"].tree_is_done
      /\ "client" \in Peers /\ "server" \in Peers
  BY DEF Plain, Peers
<1> HIDE DEF d
<1>3. ASSUME NEW r \in Peers, NEW o \in Peers, NEW t \in Types, NEW i \in DOMAIN Stream(r)',
             NEW j \in DOMAIN Stream(o)', IsDone(r, i, t)', IsDone(o, j, t)'
      PROVE  r = o /\ i = j
  <2>1. IsDone(r, i + d(r), t) /\ IsDone(o, j + d(o), t) /\ i \in Nat /\ j \in Nat
        /\ i + d(r) \in DOMAIN Stream(r) /\ j + d(o) \in DOMAIN Stream(o)
    BY <1>1, <1>3
  <2>2. r = o /\ i + d(r) = j + d(o)
    BY <2>1 DEF Markers
  <2> QED  BY <1>1, <2>1, <2>2
<1>4. ASSUME NEW t \in Types, NEW i \in DOMAIN Stream("server")', IsDone("server", i, t)'
      PROVE  /\ t \notin sess'["server"].tree_is_done
             /\ \/ t \in sess'["client"].tree_is_done /\ t \notin sess'["server"].had_refinements
                \/ t \notin sess'["client"].tree_is_done /\ t \in sess'["server"].had_refinements
                \/ t \notin sess'["client"].tree_is_done
                     /\ \E j \in DOMAIN Stream("server")' : IsRefine("server", j, t)'
  <2>1. i + d("server") \in DOMAIN Stream("server") /\ IsDone("server", i + d("server"), t)
    BY <1>1, <1>2, <1>4
  <2>2. /\ t \notin sess["server"].tree_is_done
        /\ \/ t \in sess["client"].tree_is_done /\ t \notin sess["server"].had_refinements
           \/ t \notin sess["client"].tree_is_done /\ t \in sess["server"].had_refinements
           \/ t \notin sess["client"].tree_is_done
                /\ \E j \in DOMAIN Stream("server") : IsRefine("server", j, t)
    BY <2>1 DEF Markers
  <2>3. ASSUME NEW j \in DOMAIN Stream("server"), IsRefine("server", j, t)
        PROVE  \E o \in DOMAIN Stream("server")' : IsRefine("server", o, t)'
    <3>1. CASE p = "server"
      <4>1. j > k /\ j \in Nat /\ k \in Nat
        BY <1>4, <2>3, <3>1 DEF Plain, Flow, IsRefine
      <4>2. j - k \in DOMAIN Stream("server")' /\ (j - k) + k = j
        <5>1. \A o \in DOMAIN Stream(p) : o > k => o - k \in DOMAIN Stream(p)'
          BY DEF Plain, Flow
        <5> QED  BY <2>3, <3>1, <4>1, <5>1
      <4>3. IsRefine("server", j - k, t)'
        BY <2>3, <3>1, <4>2 DEF Plain, Flow, IsRefine
      <4> QED  BY <4>2, <4>3
    <3>2. CASE p = "client"
      <4>1. Other(p) = "server"
        BY <3>2 DEF Other
      <4> QED  BY <2>3, <4>1 DEF Plain, Flow, IsRefine
    <3> QED  BY <3>1, <3>2 DEF Peers
  <2> QED  BY <1>2, <2>2, <2>3
<1>5. ASSUME NEW t \in Types, NEW i \in DOMAIN Stream("client")', IsDone("client", i, t)'
      PROVE  /\ t \notin sess'["server"].had_refinements
             /\ t \in sess'["client"].tree_is_done <=> t \in sess'["server"].tree_is_done
  <2>1. i + d("client") \in DOMAIN Stream("client") /\ IsDone("client", i + d("client"), t)
    BY <1>1, <1>2, <1>5
  <2>2. /\ t \notin sess["server"].had_refinements
        /\ t \in sess["client"].tree_is_done <=> t \in sess["server"].tree_is_done
    BY <2>1 DEF Markers
  <2> QED  BY <1>2, <2>2
<1> QED  BY <1>2, <1>3, <1>4, <1>5 DEF Markers

LEMMA PlainTraffic ==
  ASSUME NEW p \in Peers, NEW k, NEW sent, Plain(p, k, sent), Traffic, Markers, Roots
  PROVE  Traffic'
<1> DEFINE d(r) == Shift(p, k, r)
<1>1. /\ \A r \in Peers : d(r) \in Nat
      /\ \A r \in Peers, t \in Types : \A i \in DOMAIN Stream(r)' :
           IsDone(r, i, t)' \/ IsRefine(r, i, t)' =>
             /\ i \in Nat /\ i + d(r) \in DOMAIN Stream(r)
             /\ IsDone(r, i, t)' => IsDone(r, i + d(r), t)
             /\ IsRefine(r, i, t)' => IsRefine(r, i + d(r), t)
      /\ \A r \in Peers, t \in Types : \A i \in DOMAIN Stream(r)' :
           IsData(r, i, t)' \/ IsRequest(r, i, t)' =>
             \/ /\ i \in Nat /\ i + d(r) \in DOMAIN Stream(r)
                /\ IsData(r, i, t)' => IsData(r, i + d(r), t)
                /\ IsRequest(r, i, t)' => IsRequest(r, i + d(r), t)
             \/ /\ i \in Nat /\ p = "client" /\ r = "server" /\ i > Len(Stream(r))
                /\ IsRequest(p, 1, t) /\ IsData(r, i, t)'
  BY PlainPositions
<1>2. /\ sess'["client"].had_refinements = sess["client"].had_refinements
      /\ sess'["server"].had_refinements = sess["server"].had_refinements
      /\ sess'["client"].tree_is_done = sess["client"].tree_is_done
      /\ sess'["server"].tree_is_done = sess["server"].tree_is_done
      /\ "client" \in Peers /\ "server" \in Peers
  BY DEF Plain, Peers
<1> HIDE DEF d
<1>3. ASSUME NEW t \in Types, NEW i \in DOMAIN Stream("client")',
             IsRequest("client", i, t)' \/ IsData("client", i, t)'
      PROVE  /\ t \notin sess'["client"].tree_is_done
             /\ \A j \in DOMAIN Stream("client")' : IsDone("client", j, t)' => j > i
             /\ \A j \in DOMAIN Stream("server")' : ~IsRefine("server", j, t)'
  <2>1. /\ i \in Nat /\ i + d("client") \in DOMAIN Stream("client")
        /\ IsData("client", i + d("client"), t) \/ IsRequest("client", i + d("client"), t)
    BY <1>1, <1>2, <1>3
  <2>2. /\ t \notin sess["client"].tree_is_done
        /\ \A j \in DOMAIN Stream("client") : IsDone("client", j, t) => j > i + d("client")
        /\ \A j \in DOMAIN Stream("server") : ~IsRefine("server", j, t)
    BY <2>1 DEF Traffic
  <2>3. ASSUME NEW j \in DOMAIN Stream("client")', IsDone("client", j, t)' PROVE j > i
    <3>1. j \in Nat /\ j + d("client") > i + d("client")
      BY <1>1, <1>2, <2>2, <2>3
    <3> QED  BY <1>1, <1>2, <2>1, <3>1
  <2>4. \A j \in DOMAIN Stream("server")' : ~IsRefine("server", j, t)'
    BY <1>1, <1>2, <2>2
  <2> QED  BY <1>2, <2>2, <2>3, <2>4
<1>4. ASSUME NEW t \in Types, NEW i \in DOMAIN Stream("server")'
      PROVE  /\ ~IsRequest("server", i, t)'
             /\ IsData("server", i, t)' =>
                  /\ t \notin sess'["server"].tree_is_done
                  /\ \A j \in DOMAIN Stream("server")' : IsDone("server", j, t)' /\ j < i =>
                       t \in sess'["server"].had_refinements
                  /\ \A j \in DOMAIN Stream("server")' : ~IsRefine("server", j, t)'
  <2>1. ASSUME IsData("server", i, t)' \/ IsRequest("server", i, t)',
               i \in Nat, i + d("server") \in DOMAIN Stream("server"),
               IsData("server", i, t)' => IsData("server", i + d("server"), t),
               IsRequest("server", i, t)' => IsRequest("server", i + d("server"), t)
        PROVE  /\ ~IsRequest("server", i, t)'
               /\ t \notin sess'["server"].tree_is_done
               /\ \A j \in DOMAIN Stream("server")' : IsDone("server", j, t)' /\ j < i =>
                    t \in sess'["server"].had_refinements
               /\ \A j \in DOMAIN Stream("server")' : ~IsRefine("server", j, t)'
    <3>1. ~IsRequest("server", i + d("server"), t) /\ IsData("server", i + d("server"), t)
      BY <2>1 DEF Traffic
    <3>2. /\ t \notin sess["server"].tree_is_done
          /\ \A j \in DOMAIN Stream("server") : IsDone("server", j, t) /\ j < i + d("server") =>
               t \in sess["server"].had_refinements
          /\ \A j \in DOMAIN Stream("server") : ~IsRefine("server", j, t)
      BY <2>1, <3>1 DEF Traffic
    <3>3. ASSUME NEW j \in DOMAIN Stream("server")', IsDone("server", j, t)', j < i
          PROVE  t \in sess["server"].had_refinements
      <4>1. j \in Nat /\ IsDone("server", j + d("server"), t) /\ j + d("server") \in DOMAIN Stream("server")
        BY <1>1, <1>2, <3>3
      <4>2. j + d("server") < i + d("server")
        BY <1>1, <1>2, <2>1, <3>3, <4>1
      <4> QED  BY <3>2, <4>1, <4>2
    <3>4. \A j \in DOMAIN Stream("server")' : ~IsRefine("server", j, t)'
      BY <1>1, <1>2, <3>2
    <3> QED  BY <1>2, <2>1, <3>1, <3>2, <3>3, <3>4
  <2>2. ASSUME p = "client", i > Len(Stream("server")), IsRequest("client", 1, t), IsData("server", i, t)'
        PROVE  /\ ~IsRequest("server", i, t)'
               /\ t \notin sess'["server"].tree_is_done
               /\ \A j \in DOMAIN Stream("server")' : IsDone("server", j, t)' /\ j < i =>
                    t \in sess'["server"].had_refinements
               /\ \A j \in DOMAIN Stream("server")' : ~IsRefine("server", j, t)'
    <3>1. t \notin sess["client"].tree_is_done
          /\ \A j \in DOMAIN Stream("server") : ~IsRefine("server", j, t)
      BY <2>2 DEF Traffic, IsRequest
    <3>2. t \notin sess["server"].tree_is_done
      BY <3>1 DEF Markers
    <3>3. \A j \in DOMAIN Stream("server")' : ~IsRefine("server", j, t)'
      BY <1>1, <1>2, <3>1
    <3>4. \A j \in DOMAIN Stream("server") : IsDone("server", j, t) => t \in sess["server"].had_refinements
      BY <3>1 DEF Markers
    <3>5. ~IsRequest("server", i, t)'
      BY <2>2 DEF IsRequest, IsData
    <3>6. \A j \in DOMAIN Stream("server")' : IsDone("server", j, t)' => t \in sess["server"].had_refinements
      BY <1>1, <1>2, <3>4
    <3> QED  BY <1>2, <3>2, <3>3, <3>5, <3>6
  <2> QED  BY <1>1, <1>2, <2>1, <2>2
<1> QED  BY <1>3, <1>4 DEF Traffic
-----------------------------------------------------------------------------
(* The step that takes a marker.                                           *)

LEMMA MarkedPositions ==
  ASSUME NEW p \in Peers, NEW t, NEW sent, Marked(p, t, sent), Roots, Markers
  PROVE  LET n == Len(Stream(Other(p)))
             d(r) == Shift(p, 1, r)
         IN  /\ d(p) = 1 /\ d(Other(p)) = 0 /\ n \in Nat
             /\ \A r \in Peers : \A i \in DOMAIN Stream(r)' : i \in Nat \ {0}
             /\ \A i \in DOMAIN Stream(Other(p)) : i \in Nat /\ i < n + 1
             /\ \A r \in Peers, u \in Types : \A i \in DOMAIN Stream(r)' :
                  /\ IsRefine(r, i, u)' => u # t /\ IsRefine(r, i + d(r), u)
                  /\ IsData(r, i, u)' => IsData(r, i + d(r), u)
                  /\ IsRequest(r, i, u)' => IsRequest(r, i + d(r), u)
                  /\ IsDone(r, i, u)' =>
                       \/ u # t /\ IsDone(r, i + d(r), u)
                       \/ u = t /\ r = Other(p) /\ i = n + 1 /\ t \notin sess[p].tree_is_done
             /\ \A r \in Peers : \A i : IsDone(r, i, t) => r = p /\ i = 1
             /\ \A r \in Peers : \A i : ~IsRefine(r, i, t)
             /\ \A i \in DOMAIN Stream(p) : i \in Nat \ {0}
<1> DEFINE q == Other(p)
           n == Len(Stream(q))
<1>0. q \in Peers /\ q # p /\ Peers = {p, q}
  BY TwoPeers
<1>1. Flow(p, 1, sent) /\ n \in Nat /\ t \in Types /\ IsDone(p, 1, t) /\ 1 \in DOMAIN Stream(p)
  BY DEF Marked, Flow, IsDone
<1>2. Shift(p, 1, p) = 1 /\ Shift(p, 1, q) = 0
  BY <1>0 DEF Shift
<1>3. ASSUME NEW r \in Peers, NEW i, IsDone(r, i, t) PROVE r = p /\ i = 1
  BY <1>1, <1>3 DEF Markers, IsDone
<1>4. ASSUME NEW r \in Peers, NEW i, IsRefine(r, i, t) PROVE FALSE
  <2>1. PICK j \in DOMAIN Stream(r) : IsDone(r, j, t) /\ j > i
    BY <1>1, <1>4 DEF Roots, IsRefine
  <2>2. r = p /\ j = 1 /\ i \in Nat \ {0}
    BY <1>1, <1>3, <1>4, <2>1 DEF IsRefine, Flow
  <2> QED  BY <2>1, <2>2
<1>5. ASSUME NEW i \in DOMAIN Stream(p)'
      PROVE  i \in Nat \ {0} /\ i + 1 \in DOMAIN Stream(p) /\ Stream(p)'[i] = Stream(p)[i+1]
  BY <1>1 DEF Flow
<1>6. ASSUME NEW i \in DOMAIN Stream(q)'
      PROVE  /\ i \in Nat \ {0} /\ i + 0 = i
             /\ \/ i \in DOMAIN Stream(q) /\ Stream(q)'[i] = Stream(q)[i]
                \/ i = n + 1 /\ Stream(q)'[i] = Done(t) /\ t \notin sess[p].tree_is_done
                \/ Stream(q)'[i].cmd = "send_data" /\ TypeOf(Stream(q)'[i].item) \notin Types
                \/ Stream(q)'[i].cmd = "bye"
  <2>1. /\ i \in Nat \ {0}
        /\ \/ i \in DOMAIN Stream(q) /\ Stream(q)'[i] = Stream(q)[i]
           \/ i - n \in DOMAIN sent /\ Stream(q)'[i] = sent[i - n]
    BY <1>1 DEF Flow
  <2>2. CASE i - n \in DOMAIN sent /\ Stream(q)'[i] = sent[i - n]
    <3>1. \/ i - n = 1 /\ sent[i - n] = Done(t) /\ t \notin sess[p].tree_is_done
          \/ sent[i - n].cmd = "send_data" /\ TypeOf(sent[i - n].item) \notin Types
          \/ sent[i - n].cmd = "bye"
      BY <2>2 DEF Marked
    <3>2. i - n = 1 => i = n + 1
      BY <1>1, <2>1
    <3> HIDE DEF n, q
    <3> QED  BY <2>1, <2>2, <3>1, <3>2
  <2> QED  BY <2>1, <2>2
<1>7. ASSUME NEW u \in Types, NEW i \in DOMAIN Stream(p)'
      PROVE  /\ IsRefine(p, i, u)' => u # t /\ IsRefine(p, i + 1, u)
             /\ IsData(p, i, u)' => IsData(p, i + 1, u)
             /\ IsRequest(p, i, u)' => IsRequest(p, i + 1, u)
             /\ IsDone(p, i, u)' => u # t /\ IsDone(p, i + 1, u)
  <2>1. /\ IsRefine(p, i, u)' => IsRefine(p, i + 1, u)
        /\ IsData(p, i, u)' => IsData(p, i + 1, u)
        /\ IsRequest(p, i, u)' => IsRequest(p, i + 1, u)
        /\ IsDone(p, i, u)' => IsDone(p, i + 1, u)
    BY <1>5 DEF IsRefine, IsDone, IsData, IsRequest
  <2>2. i + 1 # 1
    BY <1>5
  <2> QED  BY <1>3, <1>4, <2>1, <2>2
<1>8. ASSUME NEW u \in Types, NEW i \in DOMAIN Stream(q)'
      PROVE  /\ IsRefine(q, i, u)' => u # t /\ IsRefine(q, i + 0, u)
             /\ IsData(q, i, u)' => IsData(q, i + 0, u)
             /\ IsRequest(q, i, u)' => IsRequest(q, i + 0, u)
             /\ IsDone(q, i, u)' =>
                  \/ u # t /\ IsDone(q, i + 0, u)
                  \/ u = t /\ i = n + 1 /\ t \notin sess[p].tree_is_done
  <2>0. Done(t).cmd = "done" /\ Done(t).type = t
    BY DEF Done
  <2> HIDE DEF q, n
  <2>1. /\ IsRefine(q, i, u)' => IsRefine(q, i + 0, u)
        /\ IsData(q, i, u)' => IsData(q, i + 0, u)
        /\ IsRequest(q, i, u)' => IsRequest(q, i + 0, u)
        /\ IsDone(q, i, u)' => \/ IsDone(q, i + 0, u)
                               \/ u = t /\ i = n + 1 /\ t \notin sess[p].tree_is_done
    BY <1>6, <2>0 DEF IsRefine, IsDone, IsData, IsRequest
  <2> QED  BY <1>0, <1>3, <1>4, <2>1
<1>9. (\A i \in DOMAIN Stream(q) : i \in Nat /\ i < n + 1) /\ (\A i \in DOMAIN Stream(p) : i \in Nat \ {0})
  BY <1>1 DEF Flow
<1> HIDE DEF q, n
<1>10. \A r \in Peers : r = p \/ r = q
  BY <1>0
<1>11. \A r \in Peers : \A i \in DOMAIN Stream(r)' : i \in Nat \ {0}
  BY <1>5, <1>6, <1>10
<1>12. \A r \in Peers, u \in Types : \A i \in DOMAIN Stream(r)' :
          /\ IsRefine(r, i, u)' => u # t /\ IsRefine(r, i + Shift(p, 1, r), u)
          /\ IsData(r, i, u)' => IsData(r, i + Shift(p, 1, r), u)
          /\ IsRequest(r, i, u)' => IsRequest(r, i + Shift(p, 1, r), u)
          /\ IsDone(r, i, u)' =>
               \/ u # t /\ IsDone(r, i + Shift(p, 1, r), u)
               \/ u = t /\ r = q /\ i = n + 1 /\ t \notin sess[p].tree_is_done
  <2> SUFFICES ASSUME NEW r \in Peers, NEW u \in Types, NEW i \in DOMAIN Stream(r)'
        PROVE  /\ IsRefine(r, i, u)' => u # t /\ IsRefine(r, i + Shift(p, 1, r), u)
               /\ IsData(r, i, u)' => IsData(r, i + Shift(p, 1, r), u)
               /\ IsRequest(r, i, u)' => IsRequest(r, i + Shift(p, 1, r), u)
               /\ IsDone(r, i, u)' =>
                    \/ u # t /\ IsDone(r, i + Shift(p, 1, r), u)
                    \/ u = t /\ r = q /\ i = n + 1 /\ t \notin sess[p].tree_is_done
    OBVIOUS
  <2>1. CASE r = p
    BY <1>2, <1>7, <2>1
  <2>2. CASE r = q
    BY <1>2, <1>8, <2>2
  <2> QED  BY <1>10, <2>1, <2>2
<1> QED  BY <1>1, <1>2, <1>3, <1>4, <1>9, <1>11, <1>12 DEF q, n

LEMMA MarkedRoots ==
  ASSUME NEW p \in Peers, NEW t, NEW sent, Marked(p, t, sent), Roots, Markers
  PROVE  Roots'
<1> DEFINE q == Other(p)
           d(r) == Shift(p, 1, r)
<1>0. q \in Peers /\ q # p /\ Peers = {p, q}
  BY TwoPeers
<1>1. /\ \A r \in Peers : \A i \in DOMAIN Stream(r)' : i \in Nat \ {0}
      /\ \A r \in Peers, u \in Types : \A i \in DOMAIN Stream(r)' :
           /\ IsRefine(r, i, u)' => u # t /\ IsRefine(r, i + d(r), u)
           /\ IsDone(r, i, u)' => u = t \/ IsDone(r, i + d(r), u)
      /\ \A r \in Peers : d(r) \in Nat
  <2>1. d(p) = 1 /\ d(q) = 0
    BY MarkedPositions
  <2>2. \A r \in Peers : d(r) \in Nat
    BY <1>0, <2>1
  <2> HIDE DEF d
  <2> QED  BY <2>2, MarkedPositions DEF d
<1>2. Flow(p, 1, sent) /\ d(p) = 1 /\ d(q) = 0
  BY <1>0 DEF Marked, Shift
<1>3. ASSUME NEW r \in Peers, NEW j \in DOMAIN Stream(r), j > d(r)
      PROVE  j \in Nat /\ j - d(r) \in DOMAIN Stream(r)' /\ Stream(r)'[j - d(r)] = Stream(r)[j]
             /\ (j - d(r)) + d(r) = j
  <2>1. CASE r = p
    <3>1. j \in Nat /\ j - 1 \in DOMAIN Stream(p)' /\ (j - 1) + 1 = j
      BY <1>2, <1>3, <2>1 DEF Flow
    <3>2. Stream(p)'[j - 1] = Stream(p)[(j - 1) + 1]
      BY <1>2, <3>1 DEF Flow
    <3> QED  BY <1>2, <2>1, <3>1, <3>2
  <2>2. CASE r = q
    <3>1. j \in Nat /\ j \in DOMAIN Stream(q)' /\ Stream(q)'[j] = Stream(q)[j]
      BY <1>2, <1>3, <2>2 DEF Flow
    <3> HIDE DEF q
    <3> QED  BY <1>2, <2>2, <3>1
  <2> QED  BY <1>0, <2>1, <2>2
<1>4. ASSUME NEW r \in Peers, NEW i \in DOMAIN Stream(r)',
             Stream(r)'[i].cmd = "refine" \/ Stream(r)'[i].cmd = "data"
      PROVE  i \in Nat /\ i + d(r) \in DOMAIN Stream(r) /\ Stream(r)'[i] = Stream(r)[i + d(r)]
  <2>1. CASE r = p
    BY <1>2, <2>1 DEF Flow
  <2>2. CASE r = q
    <3>1. \/ i \in DOMAIN Stream(q) /\ Stream(q)'[i] = Stream(q)[i]
          \/ i - Len(Stream(q)) \in DOMAIN sent /\ Stream(q)'[i] = sent[i - Len(Stream(q))]
      BY <1>2, <2>2 DEF Flow
    <3>2. \A o \in DOMAIN sent : sent[o].cmd \in {"done", "send_data", "bye"}
      BY DEF Marked, Done
    <3>3. i \in Nat
      BY <1>1
    <3> HIDE DEF q
    <3> QED  BY <1>2, <1>4, <2>2, <3>1, <3>2, <3>3
  <2> QED  BY <1>0, <2>1, <2>2
<1>5. /\ sess'["client"].tree = sess["client"].tree
      /\ \A o \in Peers : sess'[o].tree = sess[o].tree
      /\ \A o \in Peers, u \in Types : u # t =>
           /\ u \in sess'[o].had_refinements <=> u \in sess[o].had_refinements
           /\ u \in sess'[o].tree_is_done <=> u \in sess[o].tree_is_done
      /\ \A o \in Peers : sess'[o].error => sess[o].error
  <2>1. /\ \A o \in Peers : sess'[o].tree = sess[o].tree
        /\ \A o \in Peers : sess'[o].error => sess[o].error
        /\ sess'[q].had_refinements = sess[q].had_refinements
        /\ sess'[q].tree_is_done = sess[q].tree_is_done
        /\ sess'[p].had_refinements = sess[p].had_refinements \ ({t} \ sess[p].tree_is_done)
        /\ sess'[p].tree_is_done = sess[p].tree_is_done \cup ({t} \ sess[p].had_refinements)
    BY DEF Marked, Settled
  <2>2. \A o \in Peers : o = p \/ o = q
    BY <1>0
  <2> HIDE DEF q
  <2> QED  BY <2>1, <2>2 DEF Peers
<1> HIDE DEF d
<1>6. ASSUME NEW r \in Peers, NEW u \in Types, NEW i \in DOMAIN Stream(r)', IsRefine(r, i, u)'
      PROVE  /\ r = "server" /\ Stream(r)'[i].items = sess'["client"].tree[u]
             /\ \A o \in Peers : u \notin sess'[o].tree_is_done \cup sess'[o].had_refinements
             /\ \A j \in DOMAIN Stream(r)' : IsRefine(r, j, u)' => j = i
             /\ \A j \in DOMAIN Stream(r)' : IsDone(r, j, u)' => j > i
             /\ \E j \in DOMAIN Stream(r)' : IsDone(r, j, u)'
             /\ \A j \in DOMAIN Stream(r)' : Stream(r)'[j].cmd = "data" => j > i
             /\ ~sess'[r].error
  <2>1. u # t /\ IsRefine(r, i + d(r), u) /\ i \in Nat /\ d(r) \in Nat
    BY <1>1, <1>6
  <2>2. i + d(r) \in DOMAIN Stream(r) /\ Stream(r)'[i] = Stream(r)[i + d(r)]
    BY <1>4, <1>6 DEF IsRefine
  <2>3. /\ r = "server" /\ Stream(r)[i + d(r)].items = sess["client"].tree[u]
        /\ \A o \in Peers : u \notin sess[o].tree_is_done \cup sess[o].had_refinements
        /\ \A j \in DOMAIN Stream(r) : IsRefine(r, j, u) => j = i + d(r)
        /\ \A j \in DOMAIN Stream(r) : IsDone(r, j, u) => j > i + d(r)
        /\ \E j \in DOMAIN Stream(r) : IsDone(r, j, u)
        /\ \A j \in DOMAIN Stream(r) : Stream(r)[j].cmd = "data" => j > i + d(r)
        /\ ~sess[r].error
    BY <2>1, <2>2 DEF Roots
  <2>4. \A j \in DOMAIN Stream(r)' : IsRefine(r, j, u)' => j = i
    <3> SUFFICES ASSUME NEW j \in DOMAIN Stream(r)', IsRefine(r, j, u)' PROVE j = i
      OBVIOUS
    <3>1. j \in Nat /\ j + d(r) \in DOMAIN Stream(r) /\ IsRefine(r, j + d(r), u)
      BY <1>1, <1>4 DEF IsRefine
    <3>2. j + d(r) = i + d(r)
      BY <2>3, <3>1
    <3> QED  BY <2>1, <3>1, <3>2
  <2>5. \A j \in DOMAIN Stream(r)' : IsDone(r, j, u)' => j > i
    <3> SUFFICES ASSUME NEW j \in DOMAIN Stream(r)', IsDone(r, j, u)' PROVE j > i
      OBVIOUS
    <3>1. j \in Nat /\ IsDone(r, j + d(r), u)
      BY <1>1, <2>1
    <3>2. j + d(r) > i + d(r)
      BY <2>3, <3>1 DEF IsDone
    <3> QED  BY <2>1, <3>1, <3>2
  <2>6. \A j \in DOMAIN Stream(r)' : Stream(r)'[j].cmd = "data" => j > i
    <3> SUFFICES ASSUME NEW j \in DOMAIN Stream(r)', Stream(r)'[j].cmd = "data" PROVE j > i
      OBVIOUS
    <3>1. j \in Nat /\ j + d(r) \in DOMAIN Stream(r) /\ Stream(r)[j + d(r)].cmd = "data"
      BY <1>4
    <3>2. j + d(r) > i + d(r)
      BY <2>3, <3>1
    <3> QED  BY <2>1, <3>1, <3>2
  <2>7. \E j \in DOMAIN Stream(r)' : IsDone(r, j, u)'
    <3>1. PICK j \in DOMAIN Stream(r) : IsDone(r, j, u) /\ j > i + d(r)
      BY <2>3
    <3>2. j > d(r)
      <4>1. j \in Nat
        <5>1. \A o \in DOMAIN Stream(p) : o \in Nat
          BY <1>2 DEF Flow
        <5>2. \A o \in DOMAIN Stream(q) : o \in Nat
          BY <1>2 DEF Flow
        <5> HIDE DEF q
        <5> QED  BY <1>0, <3>1, <5>1, <5>2
      <4> QED  BY <2>1, <3>1, <4>1
    <3>3. j - d(r) \in DOMAIN Stream(r)' /\ Stream(r)'[j - d(r)] = Stream(r)[j]
      BY <1>3, <3>1, <3>2
    <3> QED  BY <3>1, <3>3 DEF IsDone
  <2> QED  BY <1>5, <2>1, <2>2, <2>3, <2>4, <2>5, <2>6, <2>7
<1>7. \A r \in Peers, u \in Types : \A x \in sess'[r].tree[u] : TypeOf(x) = u
  BY <1>5 DEF Roots
<1> QED  BY <1>6, <1>7 DEF Roots

(* What the two lemmas below take from the positions.                      *)
LEMMA MarkedFacts ==
  ASSUME NEW p \in Peers, NEW t, NEW sent, Marked(p, t, sent), Roots, Markers
  PROVE  LET q == Other(p)
         IN  /\ q \in Peers /\ q # p /\ t \in Types /\ IsDone(p, 1, t)
             /\ sess'[q].had_refinements = sess[q].had_refinements
             /\ sess'[q].tree_is_done = sess[q].tree_is_done
             /\ sess'[p].had_refinements = sess[p].had_refinements \ ({t} \ sess[p].tree_is_done)
             /\ sess'[p].tree_is_done = sess[p].tree_is_done \cup ({t} \ sess[p].had_refinements)
             /\ \A o \in Peers, u \in Types : u # t =>
                  /\ u \in sess'[o].had_refinements <=> u \in sess[o].had_refinements
                  /\ u \in sess'[o].tree_is_done <=> u \in sess[o].tree_is_done
             /\ p = "client" => sess[p].had_refinements = {} /\ q = "server"
                  /\ t \notin sess["server"].had_refinements
                  /\ (t \in sess["client"].tree_is_done <=> t \in sess["server"].tree_is_done)
             /\ p = "server" => q = "client"
                  /\ t \notin sess["server"].tree_is_done
                  /\ (t \in sess["client"].tree_is_done <=> t \notin sess["server"].had_refinements)
             /\ \A r \in Peers : Shift(p, 1, r) \in Nat
<1> DEFINE q == Other(p)
<1>1. q \in Peers /\ q # p /\ (p = "client" => q = "server") /\ (p = "server" => q = "client")
  BY TwoPeers DEF Peers, Other
<1>2. t \in Types /\ IsDone(p, 1, t) /\ \A r \in Peers : \A i : ~IsRefine(r, i, t)
  BY MarkedPositions DEF Marked
<1>3. /\ sess'[q].had_refinements = sess[q].had_refinements
      /\ sess'[q].tree_is_done = sess[q].tree_is_done
      /\ sess'[p].had_refinements = sess[p].had_refinements \ ({t} \ sess[p].tree_is_done)
      /\ sess'[p].tree_is_done = sess[p].tree_is_done \cup ({t} \ sess[p].had_refinements)
  BY DEF Marked
<1>4. Peers = {p, q}
  BY TwoPeers
<1> HIDE DEF q
<1>5. \A o \in Peers, u \in Types : u # t =>
         /\ u \in sess'[o].had_refinements <=> u \in sess[o].had_refinements
         /\ u \in sess'[o].tree_is_done <=> u \in sess[o].tree_is_done
  BY <1>3, <1>4
<1>6. p = "client" => sess[p].had_refinements = {}
                  /\ t \notin sess["server"].had_refinements
                  /\ (t \in sess["client"].tree_is_done <=> t \in sess["server"].tree_is_done)
  BY <1>2 DEF Markers, IsDone
<1>7. p = "server" => /\ t \notin sess["server"].tree_is_done
                      /\ (t \in sess["client"].tree_is_done <=> t \notin sess["server"].had_refinements)
  <2> SUFFICES ASSUME p = "server"
               PROVE  /\ t \notin sess["server"].tree_is_done
                      /\ (t \in sess["client"].tree_is_done <=> t \notin sess["server"].had_refinements)
    OBVIOUS
  <2>1. /\ t \notin sess["server"].tree_is_done
        /\ \/ t \in sess["client"].tree_is_done /\ t \notin sess["server"].had_refinements
           \/ t \notin sess["client"].tree_is_done /\ t \in sess["server"].had_refinements
           \/ t \notin sess["client"].tree_is_done
                /\ \E j \in DOMAIN Stream("server") : IsRefine("server", j, t)
    BY <1>2 DEF Markers, IsDone
  <2> QED  BY <1>2, <2>1
<1>8. \A r \in Peers : Shift(p, 1, r) \in Nat
  BY DEF Shift
<1> QED  BY <1>1, <1>2, <1>3, <1>5, <1>6, <1>7, <1>8 DEF q

LEMMA MarkedMarkers ==
  ASSUME NEW p \in Peers, NEW t, NEW sent, Marked(p, t, sent), Roots, Markers
  PROVE  Markers'
<1> DEFINE q == Other(p)
           n == Len(Stream(q))
           d(r) == Shift(p, 1, r)
<1>1. /\ \A r \in Peers : \A i \in DOMAIN Stream(r)' : i \in Nat \ {0}
      /\ \A r \in Peers, u \in Types : \A i \in DOMAIN Stream(r)' :
           /\ IsDone(r, i, u)' => \/ u # t /\ IsDone(r, i + d(r), u)
                                  \/ u = t /\ r = q /\ i = n + 1 /\ t \notin sess[p].tree_is_done
  BY MarkedPositions
<1>2. /\ q \in Peers /\ q # p /\ t \in Types /\ IsDone(p, 1, t)
      /\ sess'[q].had_refinements = sess[q].had_refinements
      /\ sess'[q].tree_is_done = sess[q].tree_is_done
      /\ sess'[p].had_refinements = sess[p].had_refinements \ ({t} \ sess[p].tree_is_done)
      /\ sess'[p].tree_is_done = sess[p].tree_is_done \cup ({t} \ sess[p].had_refinements)
      /\ \A o \in Peers, u \in Types : u # t =>
           /\ u \in sess'[o].had_refinements <=> u \in sess[o].had_refinements
           /\ u \in sess'[o].tree_is_done <=> u \in sess[o].tree_is_done
      /\ p = "client" => sess[p].had_refinements = {} /\ q = "server"
           /\ t \notin sess["server"].had_refinements
           /\ (t \in sess["client"].tree_is_done <=> t \in sess["server"].tree_is_done)
      /\ p = "server" => q = "client"
           /\ t \notin sess["server"].tree_is_done
           /\ (t \in sess["client"].tree_is_done <=> t \notin sess["server"].had_refinements)
      /\ \A r \in Peers : d(r) \in Nat
  BY MarkedFacts
<1>3. "client" \in Peers /\ "server" \in Peers /\ (p = "client" \/ p = "server")
  BY DEF Peers
<1>4. ASSUME NEW r \in Peers, NEW j \in DOMAIN Stream(r), NEW u \in Types, IsRefine(r, j, u)
      PROVE  \E o \in DOMAIN Stream(r)' : IsRefine(r, o, u)'
  <2>1. Flow(p, 1, sent) /\ Peers = {p, q}
    BY TwoPeers DEF Marked
  <2>2. CASE r = p
    <3>1. j \in Nat \ {0} /\ j # 1
      BY <1>2, <1>4, <2>1, <2>2 DEF Flow, IsDone, IsRefine
    <3>2. j - 1 \in DOMAIN Stream(p)' /\ (j - 1) + 1 = j
      BY <1>4, <2>1, <2>2, <3>1 DEF Flow
    <3>3. Stream(p)'[j - 1] = Stream(p)[j]
      BY <2>1, <3>2 DEF Flow
    <3> QED  BY <1>4, <2>2, <3>2, <3>3 DEF IsRefine
  <2>3. CASE r = q
    <3>1. j \in DOMAIN Stream(q)' /\ Stream(q)'[j] = Stream(q)[j]
      BY <1>4, <2>1, <2>3 DEF Flow
    <3> HIDE DEF q
    <3> QED  BY <1>4, <2>3, <3>1 DEF IsRefine
  <2> QED  BY <2>1, <2>2, <2>3
<1> HIDE DEF d, q, n
<1>5. ASSUME NEW r \in Peers, NEW o \in Peers, NEW u \in Types,
             NEW i \in DOMAIN Stream(r)', NEW j \in DOMAIN Stream(o)', IsDone(r, i, u)', IsDone(o, j, u)'
      PROVE  r = o /\ i = j
  <2>1. i \in Nat /\ j \in Nat /\ d(r) \in Nat /\ d(o) \in Nat
    BY <1>1, <1>2
  <2>2. CASE u = t
    BY <1>1, <1>5, <2>2
  <2>3. CASE u # t
    <3>1. IsDone(r, i + d(r), u) /\ IsDone(o, j + d(o), u)
      BY <1>1, <1>5, <2>3
    <3>2. r = o /\ i + d(r) = j + d(o)
      BY <3>1 DEF Markers, IsDone
    <3> QED  BY <2>1, <3>2
  <2> QED  BY <2>2, <2>3
<1>6. ASSUME NEW u \in Types, NEW i \in DOMAIN Stream("server")', IsDone("server", i, u)'
      PROVE  /\ u \notin sess'["server"].tree_is_done
             /\ \/ u \in sess'["client"].tree_is_done /\ u \notin sess'["server"].had_refinements
                \/ u \notin sess'["client"].tree_is_done /\ u \in sess'["server"].had_refinements
                \/ u \notin sess'["client"].tree_is_done
                     /\ \E j \in DOMAIN Stream("server")' : IsRefine("server", j, u)'
  <2>1. CASE u = t
    <3>1. q = "server" /\ t \notin sess[p].tree_is_done
      BY <1>1, <1>3, <1>6, <2>1
    <3>2. p = "client"
      BY <1>2, <1>3, <3>1
    <3> QED  BY <1>2, <2>1, <3>1, <3>2
  <2>2. CASE u # t
    <3>1. IsDone("server", i + d("server"), u)
      BY <1>1, <1>3, <1>6, <2>2
    <3>2. /\ u \notin sess["server"].tree_is_done
          /\ \/ u \in sess["client"].tree_is_done /\ u \notin sess["server"].had_refinements
             \/ u \notin sess["client"].tree_is_done /\ u \in sess["server"].had_refinements
             \/ u \notin sess["client"].tree_is_done
                  /\ \E j \in DOMAIN Stream("server") : IsRefine("server", j, u)
      BY <3>1 DEF Markers, IsDone
    <3>3. /\ u \in sess'["server"].tree_is_done <=> u \in sess["server"].tree_is_done
          /\ u \in sess'["client"].tree_is_done <=> u \in sess["client"].tree_is_done
          /\ u \in sess'["server"].had_refinements <=> u \in sess["server"].had_refinements
      BY <1>2, <1>3, <2>2
    <3>4. (\E j \in DOMAIN Stream("server") : IsRefine("server", j, u)) =>
             \E j \in DOMAIN Stream("server")' : IsRefine("server", j, u)'
      BY <1>3, <1>4
    <3> QED  BY <3>2, <3>3, <3>4
  <2> QED  BY <2>1, <2>2
<1>7. ASSUME NEW u \in Types, NEW i \in DOMAIN Stream("client")', IsDone("client", i, u)'
      PROVE  /\ u \notin sess'["server"].had_refinements
             /\ u \in sess'["client"].tree_is_done <=> u \in sess'["server"].tree_is_done
  <2>1. CASE u = t
    <3>1. q = "client" /\ t \notin sess[p].tree_is_done
      BY <1>1, <1>3, <1>7, <2>1
    <3>2. p = "server"
      BY <1>2, <1>3, <3>1
    <3> QED  BY <1>2, <2>1, <3>1, <3>2
  <2>2. CASE u # t
    <3>1. IsDone("client", i + d("client"), u)
      BY <1>1, <1>3, <1>7, <2>2
    <3>2. /\ u \notin sess["server"].had_refinements
          /\ u \in sess["client"].tree_is_done <=> u \in sess["server"].tree_is_done
      BY <3>1 DEF Markers, IsDone
    <3> QED  BY <1>2, <1>3, <2>2, <3>2
  <2> QED  BY <2>1, <2>2
<1>8. sess'["client"].had_refinements = {}
  BY <1>2, <1>3 DEF Markers
<1>9. sess'["server"].tree_is_done \subseteq sess'["client"].tree_is_done
  <2>1. sess["server"].tree_is_done \subseteq sess["client"].tree_is_done
    BY DEF Markers
  <2>2. CASE p = "client"
    BY <1>2, <2>1, <2>2
  <2>3. CASE p = "server"
    BY <1>2, <2>1, <2>3
  <2> QED  BY <1>3, <2>2, <2>3
<1> QED  BY <1>5, <1>6, <1>7, <1>8, <1>9 DEF Markers

LEMMA MarkedTraffic ==
  ASSUME NEW p \in Peers, NEW t, NEW sent, Marked(p, t, sent), Roots, Markers, Traffic
  PROVE  Traffic'
<1> DEFINE q == Other(p)
           n == Len(Stream(q))
           d(r) == Shift(p, 1, r)
<1>1. /\ d(p) = 1 /\ d(q) = 0 /\ n \in Nat
      /\ \A r \in Peers : \A i \in DOMAIN Stream(r)' : i \in Nat \ {0}
      /\ \A i \in DOMAIN Stream(q) : i \in Nat /\ i < n + 1
      /\ \A r \in Peers, u \in Types : \A i \in DOMAIN Stream(r)' :
           /\ IsRefine(r, i, u)' => IsRefine(r, i + d(r), u)
           /\ IsData(r, i, u)' => IsData(r, i + d(r), u)
           /\ IsRequest(r, i, u)' => IsRequest(r, i + d(r), u)
           /\ IsDone(r, i, u)' => \/ u # t /\ IsDone(r, i + d(r), u)
                                  \/ u = t /\ r = q /\ i = n + 1 /\ t \notin sess[p].tree_is_done
  BY MarkedPositions
<1>2. /\ q \in Peers /\ q # p /\ t \in Types /\ IsDone(p, 1, t)
      /\ sess'[q].tree_is_done = sess[q].tree_is_done
      /\ sess'[p].tree_is_done = sess[p].tree_is_done \cup ({t} \ sess[p].had_refinements)
      /\ \A o \in Peers, u \in Types : u # t =>
           /\ u \in sess'[o].had_refinements <=> u \in sess[o].had_refinements
           /\ u \in sess'[o].tree_is_done <=> u \in sess[o].tree_is_done
      /\ p = "client" => q = "server"
      /\ p = "server" => q = "client"
      /\ \A r \in Peers : d(r) \in Nat
  BY MarkedFacts
<1>3. "client" \in Peers /\ "server" \in Peers /\ (p = "client" \/ p = "server")
  BY DEF Peers
<1> HIDE DEF d, q, n
<1>4. ASSUME NEW u \in Types, NEW i \in DOMAIN Stream("client")',
             IsRequest("client", i, u)' \/ IsData("client", i, u)'
      PROVE  /\ u \notin sess'["client"].tree_is_done
             /\ \A j \in DOMAIN Stream("client")' : IsDone("client", j, u)' => j > i
             /\ \A j \in DOMAIN Stream("server")' : ~IsRefine("server", j, u)'
  <2>1. /\ i \in Nat /\ d("client") \in Nat /\ i + d("client") \in DOMAIN Stream("client")
        /\ IsRequest("client", i + d("client"), u) \/ IsData("client", i + d("client"), u)
    BY <1>1, <1>2, <1>3, <1>4 DEF IsRequest, IsData
  <2>2. /\ u \notin sess["client"].tree_is_done
        /\ \A j \in DOMAIN Stream("client") : IsDone("client", j, u) => j > i + d("client")
        /\ \A j \in DOMAIN Stream("server") : ~IsRefine("server", j, u)
    BY <2>1 DEF Traffic
  <2>3. \A j \in DOMAIN Stream("server")' : ~IsRefine("server", j, u)'
    BY <1>1, <1>3, <2>2 DEF IsRefine
  <2>4. u = t => q = "client"
    <3> SUFFICES ASSUME u = t, p = "client" PROVE FALSE
      BY <1>2, <1>3
    <3>1. 1 > i + 1
      BY <1>1, <1>2, <2>2 DEF IsDone
    <3> QED  BY <2>1, <3>1
  <2>5. u \notin sess'["client"].tree_is_done
    BY <1>2, <1>3, <2>2, <2>4
  <2>6. ASSUME NEW j \in DOMAIN Stream("client")', IsDone("client", j, u)' PROVE j > i
    <3>1. CASE u = t
      <4>1. q = "client" /\ j = n + 1
        BY <1>1, <1>3, <2>6, <3>1
      <4>2. i \in DOMAIN Stream(q)
        BY <1>1, <2>1, <4>1
      <4> QED  BY <1>1, <2>1, <4>1, <4>2
    <3>2. CASE u # t
      <4>1. IsDone("client", j + d("client"), u) /\ j \in Nat
        BY <1>1, <1>3, <2>6, <3>2
      <4>2. j + d("client") > i + d("client")
        BY <2>2, <4>1 DEF IsDone
      <4> QED  BY <2>1, <4>1, <4>2
    <3> QED  BY <3>1, <3>2
  <2> QED  BY <2>3, <2>5, <2>6
<1>5. ASSUME NEW u \in Types, NEW i \in DOMAIN Stream("server")'
      PROVE  ~IsRequest("server", i, u)'
  <2>1. ~IsRequest("server", i + d("server"), u)
    BY DEF Traffic, IsRequest
  <2> QED  BY <1>1, <1>3, <2>1
<1>6. ASSUME NEW u \in Types, NEW i \in DOMAIN Stream("server")', IsData("server", i, u)'
      PROVE  /\ u \notin sess'["server"].tree_is_done
             /\ \A j \in DOMAIN Stream("server")' : IsDone("server", j, u)' /\ j < i =>
                  u \in sess'["server"].had_refinements
             /\ \A j \in DOMAIN Stream("server")' : ~IsRefine("server", j, u)'
  <2>1. /\ i \in Nat \ {0} /\ d("server") \in Nat /\ i + d("server") \in DOMAIN Stream("server")
        /\ IsData("server", i + d("server"), u)
    BY <1>1, <1>2, <1>3, <1>6 DEF IsData
  <2>2. /\ u \notin sess["server"].tree_is_done
        /\ \A j \in DOMAIN Stream("server") : IsDone("server", j, u) /\ j < i + d("server") =>
             u \in sess["server"].had_refinements
        /\ \A j \in DOMAIN Stream("server") : ~IsRefine("server", j, u)
    BY <2>1 DEF Traffic
  <2>3. \A j \in DOMAIN Stream("server")' : ~IsRefine("server", j, u)'
    BY <1>1, <1>3, <2>2 DEF IsRefine
  <2>4. u = t /\ p = "server" => u \in sess["server"].had_refinements
    <3> SUFFICES ASSUME u = t, p = "server" PROVE u \in sess["server"].had_refinements
      OBVIOUS
    <3>1. 1 < i + d("server") /\ IsDone("server", 1, u) /\ 1 \in DOMAIN Stream("server")
      BY <1>1, <1>2, <2>1 DEF IsDone
    <3> QED  BY <2>2, <3>1
  <2>5. u \notin sess'["server"].tree_is_done
    BY <1>2, <1>3, <2>2, <2>4
  <2>6. ASSUME NEW j \in DOMAIN Stream("server")', IsDone("server", j, u)', j < i
        PROVE  u \in sess'["server"].had_refinements
    <3>1. CASE u = t
      <4>1. q = "server" /\ j = n + 1
        BY <1>1, <1>3, <2>6, <3>1
      <4>2. i \in DOMAIN Stream(q)
        BY <1>1, <2>1, <4>1
      <4> QED  BY <1>1, <2>1, <2>6, <4>1, <4>2
    <3>2. CASE u # t
      <4>1. IsDone("server", j + d("server"), u) /\ j \in Nat
        BY <1>1, <1>3, <2>6, <3>2
      <4>2. j + d("server") < i + d("server") /\ j + d("server") \in DOMAIN Stream("server")
        BY <2>1, <2>6, <4>1 DEF IsDone
      <4> QED  BY <1>2, <1>3, <2>2, <3>2, <4>1, <4>2
    <3> QED  BY <3>1, <3>2
  <2> QED  BY <2>3, <2>5, <2>6
<1> QED  BY <1>4, <1>5, <1>6 DEF Traffic
-----------------------------------------------------------------------------
(* The step that takes a root.                                             *)

LEMMA RefinedFacts ==
  ASSUME NEW p \in Peers, NEW t, NEW sent, Refined(p, t, sent), Roots, Markers
  PROVE  LET q == Other(p)
         IN  /\ p = "server" /\ q = "client" /\ q \in Peers /\ t \in Types
             /\ IsRefine(p, 1, t) /\ \A i : IsRefine(p, i, t) => i = 1
             /\ \A r \in Peers : t \notin sess[r].tree_is_done \cup sess[r].had_refinements
             /\ \A i : ~IsDone(q, i, t)
             /\ \A i \in DOMAIN Stream(p)' :
                  i \in Nat /\ i + 1 \in DOMAIN Stream(p) /\ Stream(p)'[i] = Stream(p)[i + 1]
             /\ \A i \in DOMAIN Stream(p) :
                  i # 1 => i \in Nat /\ i - 1 \in DOMAIN Stream(p)' /\ Stream(p)'[i - 1] = Stream(p)[i]
             /\ \A i \in DOMAIN Stream(q)' :
                  \/ i \in DOMAIN Stream(q) /\ Stream(q)'[i] = Stream(q)[i]
                  \/ Stream(q)'[i].cmd \in {"send_data", "data"} /\ TypeOf(Stream(q)'[i].item) = t
                  \/ Stream(q)'[i].cmd = "bye"
<1> DEFINE q == Other(p)
<1>1. Flow(p, 1, sent) /\ t \in Types /\ IsRefine(p, 1, t) /\ 1 \in DOMAIN Stream(p)
  BY DEF Refined, IsRefine
<1>2. /\ p = "server" /\ \A i : IsRefine(p, i, t) => i = 1
      /\ \A r \in Peers : t \notin sess[r].tree_is_done \cup sess[r].had_refinements
      /\ \E j \in DOMAIN Stream(p) : IsDone(p, j, t)
  BY <1>1 DEF Roots, IsRefine
<1>3. q = "client" /\ q \in Peers /\ q # p
  BY <1>2 DEF Other, Peers
<1>4. \A i : ~IsDone(q, i, t)
  <2> SUFFICES ASSUME NEW i, IsDone(q, i, t) PROVE FALSE
    OBVIOUS
  <2>1. PICK j \in DOMAIN Stream(p) : IsDone(p, j, t)
    BY <1>2
  <2>2. i \in DOMAIN Stream(q)
    BY DEF IsDone
  <2> HIDE DEF q
  <2> QED  BY <1>1, <1>3, <2>1, <2>2 DEF Markers
<1>5. \A i \in DOMAIN Stream(p)' :
         i \in Nat /\ i + 1 \in DOMAIN Stream(p) /\ Stream(p)'[i] = Stream(p)[i + 1]
  BY <1>1 DEF Flow
<1>6. ASSUME NEW i \in DOMAIN Stream(p), i # 1
      PROVE  i \in Nat /\ i - 1 \in DOMAIN Stream(p)' /\ Stream(p)'[i - 1] = Stream(p)[i]
  <2>1. i \in Nat /\ i - 1 \in DOMAIN Stream(p)' /\ (i - 1) + 1 = i
    BY <1>1, <1>6 DEF Flow
  <2> QED  BY <1>5, <2>1
<1>7. ASSUME NEW i \in DOMAIN Stream(q)'
      PROVE  \/ i \in DOMAIN Stream(q) /\ Stream(q)'[i] = Stream(q)[i]
             \/ Stream(q)'[i].cmd \in {"send_data", "data"} /\ TypeOf(Stream(q)'[i].item) = t
             \/ Stream(q)'[i].cmd = "bye"
  <2>1. \/ i \in DOMAIN Stream(q) /\ Stream(q)'[i] = Stream(q)[i]
        \/ i - Len(Stream(q)) \in DOMAIN sent /\ Stream(q)'[i] = sent[i - Len(Stream(q))]
    BY <1>1 DEF Flow
  <2>2. CASE i - Len(Stream(q)) \in DOMAIN sent /\ Stream(q)'[i] = sent[i - Len(Stream(q))]
    <3> DEFINE o == i - Len(Stream(q))
    <3>1. o \in DOMAIN sent /\ Stream(q)'[i] = sent[o]
      BY <2>2
    <3> HIDE DEF o, q
    <3>2. \/ sent[o].cmd \in {"send_data", "data"} /\ TypeOf(sent[o].item) = t
          \/ sent[o].cmd = "bye"
      BY <3>1 DEF Refined
    <3> QED  BY <3>1, <3>2
  <2> QED  BY <2>1, <2>2
<1> QED  BY <1>1, <1>2, <1>3, <1>4, <1>5, <1>6, <1>7

LEMMA RefinedRoots ==
  ASSUME NEW p \in Peers, NEW t, NEW sent, Refined(p, t, sent), Roots, Markers
  PROVE  Roots'
<1> DEFINE q == Other(p)
<1>1. /\ p = "server" /\ q = "client" /\ t \in Types /\ Peers = {p, q}
      /\ \A i : IsRefine(p, i, t) => i = 1
      /\ \A i \in DOMAIN Stream(p)' :
           i \in Nat /\ i + 1 \in DOMAIN Stream(p) /\ Stream(p)'[i] = Stream(p)[i + 1]
      /\ \A i \in DOMAIN Stream(p) :
           i # 1 => i \in Nat /\ i - 1 \in DOMAIN Stream(p)' /\ Stream(p)'[i - 1] = Stream(p)[i]
      /\ \A i \in DOMAIN Stream(q)' :
           \/ i \in DOMAIN Stream(q) /\ Stream(q)'[i] = Stream(q)[i]
           \/ Stream(q)'[i].cmd \in {"send_data", "data"} /\ TypeOf(Stream(q)'[i].item) = t
           \/ Stream(q)'[i].cmd = "bye"
  BY RefinedFacts, TwoPeers
<1>2. /\ \A o \in Peers : sess'[o].tree = sess[o].tree
      /\ \A o \in Peers, u \in Types : u # t =>
           /\ u \in sess'[o].had_refinements <=> u \in sess[o].had_refinements
           /\ u \in sess'[o].tree_is_done <=> u \in sess[o].tree_is_done
      /\ \A o \in Peers : sess'[o].error => sess[o].error
  <2>1. /\ \A o \in Peers : sess'[o].tree = sess[o].tree
        /\ \A o \in Peers : sess'[o].error => sess[o].error
        /\ \A o \in Peers : sess'[o].tree_is_done = sess[o].tree_is_done
        /\ sess'[q].had_refinements = sess[q].had_refinements
        /\ sess'[p].had_refinements = sess[p].had_refinements \cup {t}
    BY DEF Refined, Settled
  <2> HIDE DEF q
  <2> QED  BY <1>1, <2>1
<1>3. "client" \in Peers /\ q \in Peers
  BY <1>1 DEF Peers
<1> HIDE DEF q
<1>4. ASSUME NEW r \in Peers, NEW u \in Types, NEW i \in DOMAIN Stream(r)', IsRefine(r, i, u)'
      PROVE  /\ r = p /\ u # t /\ i \in Nat /\ i + 1 \in DOMAIN Stream(p)
             /\ Stream(p)'[i] = Stream(p)[i + 1] /\ IsRefine(p, i + 1, u)
  <2>1. CASE r = p
    <3>1. i \in Nat /\ i + 1 \in DOMAIN Stream(p) /\ Stream(p)'[i] = Stream(p)[i + 1]
      BY <1>1, <2>1
    <3>2. IsRefine(p, i + 1, u)
      BY <1>4, <2>1, <3>1 DEF IsRefine
    <3>3. i + 1 # 1
      <4>1. i \in DOMAIN Stream(p)'
        BY <2>1
      <4>2. Flow(p, 1, sent)
        BY DEF Refined
      <4>3. i \in Nat \ {0}
        BY <4>1, <4>2 DEF Flow
      <4> QED  BY <4>3
    <3> QED  BY <1>1, <2>1, <3>1, <3>2, <3>3
  <2>2. CASE r = q
    <3>1. IsRefine(q, i, u)
      BY <1>1, <1>4, <2>2 DEF IsRefine
    <3> QED  BY <1>1, <1>3, <3>1 DEF Roots, IsRefine
  <2> QED  BY <1>1, <2>1, <2>2
<1>5. ASSUME NEW u \in Types, NEW i \in DOMAIN Stream(p)', IsRefine(p, i, u)'
      PROVE  /\ p = "server" /\ Stream(p)'[i].items = sess'["client"].tree[u]
             /\ \A o \in Peers : u \notin sess'[o].tree_is_done \cup sess'[o].had_refinements
             /\ \A j \in DOMAIN Stream(p)' : IsRefine(p, j, u)' => j = i
             /\ \A j \in DOMAIN Stream(p)' : IsDone(p, j, u)' => j > i
             /\ \E j \in DOMAIN Stream(p)' : IsDone(p, j, u)'
             /\ \A j \in DOMAIN Stream(p)' : Stream(p)'[j].cmd = "data" => j > i
             /\ ~sess'[p].error
  <2>1. /\ u # t /\ i \in Nat /\ i + 1 \in DOMAIN Stream(p)
        /\ Stream(p)'[i] = Stream(p)[i + 1] /\ IsRefine(p, i + 1, u)
    BY <1>4, <1>5
  <2>2. /\ Stream(p)[i + 1].items = sess["client"].tree[u]
        /\ \A o \in Peers : u \notin sess[o].tree_is_done \cup sess[o].had_refinements
        /\ \A j \in DOMAIN Stream(p) : IsRefine(p, j, u) => j = i + 1
        /\ \A j \in DOMAIN Stream(p) : IsDone(p, j, u) => j > i + 1
        /\ \E j \in DOMAIN Stream(p) : IsDone(p, j, u)
        /\ \A j \in DOMAIN Stream(p) : Stream(p)[j].cmd = "data" => j > i + 1
        /\ ~sess[p].error
    BY <2>1 DEF Roots
  <2>3. \A j \in DOMAIN Stream(p)' : IsRefine(p, j, u)' => j = i
    <3> SUFFICES ASSUME NEW j \in DOMAIN Stream(p)', IsRefine(p, j, u)' PROVE j = i
      OBVIOUS
    <3>1. j \in Nat /\ j + 1 = i + 1
      BY <1>1, <2>2 DEF IsRefine
    <3> QED  BY <2>1, <3>1
  <2>4. \A j \in DOMAIN Stream(p)' : IsDone(p, j, u)' \/ Stream(p)'[j].cmd = "data" => j > i
    <3> SUFFICES ASSUME NEW j \in DOMAIN Stream(p)', IsDone(p, j, u)' \/ Stream(p)'[j].cmd = "data"
                 PROVE  j > i
      OBVIOUS
    <3>1. j \in Nat /\ j + 1 > i + 1
      BY <1>1, <2>2 DEF IsDone
    <3> QED  BY <2>1, <3>1
  <2>5. \E j \in DOMAIN Stream(p)' : IsDone(p, j, u)'
    <3>1. PICK j \in DOMAIN Stream(p) : IsDone(p, j, u) /\ j > i + 1
      BY <2>2
    <3>2. j # 1
      BY <2>1, <3>1
    <3>3. j - 1 \in DOMAIN Stream(p)' /\ Stream(p)'[j - 1] = Stream(p)[j]
      BY <1>1, <3>1, <3>2
    <3> QED  BY <3>1, <3>3 DEF IsDone
  <2> QED  BY <1>1, <1>2, <1>3, <2>1, <2>2, <2>3, <2>4, <2>5
<1>6. \A r \in Peers, u \in Types : \A x \in sess'[r].tree[u] : TypeOf(x) = u
  BY <1>2 DEF Roots
<1> QED  BY <1>4, <1>5, <1>6 DEF Roots

LEMMA RefinedMarkers ==
  ASSUME NEW p \in Peers, NEW t, NEW sent, Refined(p, t, sent), Roots, Markers
  PROVE  Markers'
<1> DEFINE q == Other(p)
<1>1. /\ p = "server" /\ q = "client" /\ q \in Peers /\ t \in Types /\ Peers = {p, q}
      /\ IsRefine(p, 1, t)
      /\ \A r \in Peers : t \notin sess[r].tree_is_done \cup sess[r].had_refinements
      /\ \A i : ~IsDone(q, i, t)
      /\ \A i \in DOMAIN Stream(p)' :
           i \in Nat /\ i + 1 \in DOMAIN Stream(p) /\ Stream(p)'[i] = Stream(p)[i + 1]
      /\ \A i \in DOMAIN Stream(p) :
           i # 1 => i \in Nat /\ i - 1 \in DOMAIN Stream(p)' /\ Stream(p)'[i - 1] = Stream(p)[i]
      /\ \A i \in DOMAIN Stream(q)' :
           \/ i \in DOMAIN Stream(q) /\ Stream(q)'[i] = Stream(q)[i]
           \/ Stream(q)'[i].cmd \in {"send_data", "data"} /\ TypeOf(Stream(q)'[i].item) = t
           \/ Stream(q)'[i].cmd = "bye"
  BY RefinedFacts, TwoPeers
<1>2. /\ \A o \in Peers : sess'[o].tree_is_done = sess[o].tree_is_done
      /\ sess'[q].had_refinements = sess[q].had_refinements
      /\ sess'[p].had_refinements = sess[p].had_refinements \cup {t}
  BY DEF Refined
<1> HIDE DEF q
<1>3. /\ \A u \in Types : \A i : IsDone(p, i, u)' => i \in Nat /\ IsDone(p, i + 1, u)
      /\ \A u \in Types : \A i : IsDone(q, i, u)' => IsDone(q, i, u)
  BY <1>1 DEF IsDone
<1>4. \A u \in Types : \A j : IsRefine(p, j, u) /\ u # t => \E o \in DOMAIN Stream(p)' : IsRefine(p, o, u)'
  <2> SUFFICES ASSUME NEW u \in Types, NEW j, IsRefine(p, j, u), u # t
               PROVE  \E o \in DOMAIN Stream(p)' : IsRefine(p, o, u)'
    OBVIOUS
  <2>1. j # 1 /\ j \in DOMAIN Stream(p)
    BY <1>1 DEF IsRefine
  <2>2. j - 1 \in DOMAIN Stream(p)' /\ Stream(p)'[j - 1] = Stream(p)[j]
    BY <1>1, <2>1
  <2> QED  BY <2>2 DEF IsRefine
<1>5. ASSUME NEW r \in Peers, NEW o \in Peers, NEW u \in Types,
             NEW i \in DOMAIN Stream(r)', NEW j \in DOMAIN Stream(o)', IsDone(r, i, u)', IsDone(o, j, u)'
      PROVE  r = o /\ i = j
  <2>1. /\ \A i1, j1 : IsDone(p, i1, u) /\ IsDone(p, j1, u) => i1 = j1
        /\ \A i1, j1 : IsDone(q, i1, u) /\ IsDone(q, j1, u) => i1 = j1
        /\ \A i1, j1 : ~(IsDone(p, i1, u) /\ IsDone(q, j1, u))
    <3>1. p # q
      BY <1>1
    <3> QED  BY <1>1, <3>1 DEF Markers, IsDone
  <2>2. CASE r = p /\ o = p
    <3>1. i \in Nat /\ j \in Nat /\ i + 1 = j + 1
      BY <1>3, <1>5, <2>1, <2>2
    <3> QED  BY <2>2, <3>1
  <2>3. CASE r = q \/ o = q
    BY <1>1, <1>3, <1>5, <2>1, <2>3
  <2> QED  BY <1>1, <2>2, <2>3
<1>6. ASSUME NEW u \in Types, NEW i \in DOMAIN Stream(p)', IsDone(p, i, u)'
      PROVE  /\ u \notin sess'[p].tree_is_done
             /\ \/ u \in sess'[q].tree_is_done /\ u \notin sess'[p].had_refinements
                \/ u \notin sess'[q].tree_is_done /\ u \in sess'[p].had_refinements
                \/ u \notin sess'[q].tree_is_done
                     /\ \E j \in DOMAIN Stream(p)' : IsRefine(p, j, u)'
  <2>1. IsDone(p, i + 1, u)
    BY <1>3, <1>6
  <2>2. /\ u \notin sess[p].tree_is_done
        /\ \/ u \in sess[q].tree_is_done /\ u \notin sess[p].had_refinements
           \/ u \notin sess[q].tree_is_done /\ u \in sess[p].had_refinements
           \/ u \notin sess[q].tree_is_done
                /\ \E j \in DOMAIN Stream(p) : IsRefine(p, j, u)
    BY <1>1, <2>1 DEF Markers, IsDone
  <2> QED  BY <1>1, <1>2, <1>4, <2>2
<1>7. ASSUME NEW u \in Types, NEW i \in DOMAIN Stream(q)', IsDone(q, i, u)'
      PROVE  /\ u \notin sess'[p].had_refinements
             /\ u \in sess'[q].tree_is_done <=> u \in sess'[p].tree_is_done
  <2>1. IsDone(q, i, u) /\ u # t
    BY <1>1, <1>3, <1>7
  <2>2. /\ u \notin sess[p].had_refinements
        /\ u \in sess[q].tree_is_done <=> u \in sess[p].tree_is_done
    BY <1>1, <2>1 DEF Markers, IsDone
  <2> QED  BY <1>1, <1>2, <2>1, <2>2
<1>8. sess'[q].had_refinements = {} /\ sess'[p].tree_is_done \subseteq sess'[q].tree_is_done
  BY <1>1, <1>2 DEF Markers
<1> QED  BY <1>1, <1>5, <1>6, <1>7, <1>8 DEF Markers

LEMMA RefinedTraffic ==
  ASSUME NEW p \in Peers, NEW t, NEW sent, Refined(p, t, sent), Roots, Markers, Traffic
  PROVE  Traffic'
<1> DEFINE q == Other(p)
<1>1. /\ p = "server" /\ q = "client" /\ q \in Peers /\ t \in Types /\ Peers = {p, q}
      /\ IsRefine(p, 1, t) /\ \A i : IsRefine(p, i, t) => i = 1
      /\ \A r \in Peers : t \notin sess[r].tree_is_done \cup sess[r].had_refinements
      /\ \A i : ~IsDone(q, i, t)
      /\ \A i \in DOMAIN Stream(p)' :
           i \in Nat /\ i + 1 \in DOMAIN Stream(p) /\ Stream(p)'[i] = Stream(p)[i + 1]
      /\ \A i \in DOMAIN Stream(q)' :
           \/ i \in DOMAIN Stream(q) /\ Stream(q)'[i] = Stream(q)[i]
           \/ Stream(q)'[i].cmd \in {"send_data", "data"} /\ TypeOf(Stream(q)'[i].item) = t
           \/ Stream(q)'[i].cmd = "bye"
  BY RefinedFacts, TwoPeers
<1>2. /\ \A o \in Peers : sess'[o].tree_is_done = sess[o].tree_is_done
      /\ sess'[p].had_refinements = sess[p].had_refinements \cup {t}
      /\ \A i \in DOMAIN Stream(p)' : i \in Nat \ {0}
  <2>1. Flow(p, 1, sent)
    BY DEF Refined
  <2>2. \A i \in DOMAIN Stream(p)' : i \in Nat \ {0}
    BY <2>1 DEF Flow
  <2> QED  BY <2>2 DEF Refined
<1> HIDE DEF q
<1>3. /\ \A u \in Types : \A i : IsDone(p, i, u)' => i \in Nat /\ IsDone(p, i + 1, u)
      /\ \A u \in Types : \A i : IsDone(q, i, u)' => IsDone(q, i, u)
      /\ \A u \in Types : \A i : IsData(p, i, u)' => i \in Nat /\ IsData(p, i + 1, u)
      /\ \A u \in Types : \A i : IsRequest(p, i, u)' => i \in Nat /\ IsRequest(p, i + 1, u)
      /\ \A u \in Types : \A i : IsData(q, i, u)' \/ IsRequest(q, i, u)' =>
           u = t \/ IsData(q, i, u) \/ IsRequest(q, i, u)
  BY <1>1 DEF IsDone, IsData, IsRequest
<1>4. \A u \in Types : \A i : IsRefine(p, i, u)' => u # t /\ IsRefine(p, i + 1, u)
  <2> SUFFICES ASSUME NEW u \in Types, NEW i, IsRefine(p, i, u)' PROVE u # t /\ IsRefine(p, i + 1, u)
    OBVIOUS
  <2>1. IsRefine(p, i + 1, u) /\ i + 1 # 1
    BY <1>1, <1>2 DEF IsRefine
  <2> QED  BY <1>1, <2>1
<1>5. ASSUME NEW u \in Types, NEW i \in DOMAIN Stream(q)', IsRequest(q, i, u)' \/ IsData(q, i, u)'
      PROVE  /\ u \notin sess'[q].tree_is_done
             /\ \A j \in DOMAIN Stream(q)' : IsDone(q, j, u)' => j > i
             /\ \A j \in DOMAIN Stream(p)' : ~IsRefine(p, j, u)'
  <2>1. CASE u = t
    BY <1>1, <1>2, <1>3, <1>4, <2>1
  <2>2. CASE u # t
    <3>1. i \in DOMAIN Stream(q) /\ (IsRequest(q, i, u) \/ IsData(q, i, u))
      BY <1>3, <1>5, <2>2 DEF IsRequest, IsData
    <3>2. /\ u \notin sess[q].tree_is_done
          /\ \A j \in DOMAIN Stream(q) : IsDone(q, j, u) => j > i
          /\ \A j \in DOMAIN Stream(p) : ~IsRefine(p, j, u)
      BY <1>1, <3>1 DEF Traffic
    <3> QED  BY <1>1, <1>2, <1>3, <1>4, <3>2 DEF IsRefine, IsDone
  <2> QED  BY <2>1, <2>2
<1>6. ASSUME NEW u \in Types, NEW i \in DOMAIN Stream(p)'
      PROVE  /\ ~IsRequest(p, i, u)'
             /\ IsData(p, i, u)' =>
                  /\ u \notin sess'[p].tree_is_done
                  /\ \A j \in DOMAIN Stream(p)' : IsDone(p, j, u)' /\ j < i =>
                       u \in sess'[p].had_refinements
                  /\ \A j \in DOMAIN Stream(p)' : ~IsRefine(p, j, u)'
  <2>1. /\ i \in Nat /\ i + 1 \in DOMAIN Stream(p) /\ ~IsRequest(p, i + 1, u)
    BY <1>1 DEF Traffic
  <2>2. ASSUME IsData(p, i, u)'
        PROVE  /\ u \notin sess'[p].tree_is_done
               /\ \A j \in DOMAIN Stream(p)' : IsDone(p, j, u)' /\ j < i =>
                    u \in sess'[p].had_refinements
               /\ \A j \in DOMAIN Stream(p)' : ~IsRefine(p, j, u)'
    <3>1. IsData(p, i + 1, u)
      BY <1>3, <2>2
    <3>2. /\ u \notin sess[p].tree_is_done
          /\ \A j \in DOMAIN Stream(p) : IsDone(p, j, u) /\ j < i + 1 =>
               u \in sess[p].had_refinements
          /\ \A j \in DOMAIN Stream(p) : ~IsRefine(p, j, u)
      BY <1>1, <2>1, <3>1 DEF Traffic
    <3>3. ASSUME NEW j \in DOMAIN Stream(p)', IsDone(p, j, u)', j < i
          PROVE  u \in sess[p].had_refinements
      <4>1. j \in Nat /\ IsDone(p, j + 1, u) /\ j + 1 \in DOMAIN Stream(p)
        BY <1>3, <3>3 DEF IsDone
      <4>2. j + 1 < i + 1
        BY <2>1, <3>3, <4>1
      <4> QED  BY <3>2, <4>1, <4>2
    <3>4. \A j \in DOMAIN Stream(p)' : ~IsRefine(p, j, u)'
      BY <1>4, <3>2 DEF IsRefine
    <3> QED  BY <1>1, <1>2, <3>2, <3>3, <3>4
  <2> QED  BY <1>3, <2>1, <2>2
<1> QED  BY <1>1, <1>5, <1>6 DEF Traffic
-----------------------------------------------------------------------------
(* Authentication, roles and epochs in the steps of authenticated sessions. *)
LEMMA SettledAuthentication ==
  ASSUME Settled
  PROVE  Authentication'
  BY DEF Settled, Authentication, Peers

LEMMA SettledOpposed ==
  ASSUME TypeOK, NEW p \in Peers, NEW k, NEW sent, Flow(p, k, sent), Settled, InRole(p, sent), Opposed
  PROVE  Opposed'
<1> DEFINE q == Other(p)
<1>0. q \in Peers /\ q # p /\ Peers = {p, q} /\ Other(q) = p
  BY TwoPeers
<1>1. \A r \in Peers : sess'[r].role = sess[r].role /\ sess[r].role \in {"source", "sink", "both"}
  BY DEF Settled, TypeOK, Sessions
<1>2. \A r \in Peers : sess[r].role = "source" <=> sess[Other(r)].role = "sink"
  BY DEF Settled, Opposed
<1>3. /\ sess[p].role # "source" => IsSource(q)'
      /\ sess[p].role # "sink" => IsSink(q)'
  <2>1. /\ sess[p].role = "source" <=> sess[q].role = "sink"
        /\ sess[q].role = "source" <=> sess[p].role = "sink"
    BY <1>0, <1>2
  <2> HIDE DEF q
  <2> QED  BY <1>0, <1>1, <2>1 DEF IsSource, IsSink
<1>4. ASSUME NEW i \in DOMAIN Stream(p)'
      PROVE  /\ Stream(p)'[i].cmd = "send_data" => IsSource(p)'
             /\ Stream(p)'[i].cmd \in {"data", "nonexistant"} => IsSink(p)'
  <2>1. i + k \in DOMAIN Stream(p) /\ Stream(p)'[i] = Stream(p)[i + k]
    BY DEF Flow
  <2> QED  BY <1>1, <2>1 DEF Opposed, IsSource, IsSink
<1>5. ASSUME NEW i \in DOMAIN Stream(q)'
      PROVE  /\ Stream(q)'[i].cmd = "send_data" => IsSource(q)'
             /\ Stream(q)'[i].cmd \in {"data", "nonexistant"} => IsSink(q)'
  <2>1. \/ i \in DOMAIN Stream(q) /\ Stream(q)'[i] = Stream(q)[i]
        \/ i - Len(Stream(q)) \in DOMAIN sent /\ Stream(q)'[i] = sent[i - Len(Stream(q))]
    BY DEF Flow
  <2>2. CASE i \in DOMAIN Stream(q) /\ Stream(q)'[i] = Stream(q)[i]
    <3> HIDE DEF q
    <3> QED  BY <1>0, <1>1, <2>2 DEF Opposed, IsSource, IsSink
  <2>3. CASE i - Len(Stream(q)) \in DOMAIN sent /\ Stream(q)'[i] = sent[i - Len(Stream(q))]
    <3> DEFINE o == i - Len(Stream(q))
    <3>1. o \in DOMAIN sent /\ Stream(q)'[i] = sent[o]
      BY <2>3
    <3> HIDE DEF o, q
    <3> QED  BY <1>3, <3>1 DEF InRole
  <2> QED  BY <2>1, <2>2, <2>3
<1>6. \A r \in Peers : sess'[r].role = "source" <=> sess'[Other(r)].role = "sink"
  BY <1>1, <1>2, TwoPeers
<1>7. \A r \in Peers : sess'[r].role = "source" =>
         sess'[r].held = {} /\ sess'[r].certs = {} /\ sess'[r].ancestry = {}
  BY <1>1 DEF InRole
<1> HIDE DEF q
<1>8. \A r \in Peers : \A i \in DOMAIN Stream(r)' :
         /\ Stream(r)'[i].cmd = "send_data" => IsSource(r)'
         /\ Stream(r)'[i].cmd \in {"data", "nonexistant"} => IsSink(r)'
  BY <1>0, <1>4, <1>5
<1>9. sess'["client"].role = conf'.role["client"]
  BY <1>1 DEF Settled, Opposed, Peers
<1> QED  BY <1>6, <1>7, <1>8, <1>9 DEF Opposed

LEMMA SettledEpochs ==
  ASSUME NEW p \in Peers, NEW k, NEW sent, EpochStep(p, k, sent), EpochsMet, Roots'
  PROVE  EpochsMet'
<1> DEFINE q == Other(p)
<1>0. q \in Peers /\ q # p /\ Peers = {p, q} /\ Other(q) = p
  BY TwoPeers
<1>1. /\ Flow(p, k, sent)
      /\ \A r \in Peers : sess'[r].tree = sess[r].tree /\ sess'[r].role = sess[r].role
      /\ sess'["client"].authenticated /\ sess["client"].authenticated
  BY DEF EpochStep, Settled, Peers
<1>2. /\ sess'[q] = sess[q] /\ db'[q].epoch = db[q].epoch
      /\ sess'[p].live => sess[p].live /\ db[p].epoch \in {NoEpoch, db'[p].epoch}
      /\ Going(p)' => Going(p)
      /\ sess[p].tree_is_done \subseteq sess'[p].tree_is_done
      /\ "epoch" \in sess'[p].tree_is_done =>
           "epoch" \in sess[p].tree_is_done \/ IsDone(p, 1, "epoch")
      /\ sess'[p].valve =>
           \/ sess[p].valve
           \/ sess'[p].requested \cap Epochs = {} /\ "epoch" \in sess'[p].tree_is_done
      /\ Going(p)' =>
           /\ \A x \in Epochs : x \in sess'[p].received \ sess[p].received => db'[p].epoch = x
           /\ \A x \in Epochs : x \in sess[p].requested \ sess'[p].requested => db'[p].epoch = x
           /\ \A j \in DOMAIN Stream(p) :
                j <= k /\ Stream(p)[j].cmd = "data" /\ Stream(p)[j].item \in Epochs =>
                  db'[p].epoch = Stream(p)[j].item
  BY DEF EpochStep
<1> HIDE DEF q
<1>3. /\ \A r \in Peers : Going(r)' => Going(r) /\ sess[r].live
      /\ \A r \in Peers : sess'[r].live => sess[r].live
      /\ \A r \in Peers : IsSink(r)' <=> IsSink(r)
  <2>1. Going(q)' <=> Going(q)
    BY <1>2 DEF Going
  <2>2. \A r \in Peers : Going(r)' => Going(r)
    BY <1>0, <1>2, <2>1
  <2> QED  BY <1>0, <1>1, <1>2, <2>2 DEF Going, IsSink
<1>4. \A r \in Peers : \A x \in Epochs : sess'[r].live /\ x = db[r].epoch => x = db'[r].epoch
  BY <1>0, <1>2, SessionConstants
<1>5. /\ \A r \in Peers : sess[r].tree["epoch"] \subseteq Epochs
      /\ \A r \in Peers : sess[r].live => sess[r].tree["epoch"] \subseteq {db[r].epoch}
      /\ \A r \in Peers : Going(r) => sess[r].received \cap Epochs \subseteq {db[r].epoch}
      /\ \A r \in Peers : sess[r].valve => "epoch" \in sess[r].tree_is_done
      /\ \A r \in Peers : sess[r].valve /\ Going(r) /\ IsSink(r) => EpochKnown(r)
  BY DEF EpochsMet
<1>6. /\ RootSeen => ServerMet /\ ClientMet
      /\ Going("client") /\ IsSink("client") =>
           /\ "epoch" \in sess["client"].tree_is_done => EpochKnown("client")
           /\ \A i \in DOMAIN Stream("client") : IsDone("client", i, "epoch") =>
                \A x \in sess["server"].tree["epoch"] : x = db["client"].epoch
                  \/ \E j \in DOMAIN Stream("client") : j < i /\ DataFor("client", j, x)
  BY DEF EpochsMet, ServerMet, ClientMet
<1>7. ASSUME NEW r \in Peers, Going(r)', EpochKnown(r) PROVE EpochKnown(r)'
  <2>1. Other(r) \in Peers /\ sess'[r].live
    BY <1>7, TwoPeers DEF Going
  <2>2. sess'[Other(r)].tree = sess[Other(r)].tree
    BY <1>1, <2>1
  <2>3. sess[Other(r)].tree["epoch"] \subseteq Epochs /\ sess[Other(r)].tree["epoch"] \subseteq {db[r].epoch}
    BY <1>5, <1>7, <2>1 DEF EpochKnown
  <2> QED  BY <1>4, <2>1, <2>2, <2>3 DEF EpochKnown
<1>8. ASSUME NEW r \in Peers
      PROVE  /\ sess'[r].tree["epoch"] \subseteq Epochs
             /\ sess'[r].live => sess'[r].tree["epoch"] \subseteq {db'[r].epoch}
             /\ Going(r)' => sess'[r].received \cap Epochs \subseteq {db'[r].epoch}
             /\ sess'[r].valve => "epoch" \in sess'[r].tree_is_done
  <2>1. sess'[r].tree["epoch"] = sess[r].tree["epoch"] /\ sess[r].tree["epoch"] \subseteq Epochs
    BY <1>1, <1>5
  <2>2. sess'[r].live => sess[r].tree["epoch"] \subseteq {db'[r].epoch}
    BY <1>3, <1>4, <1>5
  <2>3. Going(r)' => sess'[r].received \cap Epochs \subseteq {db'[r].epoch}
    <3> SUFFICES ASSUME Going(r)', NEW x \in sess'[r].received \cap Epochs PROVE x = db'[r].epoch
      OBVIOUS
    <3>1. sess'[r].live /\ Going(r)
      BY <1>3 DEF Going
    <3>2. CASE x \in sess[r].received
      BY <1>4, <1>5, <3>1, <3>2
    <3>3. CASE x \notin sess[r].received
      BY <1>0, <1>2, <3>3
    <3> QED  BY <3>2, <3>3
  <2>4. sess'[r].valve => "epoch" \in sess'[r].tree_is_done
    BY <1>0, <1>2, <1>5
  <2> QED  BY <2>1, <2>2, <2>3, <2>4
(* Data for x is there still, or has arrived. *)
<1>9. ASSUME Going("client")', NEW x \in Epochs, NEW j \in DOMAIN Stream("client"), DataFor("client", j, x)
      PROVE  \/ x = db'["client"].epoch
             \/ p = "client" /\ j > k /\ j - k \in DOMAIN Stream("client")' /\ DataFor("client", j - k, x)'
             \/ p = "server" /\ j \in DOMAIN Stream("client")' /\ DataFor("client", j, x)'
  <2>1. CASE p = "client"
    <3>1. CASE j > k
      <4>1. j \in Nat /\ k \in Nat /\ j - k \in DOMAIN Stream(p)' /\ (j - k) + k = j
        BY <1>1, <1>9, <2>1, <3>1 DEF Flow
      <4>2. Stream(p)'[j - k] = Stream(p)[j]
        BY <1>1, <4>1 DEF Flow
      <4> QED  BY <1>9, <2>1, <3>1, <4>1, <4>2 DEF DataFor
    <3>2. CASE ~(j > k)
      <4>1. j <= k
        BY <1>1, <1>9, <2>1, <3>2 DEF Flow
      <4> QED  BY <1>2, <1>9, <2>1, <4>1 DEF DataFor
    <3> QED  BY <3>1, <3>2
  <2>2. CASE p = "server"
    <3>1. q = "client"
      BY <2>2 DEF q, Other
    <3>2. j \in DOMAIN Stream(q)' /\ Stream(q)'[j] = Stream(q)[j]
      BY <1>1, <1>9, <3>1 DEF Flow, q
    <3> QED  BY <1>9, <2>2, <3>1, <3>2 DEF DataFor
  <2> QED  BY <2>1, <2>2 DEF Peers
<1>10. ASSUME RootSeen', Going("server")' PROVE ServerMet' /\ ClientMet'
  <2> SUFFICES ASSUME RootSeen PROVE ServerMet' /\ ClientMet'
    BY <1>10 DEF EpochStep
  <2>1. ServerMet'
    <3> SUFFICES ASSUME IsSink("server")', NEW x \in sess'["client"].tree["epoch"]
                 PROVE  x = db'["server"].epoch \/ x \in sess'["server"].requested
      BY DEF ServerMet
    <3>1. "server" \in Peers /\ "client" \in Peers
      BY DEF Peers
    <3>2. x \in sess["client"].tree["epoch"] /\ x \in Epochs
      BY <1>1, <1>5, <3>1
    <3>3. Going("server") /\ IsSink("server") /\ sess'["server"].live
      BY <1>3, <1>10, <3>1 DEF Going
    <3>4. x = db["server"].epoch \/ x \in sess["server"].requested
      BY <1>6, <3>2, <3>3 DEF ServerMet
    <3>5. CASE x = db["server"].epoch
      BY <1>4, <3>1, <3>2, <3>3, <3>5
    <3>6. CASE x \in sess["server"].requested
      <4>1. CASE p = "server"
        BY <1>2, <1>10, <3>2, <3>6, <4>1
      <4>2. CASE q = "server"
        BY <1>2, <3>6, <4>2
      <4> QED  BY <1>0, <3>1, <4>1, <4>2
    <3> QED  BY <3>4, <3>5, <3>6
  <2>2. ClientMet'
    <3> SUFFICES ASSUME Going("client")', IsSink("client")', NEW x \in sess'["server"].tree["epoch"]
                 PROVE  x = db'["client"].epoch
                          \/ \E j \in DOMAIN Stream("client")' : DataFor("client", j, x)'
      BY DEF ClientMet
    <3>1. "server" \in Peers /\ "client" \in Peers
      BY DEF Peers
    <3>2. x \in sess["server"].tree["epoch"] /\ x \in Epochs
      BY <1>1, <1>5, <3>1
    <3>3. Going("server") /\ Going("client") /\ IsSink("client") /\ sess'["client"].live
      BY <1>3, <1>10, <3>1 DEF Going
    <3>4. x = db["client"].epoch \/ \E j \in DOMAIN Stream("client") : DataFor("client", j, x)
      BY <1>6, <3>2, <3>3 DEF ClientMet
    <3> QED  BY <1>4, <1>9, <3>1, <3>2, <3>3, <3>4
  <2> QED  BY <2>1, <2>2
<1>11. ASSUME Going("client")', IsSink("client")'
       PROVE  /\ "epoch" \in sess'["client"].tree_is_done => EpochKnown("client")'
              /\ \A i \in DOMAIN Stream("client")' : IsDone("client", i, "epoch")' =>
                   \A x \in sess'["server"].tree["epoch"] : x = db'["client"].epoch
                     \/ \E j \in DOMAIN Stream("client")' : j < i /\ DataFor("client", j, x)'
  <2>1. "server" \in Peers /\ "client" \in Peers /\ sess'["client"].live
        /\ Going("client") /\ IsSink("client")
    BY <1>3, <1>11 DEF Peers, Going
  <2>2. /\ "epoch" \in sess["client"].tree_is_done => EpochKnown("client")
        /\ \A i \in DOMAIN Stream("client") : IsDone("client", i, "epoch") =>
             \A x \in sess["server"].tree["epoch"] : x = db["client"].epoch
               \/ \E j \in DOMAIN Stream("client") : j < i /\ DataFor("client", j, x)
    BY <1>6, <2>1
  <2>3. "epoch" \in sess'["client"].tree_is_done => EpochKnown("client")'
    <3> SUFFICES ASSUME "epoch" \in sess'["client"].tree_is_done PROVE EpochKnown("client")
      BY <1>7, <1>11, <2>1
    <3>1. CASE "epoch" \in sess["client"].tree_is_done
      BY <2>2, <3>1
    <3>2. CASE "epoch" \notin sess["client"].tree_is_done
      <4>1. p = "client" /\ IsDone("client", 1, "epoch")
        BY <1>0, <1>2, <2>1, <3>2
      <4>2. \A j \in DOMAIN Stream("client") : ~(j < 1)
        BY <1>1, <4>1 DEF Flow
      <4>3. \A x \in sess["server"].tree["epoch"] : x = db["client"].epoch
        BY <2>2, <4>1, <4>2 DEF IsDone
      <4> QED  BY <4>3 DEF EpochKnown, Other
    <3> QED  BY <3>1, <3>2
  <2>4. ASSUME NEW i \in DOMAIN Stream("client")', IsDone("client", i, "epoch")',
               NEW x \in sess'["server"].tree["epoch"]
        PROVE  x = db'["client"].epoch
                 \/ \E j \in DOMAIN Stream("client")' : j < i /\ DataFor("client", j, x)'
    <3>1. x \in sess["server"].tree["epoch"] /\ x \in Epochs
      BY <1>1, <1>5, <2>1, <2>4
    <3>2. CASE p = "client"
      <4>1. i \in Nat /\ k \in Nat /\ i + k \in DOMAIN Stream("client") /\ IsDone("client", i + k, "epoch")
        BY <1>1, <2>4, <3>2 DEF Flow, IsDone
      <4>2. x = db["client"].epoch
             \/ \E j \in DOMAIN Stream("client") : j < i + k /\ DataFor("client", j, x)
        BY <2>2, <3>1, <4>1
      <4>3. CASE x = db["client"].epoch
        BY <1>4, <2>1, <3>1, <4>3
      <4>4. ASSUME NEW j \in DOMAIN Stream("client"), j < i + k, DataFor("client", j, x)
            PROVE  x = db'["client"].epoch
                     \/ \E o \in DOMAIN Stream("client")' : o < i /\ DataFor("client", o, x)'
        <5>1. j \in Nat /\ (j > k => j - k < i)
          BY <1>1, <3>2, <4>1, <4>4 DEF Flow
        <5>2. \/ x = db'["client"].epoch
              \/ j > k /\ j - k \in DOMAIN Stream("client")' /\ DataFor("client", j - k, x)'
          BY <1>9, <1>11, <3>1, <3>2, <4>4
        <5> QED  BY <5>1, <5>2
      <4> QED  BY <4>2, <4>3, <4>4
    <3>3. CASE p = "server"
      <4>1. q = "client"
        BY <3>3 DEF q, Other
      <4>2. \A j \in DOMAIN Stream("client") : j \in Nat /\ j <= Len(Stream("client"))
        BY <1>1, <4>1 DEF Flow, q
      <4>3. \/ i \in DOMAIN Stream("client") /\ Stream("client")'[i] = Stream("client")[i]
            \/ /\ i > Len(Stream("client")) /\ i \in Nat /\ Len(Stream("client")) \in Nat
               /\ i - Len(Stream("client")) \in DOMAIN sent
               /\ Stream("client")'[i] = sent[i - Len(Stream("client"))]
        <5>1. i \in DOMAIN Stream(q)'
          BY <2>4, <4>1
        <5>2. \/ i \in DOMAIN Stream(q) /\ Stream(q)'[i] = Stream(q)[i]
              \/ /\ i > Len(Stream(q)) /\ i \in Nat /\ Len(Stream(q)) \in Nat
                 /\ i - Len(Stream(q)) \in DOMAIN sent
                 /\ Stream(q)'[i] = sent[i - Len(Stream(q))]
          BY <1>1, <5>1 DEF Flow, q
        <5> QED  BY <4>1, <5>2
      <4>4. CASE i \in DOMAIN Stream("client") /\ Stream("client")'[i] = Stream("client")[i]
        <5>1. IsDone("client", i, "epoch")
          BY <2>4, <4>4 DEF IsDone
        <5>2. x = db["client"].epoch
               \/ \E j \in DOMAIN Stream("client") : j < i /\ DataFor("client", j, x)
          BY <2>2, <3>1, <4>4, <5>1
        <5>3. CASE x = db["client"].epoch
          BY <1>4, <2>1, <3>1, <5>3
        <5> QED  BY <1>9, <1>11, <3>1, <3>3, <5>2, <5>3
      <4>5. CASE /\ i > Len(Stream("client")) /\ i \in Nat /\ Len(Stream("client")) \in Nat
                 /\ i - Len(Stream("client")) \in DOMAIN sent
                 /\ Stream("client")'[i] = sent[i - Len(Stream("client"))]
        <5>1. RootSeen /\ Going("server")
          <6> DEFINE o == i - Len(Stream("client"))
          <6>1. o \in DOMAIN sent /\ Stream("client")'[i] = sent[o]
            BY <4>5
          <6> HIDE DEF o
          <6>2. sent[o].cmd = "done" /\ sent[o].type = "epoch"
            BY <2>4, <6>1 DEF IsDone
          <6> QED  BY <3>3, <6>1, <6>2 DEF EpochStep
        <5>2. x = db["client"].epoch \/ \E j \in DOMAIN Stream("client") : DataFor("client", j, x)
          BY <1>6, <2>1, <3>1, <5>1 DEF ClientMet
        <5>3. CASE x = db["client"].epoch
          BY <1>4, <2>1, <3>1, <5>3
        <5>4. ASSUME NEW j \in DOMAIN Stream("client"), DataFor("client", j, x)
              PROVE  x = db'["client"].epoch
                       \/ \E o \in DOMAIN Stream("client")' : o < i /\ DataFor("client", o, x)'
          <6>1. j < i
            BY <4>2, <4>5
          <6> QED  BY <1>9, <1>11, <3>1, <3>3, <5>4, <6>1
        <5> QED  BY <5>2, <5>3, <5>4
      <4> QED  BY <4>3, <4>4, <4>5
    <3> QED  BY <3>2, <3>3 DEF Peers
  <2> QED  BY <2>3, <2>4
<1>12. ASSUME NEW r \in Peers, sess'[r].valve, Going(r)', IsSink(r)' PROVE EpochKnown(r)'
  <2>1. Going(r) /\ IsSink(r)
    BY <1>3, <1>12
  <2>2. CASE sess[r].valve
    BY <1>5, <1>7, <1>12, <2>1, <2>2
  <2>3. CASE ~sess[r].valve
    <3>1. sess'[r].requested \cap Epochs = {} /\ "epoch" \in sess'[r].tree_is_done
      BY <1>0, <1>2, <1>12, <2>3
    <3>2. CASE r = "client"
      BY <1>11, <1>12, <3>1, <3>2
    <3>3. CASE r = "server"
      <4>1. RootSeen'
        <5>1. \A i \in DOMAIN Stream("server")' : ~IsRefine("server", i, "epoch")'
          BY <3>1, <3>3 DEF Roots, Types, Peers
        <5> QED  BY <1>1, <5>1 DEF RootSeen
      <4>2. \A x \in sess'["client"].tree["epoch"] :
              x = db'["server"].epoch \/ x \in sess'["server"].requested
        BY <1>10, <1>12, <3>3, <4>1 DEF ServerMet
      <4>3. sess'["client"].tree["epoch"] \subseteq Epochs
        BY <1>8 DEF Peers
      <4> QED  BY <3>1, <3>3, <4>2, <4>3 DEF EpochKnown, Other
    <3> QED  BY <3>2, <3>3 DEF Peers
  <2> QED  BY <2>2, <2>3
<1> QED  BY <1>8, <1>10, <1>11, <1>12 DEF EpochsMet, ServerMet, ClientMet
-----------------------------------------------------------------------------
(* The client's epoch is ahead of all else in these steps.                 *)

LEMMA RootKept ==
  ASSUME NEW p \in Peers, NEW k, NEW sent, LeadStep(p, k, sent), ~RootSeen'
  PROVE  ~RootSeen
<1> DEFINE q == Other(p)
<1>0. q \in Peers /\ q # p /\ Peers = {p, q}
  BY TwoPeers
<1>1. Flow(p, k, sent) /\ sess["client"].authenticated /\ sess'["client"].authenticated
  BY DEF LeadStep, EpochStep, Settled, Peers
<1>2. PICK i : IsRefine("server", i, "epoch")'
  BY <1>1 DEF RootSeen
<1>3. CASE p = "server"
  <2>1. i \in DOMAIN Stream(p)'
    BY <1>2, <1>3 DEF IsRefine
  <2>2. i + k \in DOMAIN Stream(p) /\ Stream(p)'[i] = Stream(p)[i + k]
    BY <1>1, <2>1 DEF Flow
  <2> QED  BY <1>2, <1>3, <2>2 DEF IsRefine, RootSeen
<1>4. CASE q = "server"
  <2>1. i \in DOMAIN Stream(q)'
    BY <1>2, <1>4 DEF IsRefine
  <2>2. \/ i \in DOMAIN Stream(q) /\ Stream(q)'[i] = Stream(q)[i]
        \/ i - Len(Stream(q)) \in DOMAIN sent /\ Stream(q)'[i] = sent[i - Len(Stream(q))]
    BY <1>1, <2>1 DEF Flow
  <2>3. \A j \in DOMAIN sent : sent[j].cmd # "refine"
    BY DEF LeadStep
  <2> QED  BY <1>2, <1>4, <2>2, <2>3 DEF IsRefine, RootSeen
<1> QED  BY <1>0, <1>3, <1>4 DEF Peers

LEMMA OwedKept ==
  ASSUME NEW p \in Peers, NEW k, NEW sent, LeadStep(p, k, sent), NEW x \in Epochs, Owed(x)'
  PROVE  Owed(x)
<1> DEFINE q == Other(p)
<1>0. q \in Peers /\ q # p /\ Peers = {p, q} /\ "server" \in Peers /\ "client" \in Peers
  BY TwoPeers DEF Peers
<1>1. /\ Settled /\ sess'[q] = sess[q] /\ db'[q].epoch = db[q].epoch
      /\ Going(p)' => Going(p) /\ db[p].epoch \in {NoEpoch, db'[p].epoch}
  BY DEF LeadStep, EpochStep, Going
<1>2. Going("server")
  BY <1>0, <1>1 DEF Owed, Going
<1>3. x # db["server"].epoch
  BY <1>0, <1>1, SessionConstants DEF Owed, Going
<1> QED  BY <1>0, <1>1, <1>2, <1>3 DEF Owed, Settled, IsSink

(* While the root of the epochs is on its way.                             *)
LEMMA LeadsBefore ==
  ASSUME NEW p \in Peers, NEW k, NEW sent, LeadStep(p, k, sent), EpochLeads, Roots, ~RootSeen'
  PROVE  /\ sess'["server"].requested = {} /\ KeepsNothing("server")'
         /\ \A i \in DOMAIN Stream("client")' : ~Exchanged(Stream("client")'[i])
         /\ \A i \in DOMAIN Stream("server")' : Exchanged(Stream("server")'[i]) =>
              \E j \in DOMAIN Stream("server")' : j <= i /\ IsRefine("server", j, "epoch")'
<1> DEFINE q == Other(p)
           n == Len(Stream(q))
<1>0. q \in Peers /\ q # p /\ Peers = {p, q} /\ Other(q) = p
  BY TwoPeers
<1>1. /\ Flow(p, k, sent) /\ sess["client"].authenticated /\ sess'["client"].authenticated
      /\ sess'[q] = sess[q] /\ k \in Nat
  BY DEF LeadStep, EpochStep, Settled, Peers, Flow
<1>2. /\ sess["server"].requested = {} /\ KeepsNothing("server")
      /\ \A i \in DOMAIN Stream("client") : ~Exchanged(Stream("client")[i])
      /\ \A i \in DOMAIN Stream("server") : Exchanged(Stream("server")[i]) =>
           \E j \in DOMAIN Stream("server") : j <= i /\ IsRefine("server", j, "epoch")
  BY RootKept DEF EpochLeads
<1>3. \A i \in DOMAIN sent : Exchanged(sent[i]) =>
        k = 1 /\ 1 \in DOMAIN Stream(p) /\ Exchanged(Stream(p)[1])
  BY DEF LeadStep
<1>4. PICK r : r \in DOMAIN Stream("server")' /\ IsRefine("server", r, "epoch")'
  BY <1>1 DEF RootSeen
<1>5. CASE p = "client"
  <2>1. \A i \in DOMAIN sent : ~Exchanged(sent[i])
    BY <1>2, <1>3, <1>5
  <2>2. q = "server"
    BY <1>5 DEF Other
  <2>3. KeepsNothing("server")' /\ sess'["server"].requested = {}
    BY <1>1, <1>2, <2>2 DEF KeepsNothing
  <2>4. \A i \in DOMAIN Stream(p)' : i + k \in DOMAIN Stream(p) /\ Stream(p)'[i] = Stream(p)[i + k]
    BY <1>1 DEF Flow
  <2>5. ASSUME NEW i \in DOMAIN Stream(q)', Exchanged(Stream(q)'[i])
        PROVE  \E j \in DOMAIN Stream(q)' : j <= i /\ IsRefine(q, j, "epoch")'
    <3>1. i \in DOMAIN Stream(q) /\ Stream(q)'[i] = Stream(q)[i]
      BY <1>1, <2>1, <2>5 DEF Flow
    <3>2. PICK j \in DOMAIN Stream(q) : j <= i /\ IsRefine(q, j, "epoch")
      BY <1>2, <2>2, <2>5, <3>1
    <3>3. j \in DOMAIN Stream(q)' /\ Stream(q)'[j] = Stream(q)[j]
      BY <1>1 DEF Flow
    <3> QED  BY <3>2, <3>3 DEF IsRefine
  <2> QED  BY <1>2, <1>5, <2>2, <2>3, <2>4, <2>5
<1>6. CASE p = "server"
  <2>1. q = "client"
    BY <1>6 DEF Other
  <2>2. /\ r \in Nat \ {0} /\ r + k \in DOMAIN Stream(p) /\ IsRefine(p, r + k, "epoch")
    BY <1>1, <1>4, <1>6 DEF Flow, IsRefine
  <2>3. ASSUME NEW j \in DOMAIN Stream(p), Exchanged(Stream(p)[j])
        PROVE  r + k <= j
    <3>1. PICK i \in DOMAIN Stream(p) : i <= j /\ IsRefine(p, i, "epoch")
      BY <1>2, <1>6, <2>3
    <3>2. i = r + k
      BY <2>2, <3>1 DEF Roots, Types
    <3> QED  BY <3>1, <3>2
  <2>4. \A j \in DOMAIN Stream(p) : j \in Nat
    BY <1>1 DEF Flow
  <2>5. \A j \in DOMAIN Stream(p) : j <= k => ~Exchanged(Stream(p)[j])
    <3> SUFFICES ASSUME NEW j \in DOMAIN Stream(p), j <= k, Exchanged(Stream(p)[j]) PROVE FALSE
      OBVIOUS
    <3>1. r + k <= j /\ j \in Nat
      BY <2>3, <2>4
    <3> QED  BY <1>1, <2>2, <3>1
  <2>6. \A i \in DOMAIN sent : ~Exchanged(sent[i])
    BY <1>3, <2>5
  <2>7. sess'[p].requested = {} /\ KeepsNothing(p)'
    <3>1. \A j \in DOMAIN Stream(p) : j <= k => Stream(p)[j].cmd # "data"
      BY <2>5 DEF Exchanged
    <3> QED  BY <1>2, <1>6, <2>5, <3>1 DEF LeadStep
  <2>8. \A i \in DOMAIN Stream(q)' : ~Exchanged(Stream(q)'[i])
    <3>1. \A i \in DOMAIN Stream(q)' : \/ i \in DOMAIN Stream(q) /\ Stream(q)'[i] = Stream(q)[i]
                                       \/ i - n \in DOMAIN sent /\ Stream(q)'[i] = sent[i - n]
      BY <1>1 DEF Flow
    <3> QED  BY <1>2, <2>1, <2>6, <3>1
  <2>9. ASSUME NEW i \in DOMAIN Stream(p)', Exchanged(Stream(p)'[i])
        PROVE  r <= i
    <3>1. i \in Nat \ {0} /\ i + k \in DOMAIN Stream(p) /\ Stream(p)'[i] = Stream(p)[i + k]
      BY <1>1 DEF Flow
    <3>2. r + k <= i + k
      BY <2>3, <2>9, <3>1
    <3> QED  BY <1>1, <2>2, <3>1, <3>2
  <2> QED  BY <1>4, <1>6, <2>1, <2>7, <2>8, <2>9
<1> QED  BY <1>5, <1>6 DEF Peers

(* While an epoch is owed: steps of the client.                            *)
LEMMA LeadsClient ==
  ASSUME NEW p \in Peers, NEW k, NEW sent, LeadStep(p, k, sent), EpochLeads, Opposed,
         NEW x \in Epochs, Owed(x)', p = "client"
  PROVE  /\ KeepsNothing("server")'
         /\ \A i \in DOMAIN Stream("server")' : Stream("server")'[i].cmd = "data" =>
              \E j \in DOMAIN Stream("server")' : j <= i /\ DataFor("server", j, x)'
         /\ Going("client")' /\ RootSeen' =>
              \/ \E j \in DOMAIN Stream("server")' : DataFor("server", j, x)'
              \/ /\ \E j \in DOMAIN Stream("client")' : RequestFor("client", j, x)'
                 /\ \A i \in DOMAIN Stream("client")' : Stream("client")'[i].cmd = "send_data" =>
                      \E j \in DOMAIN Stream("client")' : j <= i /\ RequestFor("client", j, x)'
<1> DEFINE q == Other(p)
<1>n. PICK n : n = Len(Stream(q))
  OBVIOUS
<1>0. q \in Peers /\ q = "server" /\ Other(q) = p
  BY TwoPeers DEF Other
<1>1. /\ Flow(p, k, sent) /\ sess'[q] = sess[q] /\ k \in Nat /\ Settled /\ (Going(p)' => Going(p))
  BY DEF LeadStep, EpochStep, Flow
<1>2. /\ Owed(x) /\ KeepsNothing(q)
      /\ \A i \in DOMAIN Stream(q) : Stream(q)[i].cmd = "data" =>
           \E j \in DOMAIN Stream(q) : j <= i /\ DataFor(q, j, x)
      /\ Going(p) /\ RootSeen =>
           \/ \E j \in DOMAIN Stream(q) : DataFor(q, j, x)
           \/ /\ \E j \in DOMAIN Stream(p) : RequestFor(p, j, x)
              /\ \A i \in DOMAIN Stream(p) : Stream(p)[i].cmd = "send_data" =>
                   \E j \in DOMAIN Stream(p) : j <= i /\ RequestFor(p, j, x)
      /\ ~RootSeen => \A i \in DOMAIN Stream(p) : ~Exchanged(Stream(p)[i])
  BY <1>0, OwedKept DEF EpochLeads
<1>3. \A i \in DOMAIN sent :
        /\ Exchanged(sent[i]) => k = 1 /\ 1 \in DOMAIN Stream(p) /\ Exchanged(Stream(p)[1]) /\ Going(p)
        /\ sent[i].cmd = "data" => RequestFor(p, 1, sent[i].item)
  BY DEF LeadStep
<1>4. \A j, y : j \in DOMAIN Stream(p) /\ j <= k /\ RequestFor(p, j, y) /\ Going(p)'
          /\ y \in sess[p].tree["epoch"] /\ sess[p].role # "sink" =>
        \E i \in DOMAIN sent : sent[i].cmd = "data" /\ sent[i].item = y
  BY DEF LeadStep
<1>5. sess[p].role # "sink" /\ x \in sess[p].tree["epoch"]
  <2>1. sess[q].role # "source" /\ x \in sess[p].tree["epoch"]
    BY <1>0, <1>2 DEF Owed, IsSink
  <2>2. \A r \in Peers : sess[r].role = "source" <=> sess[Other(r)].role = "sink"
    BY <1>1 DEF Opposed, Settled
  <2> QED  BY <1>0, <2>1, <2>2
<1> HIDE DEF q
<1>6. \A j \in DOMAIN Stream(q) : DataFor(q, j, x) => j \in DOMAIN Stream(q)' /\ DataFor(q, j, x)'
  <2> SUFFICES ASSUME NEW j \in DOMAIN Stream(q), DataFor(q, j, x)
               PROVE  j \in DOMAIN Stream(q)' /\ DataFor(q, j, x)'
    OBVIOUS
  <2>1. j \in DOMAIN Stream(q)' /\ Stream(q)'[j] = Stream(q)[j]
    BY <1>1 DEF Flow, q
  <2> QED  BY <2>1 DEF DataFor
<1>7. ASSUME NEW i \in DOMAIN Stream(q)', Stream(q)'[i].cmd = "data"
      PROVE  \E j \in DOMAIN Stream(q)' : j <= i /\ DataFor(q, j, x)'
  <2>1. /\ i \in Nat /\ n \in Nat /\ \A j \in DOMAIN Stream(q) : j \in Nat /\ j <= n
        /\ \/ i \in DOMAIN Stream(q) /\ Stream(q)'[i] = Stream(q)[i]
           \/ i > n /\ i - n \in DOMAIN sent /\ Stream(q)'[i] = sent[i - n]
    BY <1>1, <1>n DEF Flow, q
  <2>2. CASE i \in DOMAIN Stream(q) /\ Stream(q)'[i] = Stream(q)[i]
    BY <1>2, <1>6, <1>7, <2>2
  <2>3. CASE i > n /\ i - n \in DOMAIN sent /\ Stream(q)'[i] = sent[i - n]
    <3>1. /\ Exchanged(sent[i - n]) /\ RequestFor(p, 1, sent[i - n].item)
          /\ Going(p) /\ 1 \in DOMAIN Stream(p) /\ Exchanged(Stream(p)[1])
      BY <1>3, <1>7, <2>3 DEF Exchanged
    <3>2. RootSeen
      BY <1>2, <3>1
    <3>3. CASE \E j \in DOMAIN Stream(q) : DataFor(q, j, x)
      <4>1. PICK j \in DOMAIN Stream(q) : DataFor(q, j, x)
        BY <3>3
      <4>2. j <= i
        BY <2>1, <2>3
      <4> QED  BY <1>6, <4>1, <4>2
    <3>4. CASE \E j \in DOMAIN Stream(p) : j <= 1 /\ RequestFor(p, j, x)
      <4>1. PICK j \in DOMAIN Stream(p) : j <= 1 /\ RequestFor(p, j, x)
        BY <3>4
      <4>2. j = 1
        <5>1. j \in Nat \ {0}
          BY <1>1 DEF Flow
        <5> QED  BY <4>1, <5>1
      <4>3. sent[i - n].item = x
        BY <3>1, <4>1, <4>2 DEF RequestFor
      <4>4. DataFor(q, i, x)'
        BY <1>7, <2>3, <4>3 DEF DataFor
      <4> QED  BY <2>1, <4>4
    <3> QED  BY <1>2, <3>1, <3>2, <3>3, <3>4 DEF RequestFor
  <2> QED  BY <2>1, <2>2, <2>3
<1>8. ASSUME Going(p)', RootSeen'
      PROVE  \/ \E j \in DOMAIN Stream(q)' : DataFor(q, j, x)'
             \/ /\ \E j \in DOMAIN Stream(p)' : RequestFor(p, j, x)'
                /\ \A i \in DOMAIN Stream(p)' : Stream(p)'[i].cmd = "send_data" =>
                     \E j \in DOMAIN Stream(p)' : j <= i /\ RequestFor(p, j, x)'
  <2>1. RootSeen
    <3> SUFFICES ASSUME NEW i \in DOMAIN Stream(q), IsRefine(q, i, "epoch") PROVE FALSE
      BY <1>0, <1>1 DEF RootSeen, Settled
    <3>1. i \in DOMAIN Stream(q)' /\ Stream(q)'[i] = Stream(q)[i]
      BY <1>1 DEF Flow, q
    <3>2. IsRefine(q, i, "epoch")'
      BY <3>1 DEF IsRefine
    <3> QED  BY <1>0, <1>8, <3>1, <3>2 DEF RootSeen
  <2>2. CASE \E j \in DOMAIN Stream(q) : DataFor(q, j, x)
    BY <1>6, <2>2
  <2>3. CASE \E j \in DOMAIN Stream(p) : j <= k /\ RequestFor(p, j, x)
    <3>1. PICK i \in DOMAIN sent : sent[i].cmd = "data" /\ sent[i].item = x
      BY <1>4, <1>5, <1>8, <2>3
    <3>2. i + n \in DOMAIN Stream(q)' /\ Stream(q)'[i + n] = sent[i]
      BY <1>1, <1>n DEF Flow, q
    <3> QED  BY <3>1, <3>2 DEF DataFor
  <2>4. CASE /\ \A j \in DOMAIN Stream(p) : ~(j <= k /\ RequestFor(p, j, x))
             /\ \E j \in DOMAIN Stream(p) : RequestFor(p, j, x)
             /\ \A i \in DOMAIN Stream(p) : Stream(p)[i].cmd = "send_data" =>
                  \E j \in DOMAIN Stream(p) : j <= i /\ RequestFor(p, j, x)
    <3>1. ASSUME NEW j \in DOMAIN Stream(p), RequestFor(p, j, x)
          PROVE  /\ j \in Nat /\ j > k /\ j - k \in DOMAIN Stream(p)' /\ RequestFor(p, j - k, x)'
      <4>1. j \in Nat /\ ~(j <= k)
        BY <1>1, <2>4, <3>1 DEF Flow
      <4>2. j > k /\ (j - k) + k = j
        BY <1>1, <4>1
      <4>3. j - k \in DOMAIN Stream(p)'
        BY <1>1, <4>2 DEF Flow
      <4>4. Stream(p)'[j - k] = Stream(p)[(j - k) + k]
        BY <1>1, <4>3 DEF Flow
      <4> QED  BY <3>1, <4>1, <4>2, <4>3, <4>4 DEF RequestFor
    <3>2. ASSUME NEW i \in DOMAIN Stream(p)', Stream(p)'[i].cmd = "send_data"
          PROVE  \E j \in DOMAIN Stream(p)' : j <= i /\ RequestFor(p, j, x)'
      <4>1. i \in Nat /\ i + k \in DOMAIN Stream(p) /\ Stream(p)'[i] = Stream(p)[i + k]
        BY <1>1 DEF Flow
      <4>2. PICK j \in DOMAIN Stream(p) : j <= i + k /\ RequestFor(p, j, x)
        BY <2>4, <3>2, <4>1
      <4>3. j \in Nat /\ j > k /\ j - k \in DOMAIN Stream(p)' /\ RequestFor(p, j - k, x)'
        BY <3>1, <4>2
      <4>4. j - k <= i
        BY <1>1, <4>1, <4>2, <4>3
      <4> QED  BY <4>3, <4>4
    <3>3. \E j \in DOMAIN Stream(p)' : RequestFor(p, j, x)'
      BY <2>4, <3>1
    <3> QED  BY <3>2, <3>3
  <2> QED  BY <1>1, <1>2, <1>8, <2>1, <2>2, <2>3, <2>4
<1>9. KeepsNothing(q)'
  BY <1>1, <1>2 DEF KeepsNothing
<1> QED  BY <1>0, <1>7, <1>8, <1>9

(* While an epoch is owed: steps of the server.                            *)
LEMMA LeadsServer ==
  ASSUME NEW p \in Peers, NEW k, NEW sent, LeadStep(p, k, sent), EpochLeads,
         NEW x \in Epochs, Owed(x)', p = "server"
  PROVE  /\ KeepsNothing("server")'
         /\ \A i \in DOMAIN Stream("server")' : Stream("server")'[i].cmd = "data" =>
              \E j \in DOMAIN Stream("server")' : j <= i /\ DataFor("server", j, x)'
         /\ Going("client")' /\ RootSeen' =>
              \/ \E j \in DOMAIN Stream("server")' : DataFor("server", j, x)'
              \/ /\ \E j \in DOMAIN Stream("client")' : RequestFor("client", j, x)'
                 /\ \A i \in DOMAIN Stream("client")' : Stream("client")'[i].cmd = "send_data" =>
                      \E j \in DOMAIN Stream("client")' : j <= i /\ RequestFor("client", j, x)'
<1> DEFINE q == Other(p)
<1>n. PICK n : n = Len(Stream(q))
  OBVIOUS
<1>0. q \in Peers /\ q = "client" /\ Other(q) = p /\ "epoch" \in Types
  BY TwoPeers DEF Other, Types
<1>1. /\ Flow(p, k, sent) /\ sess'[q] = sess[q] /\ k \in Nat /\ Settled /\ (Going(p)' => Going(p))
      /\ Going(p)' =>
           \A j \in DOMAIN Stream(p) :
             j <= k /\ Stream(p)[j].cmd = "data" /\ Stream(p)[j].item \in Epochs =>
               db'[p].epoch = Stream(p)[j].item
  BY DEF LeadStep, EpochStep, Flow
<1>2. /\ Owed(x) /\ KeepsNothing(p)
      /\ \A i \in DOMAIN Stream(p) : Stream(p)[i].cmd = "data" =>
           \E j \in DOMAIN Stream(p) : j <= i /\ DataFor(p, j, x)
      /\ Going(q) /\ RootSeen =>
           \/ \E j \in DOMAIN Stream(p) : DataFor(p, j, x)
           \/ /\ \E j \in DOMAIN Stream(q) : RequestFor(q, j, x)
              /\ \A i \in DOMAIN Stream(q) : Stream(q)[i].cmd = "send_data" =>
                   \E j \in DOMAIN Stream(q) : j <= i /\ RequestFor(q, j, x)
      /\ ~RootSeen => \A i \in DOMAIN Stream(q) : ~Exchanged(Stream(q)[i])
      /\ \A y, z \in sess[q].tree["epoch"] : y = z
  BY <1>0, OwedKept DEF EpochLeads
<1>3. /\ Going(p)' /\ x # db'[p].epoch /\ IsSink(p) /\ x \in sess[q].tree["epoch"]
  BY <1>0, <1>1, <1>2 DEF Owed, Settled
<1>4. /\ KeepsNothing(p) /\ (\A j : j \in DOMAIN Stream(p) /\ j <= k => Stream(p)[j].cmd # "data") =>
           KeepsNothing(p)'
      /\ ~RootSeen /\ RootSeen' =>
           /\ \A i \in DOMAIN sent :
                sent[i].cmd = "send_data" => sent[i].item \in sess[q].tree["epoch"]
           /\ \A y \in sess[q].tree["epoch"] :
                y # db'[p].epoch /\ Going(p)' /\ IsSink(p) =>
                  \E i \in DOMAIN sent : sent[i].cmd = "send_data" /\ sent[i].item = y
  BY DEF LeadStep
<1> HIDE DEF q
<1>5. ASSUME NEW j \in DOMAIN Stream(p), DataFor(p, j, x)
      PROVE  /\ j \in Nat /\ j > k /\ j - k \in DOMAIN Stream(p)' /\ DataFor(p, j - k, x)'
  <2>1. j \in Nat /\ ~(j <= k)
    BY <1>1, <1>3, <1>5 DEF Flow, DataFor
  <2>2. j > k /\ (j - k) + k = j
    BY <1>1, <2>1
  <2>3. j - k \in DOMAIN Stream(p)'
    BY <1>1, <2>2 DEF Flow
  <2>4. Stream(p)'[j - k] = Stream(p)[(j - k) + k]
    BY <1>1, <2>3 DEF Flow
  <2> QED  BY <1>5, <2>1, <2>2, <2>3, <2>4 DEF DataFor
<1>6. ASSUME NEW i \in DOMAIN Stream(p), i <= k PROVE Stream(p)[i].cmd # "data"
  <2> SUFFICES ASSUME Stream(p)[i].cmd = "data" PROVE FALSE
    OBVIOUS
  <2>1. PICK j \in DOMAIN Stream(p) : j <= i /\ DataFor(p, j, x)
    BY <1>2
  <2>2. j \in Nat /\ j > k /\ i \in Nat
    BY <1>1, <1>5, <2>1 DEF Flow
  <2> QED  BY <1>1, <1>6, <2>1, <2>2
<1>7. KeepsNothing(p)'
  BY <1>2, <1>4, <1>6
<1>8. ASSUME NEW i \in DOMAIN Stream(p)', Stream(p)'[i].cmd = "data"
      PROVE  \E j \in DOMAIN Stream(p)' : j <= i /\ DataFor(p, j, x)'
  <2>1. i \in Nat /\ i + k \in DOMAIN Stream(p) /\ Stream(p)'[i] = Stream(p)[i + k]
    BY <1>1 DEF Flow
  <2>2. PICK j \in DOMAIN Stream(p) : j <= i + k /\ DataFor(p, j, x)
    BY <1>2, <1>8, <2>1
  <2>3. j \in Nat /\ j > k /\ j - k \in DOMAIN Stream(p)' /\ DataFor(p, j - k, x)'
    BY <1>5, <2>2
  <2>4. j - k <= i
    BY <1>1, <2>1, <2>2, <2>3
  <2> QED  BY <2>3, <2>4
<1>9. ASSUME NEW i \in DOMAIN Stream(q)'
      PROVE  /\ i \in Nat /\ n \in Nat /\ \A j \in DOMAIN Stream(q) : j \in Nat /\ j <= n
             /\ \/ i \in DOMAIN Stream(q) /\ Stream(q)'[i] = Stream(q)[i]
                \/ i > n /\ i - n \in DOMAIN sent /\ Stream(q)'[i] = sent[i - n]
  BY <1>1, <1>n DEF Flow, q
<1>10. ASSUME NEW j \in DOMAIN Stream(q), RequestFor(q, j, x)
       PROVE  j \in DOMAIN Stream(q)' /\ RequestFor(q, j, x)'
  <2>1. j \in DOMAIN Stream(q)' /\ Stream(q)'[j] = Stream(q)[j]
    BY <1>1 DEF Flow, q
  <2> QED  BY <1>10, <2>1 DEF RequestFor
<1>11. ASSUME Going(q)', RootSeen'
       PROVE  \/ \E j \in DOMAIN Stream(p)' : DataFor(p, j, x)'
              \/ /\ \E j \in DOMAIN Stream(q)' : RequestFor(q, j, x)'
                 /\ \A i \in DOMAIN Stream(q)' : Stream(q)'[i].cmd = "send_data" =>
                      \E j \in DOMAIN Stream(q)' : j <= i /\ RequestFor(q, j, x)'
  <2>1. Going(q)
    BY <1>1, <1>11 DEF Going
  <2>2. CASE \E j \in DOMAIN Stream(p) : DataFor(p, j, x)
    BY <1>5, <2>2
  <2>3. CASE RootSeen /\ ~(\E j \in DOMAIN Stream(p) : DataFor(p, j, x))
    <3>1. PICK r \in DOMAIN Stream(q) : RequestFor(q, r, x)
      BY <1>2, <2>1, <2>3
    <3>2. r \in DOMAIN Stream(q)' /\ RequestFor(q, r, x)'
      BY <1>10, <3>1
    <3>3. ASSUME NEW i \in DOMAIN Stream(q)', Stream(q)'[i].cmd = "send_data"
          PROVE  \E j \in DOMAIN Stream(q)' : j <= i /\ RequestFor(q, j, x)'
      <4>1. CASE i \in DOMAIN Stream(q) /\ Stream(q)'[i] = Stream(q)[i]
        <5>1. PICK j \in DOMAIN Stream(q) : j <= i /\ RequestFor(q, j, x)
          BY <1>2, <2>1, <2>3, <3>3, <4>1
        <5> QED  BY <1>10, <5>1
      <4>2. CASE i > n
        <5>1. r <= i
          BY <1>9, <4>2
        <5> QED  BY <3>2, <5>1
      <4> QED  BY <1>9, <4>1, <4>2
    <3> QED  BY <3>2, <3>3
  <2>4. CASE ~RootSeen
    <3>1. PICK r \in DOMAIN sent : sent[r].cmd = "send_data" /\ sent[r].item = x
      BY <1>3, <1>4, <1>11, <2>4
    <3>2. r + n \in DOMAIN Stream(q)' /\ Stream(q)'[r + n] = sent[r]
      BY <1>1, <1>n DEF Flow, q
    <3>3. RequestFor(q, r + n, x)'
      BY <3>1, <3>2 DEF RequestFor
    <3>4. ASSUME NEW i \in DOMAIN Stream(q)', Stream(q)'[i].cmd = "send_data"
          PROVE  i <= i /\ RequestFor(q, i, x)'
      <4>1. ~(i \in DOMAIN Stream(q) /\ Stream(q)'[i] = Stream(q)[i])
        BY <1>2, <2>4, <3>4 DEF Exchanged
      <4>2. i \in Nat /\ i - n \in DOMAIN sent /\ Stream(q)'[i] = sent[i - n]
        BY <1>9, <4>1
      <4>3. sent[i - n].item = x
        BY <1>2, <1>3, <1>4, <1>11, <2>4, <3>4, <4>2
      <4> QED  BY <3>4, <4>2, <4>3 DEF RequestFor
    <3> QED  BY <3>2, <3>3, <3>4
  <2> QED  BY <2>2, <2>3, <2>4
<1> QED  BY <1>0, <1>7, <1>8, <1>11

LEMMA LeadsKept ==
  ASSUME NEW p \in Peers, NEW k, NEW sent, LeadStep(p, k, sent), EpochLeads, Opposed, Roots
  PROVE  EpochLeads'
<1>1. \A r \in Peers : sess'[r].tree = sess[r].tree
  BY DEF LeadStep, EpochStep, Settled
<1>2. \A r \in Peers : \A x, y \in sess'[r].tree["epoch"] : x = y
  BY <1>1 DEF EpochLeads
<1>3. CASE p = "client"
  BY <1>2, <1>3, LeadsBefore, LeadsClient DEF EpochLeads
<1>4. CASE p = "server"
  BY <1>2, <1>4, LeadsBefore, LeadsServer DEF EpochLeads
<1> QED  BY <1>3, <1>4 DEF Peers
-----------------------------------------------------------------------------
(* Steps before the client has its confirmation.                           *)

LEMMA QuietStep ==
  ASSUME NEW p \in Peers, NEW k, NEW sent, Quiet(p, k, sent), Authentication, Opposed
  PROVE  Authentication' /\ Opposed' /\ Roots' /\ Markers' /\ Traffic' /\ EpochsMet' /\ EpochLeads'
<1> DEFINE q == Other(p)
<1>0. q \in Peers /\ q # p /\ Peers = {p, q}
  BY TwoPeers
<1>1. \A r \in Peers : \A i \in DOMAIN Stream(r) :
         /\ Stream(r)[i].cmd = "confirm" => sess["server"].authenticated /\ ~sess["server"].error
         /\ ~Exchanged(Stream(r)[i])
  BY DEF Authentication, Quiet
<1>2. ASSUME NEW i \in DOMAIN Stream(p)'
      PROVE  \E r \in Peers : \E j \in DOMAIN Stream(r) : Stream(p)'[i] = Stream(r)[j]
  BY DEF Quiet, Flow
<1>3. ASSUME NEW i \in DOMAIN Stream(q)'
      PROVE  \/ \E r \in Peers : \E j \in DOMAIN Stream(r) : Stream(q)'[i] = Stream(r)[j]
             \/ \E j \in DOMAIN sent : Stream(q)'[i] = sent[j]
  <2>1. \/ i \in DOMAIN Stream(q) /\ Stream(q)'[i] = Stream(q)[i]
        \/ i - Len(Stream(q)) \in DOMAIN sent /\ Stream(q)'[i] = sent[i - Len(Stream(q))]
    BY DEF Quiet, Flow
  <2> HIDE DEF q
  <2> QED  BY <1>0, <2>1
<1> HIDE DEF q
<1>4. ASSUME NEW r \in Peers, NEW i \in DOMAIN Stream(r)'
      PROVE  /\ Stream(r)'[i].cmd = "confirm" => sess'["server"].authenticated /\ ~sess'["server"].error
             /\ ~Exchanged(Stream(r)'[i])
  <2>1. /\ \A i1 \in DOMAIN sent :
             /\ ~Exchanged(sent[i1])
             /\ sent[i1].cmd = "confirm" => sess'["server"].authenticated /\ ~sess'["server"].error
        /\ sess["server"].authenticated =>
             sess'["server"].authenticated /\ (sess'["server"].error => sess["server"].error)
    BY DEF Quiet
  <2>2. CASE \E o \in Peers : \E j \in DOMAIN Stream(o) : Stream(r)'[i] = Stream(o)[j]
    BY <1>1, <2>1, <2>2
  <2>3. CASE \E j \in DOMAIN sent : Stream(r)'[i] = sent[j]
    BY <2>1, <2>3
  <2> QED  BY <1>0, <1>2, <1>3, <2>2, <2>3
<1>5. /\ ~sess'["client"].authenticated /\ ~sess'["client"].error
      /\ \A r \in Peers :
           /\ sess'[r].had_refinements = {} /\ sess'[r].tree_is_done = {}
           /\ sess'[r].held = {} /\ sess'[r].certs = {} /\ sess'[r].ancestry = {} /\ ~sess'[r].valve
           /\ \A t \in Types : \A x \in sess'[r].tree[t] : TypeOf(x) = t
           /\ sess'[r].tree["epoch"] \subseteq Epochs
           /\ sess'[r].live => sess'[r].tree["epoch"] \subseteq {db'[r].epoch}
           /\ Going(r)' => sess'[r].received \cap Epochs \subseteq {db'[r].epoch}
      /\ sess'["server"].authenticated =>
           \A r \in Peers : sess'[r].role = "source" <=> sess'[Other(r)].role = "sink"
  BY DEF Quiet
<1>6. Authentication'
  BY <1>4, <1>5 DEF Authentication
<1>7. \A r \in Peers : \A i \in DOMAIN Stream(r)' :
         Stream(r)'[i].cmd \notin {"refine", "done", "send_data", "data", "nonexistant"}
  BY <1>4 DEF Exchanged
<1>8. Opposed'
  <2>1. sess'["client"].role = conf'.role["client"]
    BY DEF Opposed, Quiet
  <2> QED  BY <1>5, <1>7, <2>1 DEF Opposed
<1>9. \A r \in Peers, t \in Types : \A i :
        ~IsRefine(r, i, t)' /\ ~IsDone(r, i, t)' /\ ~IsRequest(r, i, t)' /\ ~IsData(r, i, t)'
  BY <1>7 DEF IsRefine, IsDone, IsRequest, IsData
<1>10. Roots' /\ Markers' /\ Traffic'
  BY <1>5, <1>9 DEF Roots, Markers, Traffic, Peers
<1>11. EpochsMet'
  <2>1. "epoch" \in Types /\ "client" \in Peers /\ ~RootSeen'
    BY <1>5 DEF Types, Peers, RootSeen
  <2> QED  BY <1>5, <1>9, <2>1 DEF EpochsMet
<1>12. EpochLeads'
  <2>1. /\ \A r \in Peers : \A x, y \in sess'[r].tree["epoch"] : x = y
        /\ sess'["server"].requested = {}
    BY DEF Quiet
  <2>2. KeepsNothing("server")' /\ \A x : ~Owed(x)'
    BY <1>5 DEF KeepsNothing, Owed, Peers
  <2>3. \A r \in Peers : \A i \in DOMAIN Stream(r)' : ~Exchanged(Stream(r)'[i])
    BY <1>4
  <2>4. /\ \A i \in DOMAIN Stream("client")' : ~Exchanged(Stream("client")'[i])
        /\ \A i \in DOMAIN Stream("server")' : ~Exchanged(Stream("server")'[i])
    BY <2>3 DEF Peers
  <2> QED  BY <2>1, <2>2, <2>4 DEF EpochLeads
<1> QED  BY <1>6, <1>8, <1>10, <1>11, <1>12

LEMMA ConfirmedStep ==
  ASSUME NEW p \in Peers, NEW sent, Confirmed(p, sent), Authentication, Opposed, Roots, EpochsMet, EpochLeads
  PROVE  Authentication' /\ Opposed' /\ Roots' /\ Markers' /\ Traffic' /\ EpochsMet' /\ EpochLeads'
<1>n. PICK n : n = Len(Stream(Other(p)))
  OBVIOUS
<1>t. PICK tree : tree = sess[p].tree
  OBVIOUS
<1> DEFINE q == Other(p)
           at(t) == CASE t = "epoch" -> 1 [] t = "key" -> 3 [] t = "cert" -> 5
<1>0. q \in Peers /\ q # p /\ Peers = {p, q} /\ p = "client" /\ q = "server" /\ Other(q) = p
  BY TwoPeers DEF Confirmed, Other
<1>1. Flow(p, 1, sent) /\ n \in Nat
  BY <1>n DEF Confirmed, Flow
<1>2. \A r \in Peers : \A i \in DOMAIN Stream(r) : ~Exchanged(Stream(r)[i])
  BY <1>0 DEF Authentication, Confirmed
<1>3. \A t \in Types : at(t) \in 1..6 /\ at(t) + 1 \in 1..6 /\ at(t) \in Nat
  BY DEF Types
<1>4. ASSUME NEW i \in 1..6
      PROVE  LET m == Opening(tree)[i]
             IN  /\ m.cmd \in {"refine", "done"}
                 /\ m.cmd = "refine" => m.items = tree[m.type]
                 /\ m.type \in Types
                 /\ \A t \in Types : m.cmd = "refine" /\ m.type = t <=> i = at(t)
                 /\ \A t \in Types : m.cmd = "done" /\ m.type = t <=> i = at(t) + 1
  <2>0. i = 1 \/ i = 2 \/ i = 3 \/ i = 4 \/ i = 5 \/ i = 6
    BY <1>4
  <2>1. /\ Opening(tree)[1] = Refine("epoch", tree) /\ Opening(tree)[2] = Done("epoch")
        /\ Opening(tree)[3] = Refine("key", tree) /\ Opening(tree)[4] = Done("key")
        /\ Opening(tree)[5] = Refine("cert", tree) /\ Opening(tree)[6] = Done("cert")
    BY DEF Opening
  <2>2. at("epoch") = 1 /\ at("key") = 3 /\ at("cert") = 5
    OBVIOUS
  <2> HIDE DEF at
  <2> QED  BY <2>0, <2>1, <2>2 DEF Refine, Done, Types
<1> HIDE DEF at
<1>5. ASSUME NEW i \in DOMAIN Stream(p)' PROVE ~Exchanged(Stream(p)'[i])
  <2>1. i + 1 \in DOMAIN Stream(p) /\ Stream(p)'[i] = Stream(p)[i + 1]
    BY <1>1 DEF Flow
  <2> QED  BY <1>2, <2>1
<1>6. ASSUME NEW i \in DOMAIN Stream(q)', Exchanged(Stream(q)'[i])
      PROVE  i \in Nat /\ i - n \in 1..6 /\ Stream(q)'[i] = Opening(tree)[i - n]
  <2>1. \/ i \in DOMAIN Stream(q) /\ Stream(q)'[i] = Stream(q)[i]
        \/ i - n \in DOMAIN sent /\ Stream(q)'[i] = sent[i - n]
    BY <1>1, <1>n DEF Flow
  <2>2. \A j \in DOMAIN sent : (j \in 1..6 /\ sent[j] = Opening(tree)[j]) \/ sent[j].cmd = "bye"
    BY <1>t DEF Confirmed
  <2>3. i \in Nat
    BY <1>1 DEF Flow
  <2> HIDE DEF q
  <2> QED  BY <1>0, <1>2, <1>6, <2>1, <2>2, <2>3 DEF Exchanged
<1>7. ASSUME NEW i \in 1..6 PROVE i + n \in DOMAIN Stream(q)' /\ Stream(q)'[i + n] = Opening(tree)[i]
  <2>1. i \in DOMAIN sent /\ sent[i] = Opening(tree)[i]
    BY <1>t DEF Confirmed
  <2> QED  BY <1>1, <1>n, <2>1 DEF Flow
<1>8. /\ sess'[p].authenticated /\ sess[q].authenticated /\ ~sess[q].error /\ sess'[q] = sess[q]
      /\ db'[q].epoch = db[q].epoch /\ db'[p].epoch = db[p].epoch
      /\ sess'[p].role = sess[p].role /\ sess'[p].tree = tree
      /\ sess'[p].live = sess[p].live /\ sess'[p].error = sess[p].error
      /\ sess'[p].received = sess[p].received /\ ~sess'[p].valve /\ ~sess[p].authenticated
      /\ sess'[p].had_refinements = {} /\ sess'[p].tree_is_done = {}
      /\ sess'[p].held = {} /\ sess'[p].certs = {} /\ sess'[p].ancestry = {}
  BY <1>t DEF Confirmed
<1>9. /\ sess[q].had_refinements = {} /\ sess[q].tree_is_done = {} /\ ~sess[q].valve
      /\ sess[q].held = {} /\ sess[q].certs = {} /\ sess[q].ancestry = {}
  BY <1>0, <1>8 DEF Authentication
<1> HIDE DEF q
<1>10. /\ \A t \in Types : \A i : ~IsRefine(p, i, t)' /\ ~IsDone(p, i, t)' /\ ~IsRequest(p, i, t)' /\ ~IsData(p, i, t)'
       /\ \A t \in Types : \A i : IsRefine(q, i, t)' => i = at(t) + n /\ i \in Nat
       /\ \A t \in Types : \A i : IsDone(q, i, t)' => i = at(t) + 1 + n /\ i \in Nat
       /\ \A i \in DOMAIN Stream(q)' : Stream(q)'[i].cmd \notin {"send_data", "data", "nonexistant"}
       /\ \A i \in DOMAIN Stream(p)' : Stream(p)'[i].cmd \notin {"send_data", "data", "nonexistant"}
  <2>1. \A t \in Types : \A i : ~IsRefine(p, i, t)' /\ ~IsDone(p, i, t)' /\ ~IsRequest(p, i, t)' /\ ~IsData(p, i, t)'
    BY <1>5 DEF Exchanged, IsRefine, IsDone, IsRequest, IsData
  <2>2. ASSUME NEW t \in Types, NEW i, IsRefine(q, i, t)' PROVE i = at(t) + n /\ i \in Nat
    <3>1. /\ i \in DOMAIN Stream(q)' /\ Exchanged(Stream(q)'[i])
          /\ Stream(q)'[i].cmd = "refine" /\ Stream(q)'[i].type = t
      BY <2>2 DEF IsRefine, Exchanged
    <3>2. i \in Nat /\ i - n \in 1..6 /\ Stream(q)'[i] = Opening(tree)[i - n]
      BY <1>6, <3>1
    <3>3. i - n = at(t)
      BY <1>4, <3>1, <3>2
    <3> QED  BY <1>1, <1>3, <3>2, <3>3
  <2>3. ASSUME NEW t \in Types, NEW i, IsDone(q, i, t)' PROVE i = at(t) + 1 + n /\ i \in Nat
    <3>1. /\ i \in DOMAIN Stream(q)' /\ Exchanged(Stream(q)'[i])
          /\ Stream(q)'[i].cmd = "done" /\ Stream(q)'[i].type = t
      BY <2>3 DEF IsDone, Exchanged
    <3>2. i \in Nat /\ i - n \in 1..6 /\ Stream(q)'[i] = Opening(tree)[i - n]
      BY <1>6, <3>1
    <3>3. i - n = at(t) + 1
      BY <1>4, <3>1, <3>2
    <3> QED  BY <1>1, <1>3, <3>2, <3>3
  <2>4. ASSUME NEW i \in DOMAIN Stream(q)'
        PROVE  Stream(q)'[i].cmd \notin {"send_data", "data", "nonexistant"}
    <3> SUFFICES ASSUME Exchanged(Stream(q)'[i])
                 PROVE  Stream(q)'[i].cmd \notin {"send_data", "data", "nonexistant"}
      BY DEF Exchanged
    <3> QED  BY <1>4, <1>6
  <2>5. \A i \in DOMAIN Stream(p)' : Stream(p)'[i].cmd \notin {"send_data", "data", "nonexistant"}
    BY <1>5 DEF Exchanged
  <2> QED  BY <2>1, <2>2, <2>3, <2>4, <2>5
<1>11. ASSUME NEW t \in Types
       PROVE  /\ at(t) + n \in DOMAIN Stream(q)' /\ IsRefine(q, at(t) + n, t)'
              /\ at(t) + 1 + n \in DOMAIN Stream(q)' /\ IsDone(q, at(t) + 1 + n, t)'
              /\ Stream(q)'[at(t) + n].items = tree[t]
  <2>1. at(t) \in 1..6 /\ at(t) + 1 \in 1..6
    BY <1>3
  <2>2. /\ at(t) + n \in DOMAIN Stream(q)' /\ Stream(q)'[at(t) + n] = Opening(tree)[at(t)]
        /\ (at(t) + 1) + n \in DOMAIN Stream(q)'
        /\ Stream(q)'[(at(t) + 1) + n] = Opening(tree)[at(t) + 1]
    BY <1>7, <2>1
  <2> QED  BY <1>4, <2>1, <2>2 DEF IsRefine, IsDone
<1>12. Authentication'
  BY <1>0, <1>8 DEF Authentication, Peers
<1>13. Opposed'
  <2>1. \A r \in Peers : sess'[r].role = sess[r].role
    BY <1>0, <1>8
  <2>2. \A r \in Peers : sess[r].role = "source" <=> sess[Other(r)].role = "sink"
    BY <1>0, <1>8 DEF Opposed
  <2>3. \A r \in Peers : sess'[r].held = {} /\ sess'[r].certs = {} /\ sess'[r].ancestry = {}
    BY <1>0, <1>8, <1>9
  <2>4. \A r \in Peers : sess'[r].role = "source" <=> sess'[Other(r)].role = "sink"
    BY <2>1, <2>2, TwoPeers
  <2>5. \A r \in Peers : \A i \in DOMAIN Stream(r)' :
           Stream(r)'[i].cmd \notin {"send_data", "data", "nonexistant"}
    BY <1>0, <1>10
  <2>6. sess'["client"].role = conf'.role["client"]
    BY <1>0, <2>1 DEF Opposed, Confirmed
  <2> QED  BY <2>3, <2>4, <2>5, <2>6 DEF Opposed
<1>14. \A r \in Peers : sess'[r].had_refinements = {} /\ sess'[r].tree_is_done = {}
  BY <1>0, <1>8, <1>9
<1>15. Roots'
  <2>1. \A r \in Peers, t \in Types : \A x \in sess'[r].tree[t] : TypeOf(x) = t
    <3>1. \A r \in Peers : sess'[r].tree = sess[r].tree
      BY <1>0, <1>8, <1>t
    <3> QED  BY <3>1 DEF Roots
  <2>2. ASSUME NEW r \in Peers, NEW t \in Types, NEW i \in DOMAIN Stream(r)', IsRefine(r, i, t)'
        PROVE  /\ r = "server" /\ Stream(r)'[i].items = sess'["client"].tree[t]
               /\ \A o \in Peers : t \notin sess'[o].tree_is_done \cup sess'[o].had_refinements
               /\ \A j \in DOMAIN Stream(r)' : IsRefine(r, j, t)' => j = i
               /\ \A j \in DOMAIN Stream(r)' : IsDone(r, j, t)' => j > i
               /\ \E j \in DOMAIN Stream(r)' : IsDone(r, j, t)'
               /\ \A j \in DOMAIN Stream(r)' : Stream(r)'[j].cmd = "data" => j > i
               /\ ~sess'[r].error
    <3>1. r = q
      BY <1>0, <1>10, <2>2
    <3>2. i = at(t) + n /\ i \in Nat
      BY <1>10, <2>2, <3>1
    <3>3. \A j : IsDone(q, j, t)' => j > i
      BY <1>1, <1>3, <1>10, <3>2
    <3>4. sess'["client"].tree = tree /\ ~sess'[q].error /\ q = "server"
      BY <1>0, <1>8
    <3>5. Stream(q)'[i].items = tree[t] /\ \E j \in DOMAIN Stream(q)' : IsDone(q, j, t)'
      BY <1>11, <3>2
    <3>6. \A j : IsRefine(q, j, t)' => j = i
      BY <1>10, <3>2
    <3> QED  BY <1>10, <1>14, <3>1, <3>3, <3>4, <3>5, <3>6
  <2> QED  BY <2>1, <2>2 DEF Roots
<1>16. Markers'
  <2>1. \A r, o \in Peers, t \in Types : \A i \in DOMAIN Stream(r)', j \in DOMAIN Stream(o)' :
          IsDone(r, i, t)' /\ IsDone(o, j, t)' => r = o /\ i = j
    BY <1>0, <1>10
  <2>2. \A t \in Types : \E j \in DOMAIN Stream("server")' : IsRefine("server", j, t)'
    BY <1>0, <1>11
  <2>3. \A t \in Types : \A i : ~IsDone("client", i, t)'
    BY <1>0, <1>10
  <2> QED  BY <1>14, <2>1, <2>2, <2>3 DEF Markers, Peers
<1>17. Traffic'
  <2>1. \A r \in Peers, t \in Types : \A i \in DOMAIN Stream(r)' : ~IsRequest(r, i, t)' /\ ~IsData(r, i, t)'
    BY <1>0, <1>10 DEF IsRequest, IsData
  <2> QED  BY <2>1 DEF Traffic, Peers
<1>18. EpochsMet'
  <2>1. ~RootSeen'
    <3>1. "epoch" \in Types
      BY DEF Types
    <3> QED  BY <1>0, <1>11, <3>1 DEF RootSeen
  <2>2. \A i : ~IsDone("client", i, "epoch")'
    BY <1>0, <1>10 DEF Types
  <2>3. ASSUME NEW r \in Peers
        PROVE  /\ sess'[r].tree["epoch"] \subseteq Epochs
               /\ sess'[r].live => sess'[r].tree["epoch"] \subseteq {db'[r].epoch}
               /\ Going(r)' => sess'[r].received \cap Epochs \subseteq {db'[r].epoch}
               /\ ~sess'[r].valve
    <3>1. /\ sess'[r].tree = sess[r].tree /\ sess'[r].live = sess[r].live /\ sess'[r].error = sess[r].error
          /\ sess'[r].received = sess[r].received /\ db'[r].epoch = db[r].epoch /\ ~sess'[r].valve
      BY <1>0, <1>8, <1>9, <1>t
    <3>2. /\ sess[r].tree["epoch"] \subseteq Epochs
          /\ sess[r].live => sess[r].tree["epoch"] \subseteq {db[r].epoch}
          /\ Going(r) => sess[r].received \cap Epochs \subseteq {db[r].epoch}
      BY DEF EpochsMet
    <3> QED  BY <3>1, <3>2 DEF Going
  <2>4. "client" \in Peers
    BY DEF Peers
  <2> QED  BY <1>14, <2>1, <2>2, <2>3, <2>4 DEF EpochsMet
<1>19. EpochLeads'
  <2>1. ~RootSeen
    BY <1>0, <1>8 DEF RootSeen
  <2>2. sess'[q].requested = {} /\ KeepsNothing(q)'
    BY <1>0, <1>8, <1>9, <2>1 DEF EpochLeads, KeepsNothing
  <2>3. \A r \in Peers : \A x, y \in sess'[r].tree["epoch"] : x = y
    <3>1. \A r \in Peers : sess'[r].tree = sess[r].tree
      BY <1>0, <1>8, <1>t
    <3> QED  BY <3>1 DEF EpochLeads
  <2>4. ~RootSeen'
    BY <1>0, <1>11 DEF RootSeen, Types
  <2>5. \A i \in DOMAIN Stream(p)' : ~Exchanged(Stream(p)'[i])
    BY <1>5
  <2>6. ASSUME NEW i \in DOMAIN Stream(q)', Exchanged(Stream(q)'[i])
        PROVE  \E j \in DOMAIN Stream(q)' : j <= i /\ IsRefine(q, j, "epoch")'
    <3>1. i \in Nat /\ i - n \in 1..6
      BY <1>6, <2>6
    <3>2. "epoch" \in Types /\ at("epoch") = 1
      BY DEF Types, at
    <3>3. 1 + n \in DOMAIN Stream(q)' /\ IsRefine(q, 1 + n, "epoch")' /\ 1 + n <= i
      BY <1>1, <1>11, <3>1, <3>2
    <3> QED  BY <3>3
  <2>7. \A i \in DOMAIN Stream(q)' : Stream(q)'[i].cmd # "data"
    BY <1>10
  <2> QED  BY <1>0, <2>2, <2>3, <2>4, <2>5, <2>6, <2>7 DEF EpochLeads
<1> QED  BY <1>12, <1>13, <1>15, <1>16, <1>17, <1>18, <1>19
-----------------------------------------------------------------------------
(* What a step writes.                                                     *)

LEMMA NothingWritten ==
  ASSUME \A r \in Peers : db'[r].items \subseteq db[r].items \cup {ServerKey} \cup foreign'
  PROVE  WritesKnown
  BY DEF WritesKnown

LEMMA ReplyWrites ==
  ASSUME NEW p \in Peers, NEW s \in Sessions, NEW epoch, Left(p, s, epoch), TypeOK,
         ~sess[p].error /\ s.valve /\ s.held # {} => EpochKnown(p)
  PROVE  WritesKnown
<1> DEFINE old == db[p].items
           h == s.held
<1>0. Other(p) \in Peers /\ Other(p) # p /\ Peers = {p, Other(p)}
  BY TwoPeers
<1>1. /\ db'[Other(p)] = db[Other(p)]
      /\ db'[p].items = IF s.valve THEN Written(old, h) ELSE old
  BY DEF Left
<1>2. old \in SUBSET Items /\ h \in SUBSET Items
  BY DEF TypeOK, Databases, Sessions
<1> HIDE DEF old, h
<1>3. Written(old, h) \subseteq old \cup h
  BY <1>2, WrittenClosed
<1>4. (s.valve /\ h # {}) \/ db'[p].items \subseteq old
  BY <1>1, <1>3
<1> QED  BY <1>0, <1>1, <1>4 DEF WritesKnown, old, h

(* The valve of a client opens when the epochs are done; a server that     *)
(* lacks the client's epoch has nothing to write.                          *)
LEMMA ValveWrites ==
  ASSUME Inv, NEW p \in Peers, sess["client"].authenticated, sess[p].live,
         NEW s \in Sessions, NEW epoch, Left(p, s, epoch),
         sess[p].role = "source" => s.held = {},
         s.valve =>
           sess[p].valve \/ "epoch" \in sess[p].tree_is_done \/ IsDone(p, 1, "epoch"),
         1 \in DOMAIN Stream(p), \A i \in DOMAIN Stream(p) : i \in Nat \ {0},
         KeepsNothing(p) => s.held = {} \/ (Stream(p)[1].cmd = "data" /\ Stream(p)[1].item \notin Epochs)
  PROVE  WritesKnown
<1>1. TypeOK /\ EpochsMet /\ EpochLeads
  BY DEF Inv
<1>2. SUFFICES ASSUME ~sess[p].error, s.valve, s.held # {} PROVE EpochKnown(p)
  BY <1>1, ReplyWrites
<1>3. Going(p) /\ IsSink(p)
  <2>1. sess[p].role \in {"source", "sink", "both"}
    BY <1>1 DEF TypeOK, Sessions
  <2> QED  BY <1>2, <2>1 DEF Going, IsSink
<1>4. CASE p = "client"
  <2>1. CASE sess[p].valve
    BY <1>1, <1>3, <2>1 DEF EpochsMet
  <2>2. CASE "epoch" \in sess[p].tree_is_done
    BY <1>1, <1>3, <1>4, <2>2 DEF EpochsMet
  <2>3. CASE IsDone(p, 1, "epoch")
    <3>1. \A x \in sess["server"].tree["epoch"] : x = db["client"].epoch
            \/ \E j \in DOMAIN Stream("client") : j < 1 /\ DataFor("client", j, x)
      BY <1>1, <1>3, <1>4, <2>3 DEF EpochsMet
    <3>2. \A j \in DOMAIN Stream("client") : ~(j < 1)
      BY <1>4
    <3> QED  BY <1>4, <3>1, <3>2 DEF EpochKnown, Other
  <2> QED  BY <1>2, <2>1, <2>2, <2>3
<1>5. CASE p = "server"
  <2>1. SUFFICES ASSUME NEW x \in sess["client"].tree["epoch"], x # db["server"].epoch PROVE FALSE
    BY <1>5 DEF EpochKnown, Other
  <2>2. x \in Epochs /\ Owed(x)
    BY <1>1, <1>3, <1>5, <2>1 DEF EpochsMet, Owed, Peers
  <2>3. /\ KeepsNothing(p)
        /\ \A i \in DOMAIN Stream(p) : Stream(p)[i].cmd = "data" =>
             \E j \in DOMAIN Stream(p) : j <= i /\ DataFor(p, j, x)
    BY <1>1, <1>5, <2>2 DEF EpochLeads
  <2>4. Stream(p)[1].cmd = "data" /\ Stream(p)[1].item \notin Epochs
    BY <1>2, <2>3
  <2>5. PICK j \in DOMAIN Stream(p) : j <= 1 /\ DataFor(p, j, x)
    BY <2>3, <2>4
  <2>6. j = 1
    BY <2>5
  <2> QED  BY <2>2, <2>4, <2>5, <2>6 DEF DataFor
<1> QED  BY <1>4, <1>5 DEF Peers
-----------------------------------------------------------------------------
(* Steps that handle no command: the connection or the process ends,       *)
(* commands are read, another session writes.                              *)

LEMMA IdleStep ==
  ASSUME NEW p \in Peers, NEW k, Idle(p, k), TypeOK, Authentication, Opposed, Roots, Markers, Traffic,
         EpochsMet, EpochLeads
  PROVE  Authentication' /\ Opposed' /\ Roots' /\ Markers' /\ Traffic' /\ EpochsMet' /\ EpochLeads'
<1> DEFINE q == Other(p)
<1>0. q \in Peers /\ q # p /\ Peers = {p, q}
  BY TwoPeers
<1>1. Flow(p, k, <<>>) /\ k \in Nat /\ conf' = conf /\ \A r \in Peers : Unhandled(r)
  BY DEF Idle, Flow
<1>2. /\ sess'[q] = sess[q] /\ db'[q].epoch = db[q].epoch
      /\ sess'[p].live => sess[p].live /\ db'[p].epoch = db[p].epoch
      /\ k > 0 => ~Going(p)'
      /\ \A i \in DOMAIN Stream(p) : i <= k /\ Stream(p)[i].cmd = "refine" => DOMAIN Stream(p)' = {}
  BY DEF Idle
<1>3. "client" \in Peers /\ "server" \in Peers /\ DOMAIN <<>> = {}
  BY DEF Peers
<1> HIDE DEF q
<1>4. Going(p)' => Going(p)
  BY <1>1, <1>2 DEF Going, Unhandled
<1>5. CASE sess["client"].authenticated
  <2>1. Settled
    BY <1>1, <1>3, <1>5 DEF Settled, Unhandled, Authentication
  <2>2. Plain(p, k, <<>>)
    BY <1>1, <1>2, <1>3, <2>1 DEF Plain, Unhandled
  <2>3. InRole(p, <<>>)
    BY <1>1, <1>3 DEF InRole, Opposed, Unhandled
  <2>4. Roots'
    BY <2>2, PlainRoots
  <2>5. RootSeen' /\ Going("server")' => RootSeen
    <3> SUFFICES ASSUME RootSeen', Going("server")', NEW i \in DOMAIN Stream("server"),
                        IsRefine("server", i, "epoch")
                 PROVE  FALSE
      BY <1>5 DEF RootSeen
    <3>1. CASE p = "server"
      <4>1. k = 0
        BY <1>1, <1>2, <3>1
      <4>2. i \in Nat /\ i > k /\ i - k = i
        BY <1>1, <3>1, <4>1 DEF Flow
      <4>3. i \in DOMAIN Stream(p)'
        <5>1. \A j \in DOMAIN Stream(p) : j > k => j - k \in DOMAIN Stream(p)'
          BY <1>1 DEF Flow
        <5> QED  BY <3>1, <4>2, <5>1
      <4>4. i + k = i /\ Stream(p)'[i] = Stream(p)[i + k]
        BY <1>1, <4>1, <4>2, <4>3 DEF Flow
      <4>5. IsRefine("server", i, "epoch")'
        BY <3>1, <4>3, <4>4 DEF IsRefine
      <4> QED  BY <3>1, <4>3, <4>5 DEF RootSeen
    <3>2. CASE q = "server"
      <4>1. i \in DOMAIN Stream(q)' /\ Stream(q)'[i] = Stream(q)[i]
        BY <1>1, <3>2 DEF Flow, q
      <4>2. IsRefine("server", i, "epoch")'
        BY <3>2, <4>1 DEF IsRefine
      <4> QED  BY <3>2, <4>1, <4>2 DEF RootSeen
    <3> QED  BY <1>0, <1>3, <3>1, <3>2
  <2>6. EpochStep(p, k, <<>>)
    <3>1. Going(p)' => \A j \in DOMAIN Stream(p) : ~(j <= k)
      <4> SUFFICES ASSUME Going(p)', NEW j \in DOMAIN Stream(p) PROVE ~(j <= k)
        OBVIOUS
      <4>1. k = 0 /\ j \in Nat \ {0}
        BY <1>1, <1>2 DEF Flow
      <4> QED  BY <4>1
    <3>2. /\ sess'[p].tree_is_done = sess[p].tree_is_done /\ sess'[p].valve = sess[p].valve
          /\ sess'[p].requested = sess[p].requested /\ sess'[p].received = sess[p].received
      BY <1>1 DEF Unhandled
    <3> QED  BY <1>1, <1>2, <1>3, <1>4, <2>1, <2>5, <3>1, <3>2 DEF EpochStep, q
  <2>12. LeadStep(p, k, <<>>)
    <3>1. \A j, x : j \in DOMAIN Stream(p) /\ j <= k => ~Going(p)'
      BY <1>1, <1>2 DEF Flow
    <3>2. p = "server" =>
            /\ KeepsNothing(p) => KeepsNothing(p)'
            /\ sess'[p].requested = sess[p].requested
      BY <1>1 DEF KeepsNothing, Unhandled
    <3>3. p = "server" /\ ~RootSeen /\ RootSeen' => ~Going(p)'
      BY <2>5
    <3> QED  BY <1>3, <2>6, <3>1, <3>2, <3>3 DEF LeadStep
  <2>13. EpochLeads'
    BY <2>12, LeadsKept
  <2>7. Authentication'
    BY <2>1, SettledAuthentication
  <2>8. Opposed'
    BY <1>1, <2>1, <2>3, SettledOpposed
  <2>9. Markers'
    BY <2>2, PlainMarkers
  <2>10. Traffic'
    BY <2>2, PlainTraffic
  <2>11. EpochsMet'
    BY <2>4, <2>6, SettledEpochs
  <2> QED  BY <2>4, <2>7, <2>8, <2>9, <2>10, <2>11, <2>13
<1>6. CASE ~sess["client"].authenticated
  <2>1. ASSUME NEW r \in Peers
        PROVE  /\ sess'[r].tree["epoch"] \subseteq Epochs
               /\ sess'[r].live => sess'[r].tree["epoch"] \subseteq {db'[r].epoch}
               /\ Going(r)' => sess'[r].received \cap Epochs \subseteq {db'[r].epoch}
    <3>1. /\ sess[r].tree["epoch"] \subseteq Epochs
          /\ sess[r].live => sess[r].tree["epoch"] \subseteq {db[r].epoch}
          /\ Going(r) => sess[r].received \cap Epochs \subseteq {db[r].epoch}
      BY DEF EpochsMet
    <3>2. /\ sess'[r].tree = sess[r].tree /\ sess'[r].received = sess[r].received
          /\ sess'[r].error = sess[r].error
          /\ sess'[r].live => sess[r].live /\ db'[r].epoch = db[r].epoch
      BY <1>0, <1>1, <1>2 DEF Unhandled
    <3> QED  BY <3>1, <3>2 DEF Going
  <2>2. /\ \A r \in Peers :
             /\ sess[r].had_refinements = {} /\ sess[r].tree_is_done = {}
             /\ sess[r].held = {} /\ sess[r].certs = {} /\ sess[r].ancestry = {} /\ ~sess[r].valve
        /\ ~sess["client"].error
    BY <1>6 DEF Authentication
  <2>3. \A r \in Peers : \A t \in Types : \A x \in sess'[r].tree[t] : TypeOf(x) = t
    BY <1>1 DEF Roots, Unhandled
  <2>4. sess'["server"].authenticated =>
           \A r \in Peers : sess'[r].role = "source" <=> sess'[Other(r)].role = "sink"
    BY <1>1, <1>3, TwoPeers DEF Opposed, Unhandled
  <2>5. \A r \in Peers :
           /\ sess'[r].had_refinements = {} /\ sess'[r].tree_is_done = {}
           /\ sess'[r].held = {} /\ sess'[r].certs = {} /\ sess'[r].ancestry = {} /\ ~sess'[r].valve
    BY <1>1, <2>2 DEF Unhandled
  <2>7. sess'["server"].requested = {} /\ \A r \in Peers : \A x, y \in sess'[r].tree["epoch"] : x = y
    BY <1>1, <1>3, <1>6 DEF EpochLeads, RootSeen, Unhandled
  <2>6. Quiet(p, k, <<>>)
    BY <1>1, <1>3, <1>6, <2>1, <2>2, <2>3, <2>4, <2>5, <2>7 DEF Quiet, Unhandled
  <2> QED  BY <2>6, QuietStep
<1> QED  BY <1>5, <1>6

LEMMA SequenceFacts ==
  ASSUME NEW a \in Seq(Messages)
  PROVE  /\ Len(a) \in Nat /\ DOMAIN a = 1..Len(a) /\ \A i \in DOMAIN a : a[i] \in Messages
         /\ \A i \in DOMAIN a : i \in Nat \ {0} /\ i <= Len(a)
<1>1. Len(a) \in Nat /\ DOMAIN a = 1..Len(a) /\ \A i \in DOMAIN a : a[i] \in Messages
  BY LenProperties, ElementOfSeq
<1> QED  BY <1>1

LEMMA StreamsTyped ==
  ASSUME TypeOK, NEW p \in Peers
  PROVE  Stream(p) \in Seq(Messages)
<1> DEFINE a == inbuf[p]
           b == net[p]
<1>1. a \in Seq(Messages) /\ b \in Seq(Messages) /\ Stream(p) = a \o b
  BY DEF TypeOK, Stream
<1> HIDE DEF a, b
<1> QED  BY <1>1, ConcatProperties

LEMMA SameFlow ==
  ASSUME TypeOK, NEW p \in Peers, \A r \in Peers : Stream(r)' = Stream(r)
  PROVE  Flow(p, 0, <<>>)
<1> DEFINE q == Other(p)
           a == Stream(p)
           b == Stream(q)
<1>0. q \in Peers
  BY TwoPeers
<1>1. a \in Seq(Messages) /\ b \in Seq(Messages) /\ Stream(p)' = a /\ Stream(q)' = b
  BY <1>0, StreamsTyped
<1> HIDE DEF a, b
<1>2. /\ \A i \in DOMAIN a : a[i] \in Messages /\ i \in Nat \ {0}
      /\ \A i \in DOMAIN b : b[i] \in Messages /\ i \in Nat \ {0} /\ i <= Len(b)
      /\ Len(b) \in Nat
  BY <1>1, SequenceFacts
<1>3. /\ \A i \in DOMAIN a : i + 0 = i /\ i - 0 = i
      /\ <<>> \in Seq(Messages) /\ DOMAIN <<>> = {} /\ 0 \in Nat
  BY <1>2
<1> QED  BY <1>1, <1>2, <1>3 DEF Flow, a, b

LEMMA EndFlow ==
  ASSUME TypeOK, NEW p \in Peers, Stream(p)' = <<>>, Stream(Other(p))' = Stream(Other(p))
  PROVE  Flow(p, Len(Stream(p)), <<>>) /\ DOMAIN Stream(p)' = {}
<1> DEFINE q == Other(p)
           a == Stream(p)
           b == Stream(q)
<1>0. q \in Peers
  BY TwoPeers
<1>1. a \in Seq(Messages) /\ b \in Seq(Messages) /\ Stream(p)' = <<>> /\ Stream(q)' = b
  BY <1>0, StreamsTyped
<1> HIDE DEF a, b
<1>2. /\ \A i \in DOMAIN a : a[i] \in Messages /\ i \in Nat \ {0} /\ i <= Len(a)
      /\ \A i \in DOMAIN b : b[i] \in Messages /\ i \in Nat \ {0} /\ i <= Len(b)
      /\ Len(b) \in Nat /\ Len(a) \in Nat
  BY <1>1, SequenceFacts
<1>3. /\ \A i \in DOMAIN a : ~(i > Len(a))
      /\ <<>> \in Seq(Messages) /\ DOMAIN <<>> = {}
  BY <1>2
<1> QED  BY <1>1, <1>2, <1>3 DEF Flow, a, b

LEMMA DropFlow ==
  ASSUME TypeOK, NEW p \in Peers, NEW k \in Nat, k <= Len(Stream(p)),
         Stream(p)' = SubSeq(Stream(p), k + 1, Len(Stream(p))), Stream(Other(p))' = Stream(Other(p))
  PROVE  Flow(p, k, <<>>)
<1> DEFINE q == Other(p)
           a == Stream(p)
           b == Stream(q)
           n == Len(a)
           aa == Stream(p)'
<1>0. q \in Peers
  BY TwoPeers
<1>1. a \in Seq(Messages) /\ b \in Seq(Messages) /\ aa = SubSeq(a, k + 1, n) /\ Stream(q)' = b
      /\ k <= n
  BY <1>0, StreamsTyped
<1> HIDE DEF a, b, aa
<1>2. /\ \A i \in DOMAIN a : a[i] \in Messages /\ i \in Nat \ {0} /\ i <= n
      /\ \A i \in DOMAIN b : b[i] \in Messages /\ i \in Nat \ {0} /\ i <= Len(b)
      /\ Len(b) \in Nat /\ n \in Nat /\ DOMAIN a = 1..n
  BY <1>1, SequenceFacts
<1>3. aa \in Seq(Messages) /\ Len(aa) = n - k /\ \A i \in 1..(n - k) : aa[i] = a[k + i]
  <2>1. k + 1 \in 1..(n + 1) /\ n \in k..n
    BY <1>1, <1>2
  <2>2. CASE k = n
    <3>1. aa = <<>>
      BY <1>1, <1>2, <2>2, SubSeqProperties
    <3> QED  BY <1>2, <2>2, <3>1
  <2>3. CASE k < n
    <3>1. k + 1 \in 1..n /\ n \in (k + 1)..n /\ (n - (k + 1)) + 1 = n - k
          /\ \A i \in 1..(n - k) : (k + 1) + i - 1 = k + i /\ k + i \in 1..n
      BY <1>2, <2>3
    <3> HIDE DEF n
    <3>2. aa = [i \in 1..(n - k) |-> a[k + i]]
      BY <1>1, <1>2, <3>1, SMTT(30)
    <3>3. aa \in [1..(n - k) -> Messages] /\ n - k \in Nat
      BY <1>2, <2>3, <3>1, <3>2
    <3>4. aa \in Seq(Messages) /\ Len(aa) = n - k
      <4> DEFINE m == n - k
      <4>1. aa \in [1..m -> Messages] /\ m \in Nat
        BY <3>3
      <4> HIDE DEF m
      <4>2. aa \in Seq(Messages) /\ Len(aa) = m
        BY <4>1
      <4> QED  BY <4>2 DEF m
    <3> QED  BY <3>2, <3>4
  <2>4. k = n \/ k < n
    <3>1. k \in Nat /\ n \in Nat /\ k <= n
      BY <1>1, <1>2
    <3> HIDE DEF n, aa
    <3> QED  BY <3>1
  <2> HIDE DEF n
  <2> QED  BY <2>2, <2>3, <2>4
<1> HIDE DEF n
<1>4. DOMAIN aa = 1..(n - k)
  <2>1. DOMAIN aa = 1..Len(aa)
    BY <1>3, LenProperties
  <2> QED  BY <1>3, <2>1
<1>5. /\ \A i \in DOMAIN aa : i \in Nat \ {0} /\ i + k \in DOMAIN a /\ aa[i] = a[i + k]
      /\ \A i \in DOMAIN a : i > k => i - k \in DOMAIN aa
  <2>1. \A i \in DOMAIN aa : i \in Nat \ {0} /\ i + k \in DOMAIN a /\ i + k = k + i
    BY <1>1, <1>2, <1>4
  <2>2. \A i \in DOMAIN a : i > k => i - k \in DOMAIN aa
    BY <1>1, <1>2, <1>4
  <2> QED  BY <1>3, <1>4, <2>1, <2>2
<1>6. <<>> \in Seq(Messages) /\ DOMAIN <<>> = {}
  OBVIOUS
<1> QED  BY <1>1, <1>2, <1>5, <1>6 DEF Flow, a, b, aa

LEMMA CloseStep ==
  ASSUME Inv, NEW p \in Peers, Close(p)
  PROVE  Inv' /\ WritesKnown /\ Uneventful(p)
<1> DEFINE q == Other(p)
           new == [sess[p] EXCEPT !.live = FALSE]
<1>0. q \in Peers /\ q # p /\ Peers = {p, q}
  BY TwoPeers
<1>1. TypeOK /\ DatabaseClosed /\ sess[p] \in Sessions
  BY DEF Inv, TypeOK
<1>2. /\ sess' = [sess EXCEPT ![p] = new] /\ disk' = [disk EXCEPT ![p] = db[p]]
      /\ net' = [net EXCEPT ![p] = <<>>] /\ inbuf' = [inbuf EXCEPT ![p] = <<>>]
      /\ conf' = conf /\ db' = db /\ foreign' = foreign
  BY DEF Close
<1>3. /\ new \in Sessions /\ new.live = FALSE /\ new.role = sess[p].role /\ new.tree = sess[p].tree
      /\ new.authenticated = sess[p].authenticated /\ new.valve = sess[p].valve
      /\ new.had_refinements = sess[p].had_refinements
      /\ new.tree_is_done = sess[p].tree_is_done
      /\ new.requested = sess[p].requested /\ new.received = sess[p].received
      /\ new.certs = sess[p].certs /\ new.ancestry = sess[p].ancestry
      /\ new.held = sess[p].held /\ new.error = sess[p].error
      /\ new.analyzed = sess[p].analyzed /\ new.sent_goodbye = sess[p].sent_goodbye
      /\ new.crashed = sess[p].crashed
  BY <1>1 DEF Sessions
<1> HIDE DEF new, q
<1>4. TypeOK'
  BY <1>1, <1>2, <1>3 DEF TypeOK
<1>5. DatabaseClosed'
  BY <1>1, <1>2 DEF DatabaseClosed, TypeOK
<1>6. sess'[p] = new /\ sess'[q] = sess[q]
  BY <1>0, <1>1, <1>2 DEF TypeOK
<1>7. Stream(p)' = <<>> /\ Stream(q)' = Stream(q)
  <2>1. inbuf'[p] = <<>> /\ net'[p] = <<>> /\ inbuf'[q] = inbuf[q] /\ net'[q] = net[q]
    BY <1>0, <1>1, <1>2 DEF TypeOK
  <2>2. <<>> \o <<>> = <<>>
    OBVIOUS
  <2> QED  BY <2>1, <2>2 DEF Stream
<1>8. Flow(p, Len(Stream(p)), <<>>) /\ DOMAIN Stream(p)' = {}
  BY <1>1, <1>7, EndFlow DEF q
<1>9. \A r \in Peers : Unhandled(r)
  BY <1>0, <1>3, <1>6 DEF Unhandled
<1>10. Idle(p, Len(Stream(p)))
  BY <1>2, <1>3, <1>6, <1>8, <1>9 DEF Idle, Going, q
<1>11. Authentication' /\ Opposed' /\ Roots' /\ Markers' /\ Traffic' /\ EpochsMet' /\ EpochLeads'
  BY <1>10, IdleStep DEF Inv
<1>12. Committed'
  BY <1>0, <1>1, <1>2 DEF Inv, Committed, TypeOK
<1>13. WritesKnown
  BY <1>2, NothingWritten
<1>14. Uneventful(p)
  <2>1. /\ disk'[p] = db[p] /\ disk'[q] = disk[q] /\ disk[p].items \subseteq db[p].items
    BY <1>0, <1>1, <1>2 DEF Inv, Committed, TypeOK
  <2> QED  BY <1>0, <1>2, <1>3, <1>6, <1>10, <2>1 DEF Uneventful
<1> QED  BY <1>4, <1>5, <1>11, <1>12, <1>13, <1>14 DEF Inv

LEMMA CrashStep ==
  ASSUME Inv, NEW p \in Peers, Crash(p)
  PROVE  Inv' /\ WritesKnown /\ Uneventful(p)
<1> DEFINE q == Other(p)
           new == [sess[p] EXCEPT !.live = FALSE, !.crashed = TRUE]
<1>0. q \in Peers /\ q # p /\ Peers = {p, q}
  BY TwoPeers
<1>1. TypeOK /\ DatabaseClosed /\ sess[p] \in Sessions /\ sess \in [Peers -> Sessions]
  BY DEF Inv, TypeOK
<1>2. /\ sess' = [sess EXCEPT ![p].live = FALSE, ![p].crashed = TRUE]
      /\ db' = [db EXCEPT ![p] = disk[p]]
      /\ net' = [net EXCEPT ![p] = <<>>] /\ inbuf' = [inbuf EXCEPT ![p] = <<>>]
      /\ conf' = conf /\ disk' = disk /\ foreign' = foreign
  BY DEF Crash
<1>3. /\ new \in Sessions /\ new.live = FALSE /\ new.role = sess[p].role /\ new.tree = sess[p].tree
      /\ new.authenticated = sess[p].authenticated /\ new.valve = sess[p].valve
      /\ new.had_refinements = sess[p].had_refinements
      /\ new.tree_is_done = sess[p].tree_is_done
      /\ new.requested = sess[p].requested /\ new.received = sess[p].received
      /\ new.certs = sess[p].certs /\ new.ancestry = sess[p].ancestry
      /\ new.held = sess[p].held /\ new.error = sess[p].error
      /\ new.analyzed = sess[p].analyzed /\ new.sent_goodbye = sess[p].sent_goodbye
      /\ new.crashed = TRUE
  BY <1>1 DEF Sessions
<1>6. sess'[p] = new /\ sess'[q] = sess[q] /\ sess' = [sess EXCEPT ![p] = new]
  BY <1>0, <1>1, <1>2
<1> HIDE DEF new, q
<1>4. TypeOK'
  BY <1>1, <1>2, <1>3, <1>6 DEF TypeOK
<1>5. DatabaseClosed'
  BY <1>1, <1>2 DEF DatabaseClosed, TypeOK
<1>7. Stream(p)' = <<>> /\ Stream(q)' = Stream(q)
  <2>1. inbuf'[p] = <<>> /\ net'[p] = <<>> /\ inbuf'[q] = inbuf[q] /\ net'[q] = net[q]
    BY <1>0, <1>1, <1>2 DEF TypeOK
  <2>2. <<>> \o <<>> = <<>>
    OBVIOUS
  <2> QED  BY <2>1, <2>2 DEF Stream
<1>8. Flow(p, Len(Stream(p)), <<>>) /\ DOMAIN Stream(p)' = {}
  BY <1>1, <1>7, EndFlow DEF q
<1>9. \A r \in Peers : Unhandled(r)
  BY <1>0, <1>3, <1>6 DEF Unhandled
<1>10. db'[q].epoch = db[q].epoch /\ conf' = conf
  BY <1>0, <1>1, <1>2 DEF TypeOK
<1>11. Idle(p, Len(Stream(p)))
  BY <1>3, <1>6, <1>8, <1>9, <1>10 DEF Idle, Going, q
<1>12. Authentication' /\ Opposed' /\ Roots' /\ Markers' /\ Traffic' /\ EpochsMet' /\ EpochLeads'
  BY <1>11, IdleStep DEF Inv
<1>13. Committed'
  BY <1>0, <1>1, <1>2 DEF Inv, Committed, TypeOK
<1>14. WritesKnown
  <2>1. \A r \in Peers : db'[r].items \subseteq db[r].items
    BY <1>0, <1>1, <1>2 DEF Inv, Committed, TypeOK
  <2> QED  BY <2>1, NothingWritten
<1>15. Uneventful(p)
  <2>1. /\ db'[p] = disk[p] /\ db'[q] = db[q] /\ disk[p].items \subseteq db[p].items
    BY <1>0, <1>1, <1>2 DEF Inv, Committed, TypeOK
  <2> QED  BY <1>0, <1>2, <1>3, <1>6, <1>11, <2>1 DEF Uneventful
<1> QED  BY <1>4, <1>5, <1>12, <1>13, <1>14, <1>15 DEF Inv

LEMMA WritesStep ==
  ASSUME Inv, NEW x \in Items, OtherSessionWrites(x)
  PROVE  Inv' /\ WritesKnown /\ \E p \in Peers : Uneventful(p)
<1>1. TypeOK /\ DatabaseClosed
  BY DEF Inv
<1>2. PICK p \in Peers : p = "server"
  BY DEF Peers
<1> DEFINE q == Other(p)
           D == [db[p] EXCEPT !.items = @ \cup {x}]
<1>0. q \in Peers /\ q # p /\ Peers = {p, q}
  BY TwoPeers
<1>3. /\ Needs(x) \subseteq db[p].items
      /\ db' = [db EXCEPT ![p] = D] /\ disk' = [disk EXCEPT ![p] = db'[p]]
      /\ conf' = conf /\ sess' = sess /\ net' = net /\ inbuf' = inbuf
  BY <1>2 DEF OtherSessionWrites
<1>4. D \in Databases /\ D.epoch = db[p].epoch /\ D.items = db[p].items \cup {x}
  BY <1>1 DEF TypeOK, Databases
<1>5. Closure(D.items)
  BY <1>1, <1>3, <1>4 DEF Closure, DatabaseClosed
<1> HIDE DEF D, q
<1>6. /\ db'[p] = D /\ db'[q] = db[q] /\ disk'[p] = D /\ disk'[q] = disk[q]
      /\ db' \in [Peers -> Databases] /\ disk' \in [Peers -> Databases]
  BY <1>0, <1>1, <1>3, <1>4 DEF TypeOK
<1>7. TypeOK'
  BY <1>1, <1>3, <1>6 DEF TypeOK
<1>8. DatabaseClosed'
  BY <1>0, <1>1, <1>5, <1>6 DEF DatabaseClosed
<1>9. \A r \in Peers : Stream(r)' = Stream(r)
  BY <1>3 DEF Stream
<1>10. Flow(p, 0, <<>>)
  BY <1>1, <1>9, SameFlow
<1>11. \A i \in DOMAIN Stream(p) : ~(i <= 0)
  BY <1>10 DEF Flow
<1>12. Idle(p, 0)
  BY <1>3, <1>4, <1>6, <1>10, <1>11 DEF Idle, Unhandled, q
<1>13. Authentication' /\ Opposed' /\ Roots' /\ Markers' /\ Traffic' /\ EpochsMet' /\ EpochLeads'
  BY <1>12, IdleStep DEF Inv
<1>14. Committed'
  BY <1>0, <1>6 DEF Inv, Committed
<1>15. WritesKnown
  <2>1. x \in foreign'
    BY DEF OtherSessionWrites
  <2> QED  BY <1>0, <1>4, <1>6, <2>1, NothingWritten
<1>16. Uneventful(p)
  <2>1. foreign' = foreign \cup {x} /\ x \in conf.foreign
    BY DEF OtherSessionWrites
  <2>2. disk[p].items \subseteq db[p].items
    BY DEF Inv, Committed
  <2> QED  BY <1>0, <1>3, <1>4, <1>6, <1>12, <2>1, <2>2 DEF Uneventful
<1> QED  BY <1>7, <1>8, <1>13, <1>14, <1>15, <1>16 DEF Inv

LEMMA ReadStep ==
  ASSUME Inv, NEW p \in Peers, Read(p)
  PROVE  Inv' /\ WritesKnown /\ Uneventful(p)
<1> DEFINE q == Other(p)
           a == net[p]
<1>0. q \in Peers /\ q # p /\ Peers = {p, q}
  BY TwoPeers
<1>1. TypeOK /\ DatabaseClosed /\ a \in Seq(Messages) /\ Len(a) \in Nat /\ DOMAIN a = 1..Len(a)
  <2>1. a \in Seq(Messages)
    BY DEF Inv, TypeOK
  <2> HIDE DEF a
  <2> QED  BY <2>1, SequenceFacts DEF Inv
<1>2. PICK n \in 1..Min({MaxRead, Len(a)}) :
        /\ net' = [net EXCEPT ![p] = SubSeq(@, n + 1, Len(@))]
        /\ inbuf' = [inbuf EXCEPT ![p] = IF sess[p].error THEN <<>> ELSE SubSeq(a, 1, n)]
  BY DEF Read
<1>3. /\ inbuf[p] = <<>> /\ conf' = conf /\ db' = db /\ disk' = disk /\ sess' = sess /\ foreign' = foreign
  BY DEF Read
<1>4. n \in 1..Len(a)
  <2> DEFINE m == Min({MaxRead, Len(a)})
  <2>1. MaxRead \in Nat /\ Len(a) \in Nat
    BY <1>1, SessionConstants
  <2>2. m \in {MaxRead, Len(a)} /\ m <= Len(a)
    <3> DEFINE S == {MaxRead, Len(a)}
    <3>1. \E x \in S : \A y \in S : x <= y
      BY <2>1
    <3>2. Min(S) = CHOOSE x \in S : \A y \in S : x <= y
      BY DEF Min
    <3>3. Min(S) \in S /\ \A y \in S : Min(S) <= y
      <4> HIDE DEF S
      <4> QED  BY <3>1, <3>2
    <3> QED  BY <3>3
  <2>3. n \in 1..m
    BY <1>2
  <2> HIDE DEF m, a
  <2> QED  BY <2>1, <2>2, <2>3
<1>5. net'[p] = SubSeq(a, n + 1, Len(a)) /\ net'[q] = net[q] /\ inbuf'[q] = inbuf[q]
      /\ inbuf'[p] = IF sess[p].error THEN <<>> ELSE SubSeq(a, 1, n)
  BY <1>0, <1>1, <1>2 DEF TypeOK
<1> HIDE DEF a
<1>6. /\ SubSeq(a, n + 1, Len(a)) \in Seq(Messages) /\ SubSeq(a, 1, n) \in Seq(Messages)
      /\ SubSeq(a, 1, n) \o SubSeq(a, n + 1, Len(a)) = a /\ <<>> \o a = a
      /\ <<>> \o SubSeq(a, n + 1, Len(a)) = SubSeq(a, n + 1, Len(a))
  <2>1. /\ n \in Nat /\ 1 \in Nat /\ Len(a) \in Nat /\ n + 1 \in Nat
    BY <1>1, <1>4
  <2>2. SubSeq(a, n + 1, Len(a)) \in Seq(Messages)
    BY <1>1, <1>4, SubSeqProperties
  <2>3. SubSeq(a, 1, n) \in Seq(Messages)
    BY <1>1, <1>4, SubSeqProperties
  <2>4. SubSeq(a, 1, n) \o SubSeq(a, n + 1, Len(a)) = SubSeq(a, 1, Len(a))
    <3>1. 1 \in 1..(Len(a) + 1) /\ n \in (1 - 1)..Len(a) /\ Len(a) \in n..Len(a)
      BY <1>1, <1>4
    <3> QED  BY <1>1, <3>1, ConcatAdjacentSubSeq
  <2>5. SubSeq(a, 1, Len(a)) = a
    BY <1>1, SubSeqFull
  <2>6. <<>> \o a = a
    BY <1>1, ConcatEmptySeq
  <2>7. <<>> \o SubSeq(a, n + 1, Len(a)) = SubSeq(a, n + 1, Len(a))
    <3> DEFINE b == SubSeq(a, n + 1, Len(a))
    <3>1. b \in Seq(Messages)
      BY <2>2
    <3> HIDE DEF b
    <3>2. <<>> \o b = b
      BY <3>1, ConcatEmptySeq
    <3> QED  BY <3>2 DEF b
  <2> QED  BY <2>2, <2>3, <2>4, <2>5, <2>6, <2>7
<1>7. TypeOK'
  <2>1. net' \in [Peers -> Seq(Messages)]
    BY <1>1, <1>2, <1>6 DEF TypeOK, a
  <2>2. inbuf' \in [Peers -> Seq(Messages)]
    BY <1>1, <1>2, <1>6 DEF TypeOK
  <2> QED  BY <1>1, <1>3, <2>1, <2>2 DEF TypeOK
<1>8. DatabaseClosed'
  BY <1>1, <1>3 DEF DatabaseClosed
<1>13. Committed'
  BY <1>3 DEF Inv, Committed
<1>14. WritesKnown
  BY <1>3, NothingWritten
<1>9. \A r \in Peers : Unhandled(r)
  BY <1>3 DEF Unhandled
<1>10. Stream(p) = a /\ Stream(q)' = Stream(q)
  BY <1>3, <1>5, <1>6 DEF Stream, a
<1>11. CASE ~sess[p].error
  <2>1. Stream(p)' = a
    BY <1>5, <1>6, <1>11 DEF Stream
  <2>2. \A r \in Peers : Stream(r)' = Stream(r)
    BY <1>0, <1>10, <2>1
  <2>3. Flow(p, 0, <<>>)
    BY <1>1, <2>2, SameFlow
  <2>4. \A i \in DOMAIN Stream(p) : ~(i <= 0)
    BY <2>3 DEF Flow
  <2>5. Idle(p, 0)
    BY <1>3, <1>9, <2>3, <2>4 DEF Idle
  <2>6. Authentication' /\ Opposed' /\ Roots' /\ Markers' /\ Traffic' /\ EpochsMet' /\ EpochLeads'
    BY <2>5, IdleStep DEF Inv
  <2>7. Uneventful(p)
    BY <1>3, <2>5 DEF Uneventful
  <2> QED  BY <1>7, <1>8, <1>13, <1>14, <2>6, <2>7 DEF Inv
<1>12. CASE sess[p].error
  <2>1. Stream(p)' = SubSeq(a, n + 1, Len(a))
    BY <1>5, <1>6, <1>12 DEF Stream
  <2>2. n \in Nat /\ n <= Len(a)
    BY <1>1, <1>4
  <2>3. Flow(p, n, <<>>)
    BY <1>1, <1>10, <2>1, <2>2, DropFlow DEF q
  <2>4. \A i \in DOMAIN Stream(p) : Stream(p)[i].cmd # "refine"
    <3> SUFFICES ASSUME NEW i \in DOMAIN Stream(p), Stream(p)[i].cmd = "refine" PROVE FALSE
      OBVIOUS
    <3>1. Stream(p)[i].type \in Types
      BY <2>3 DEF Flow, Messages
    <3>2. IsRefine(p, i, Stream(p)[i].type)
      BY DEF IsRefine
    <3> QED  BY <1>12, <3>1, <3>2 DEF Inv, Roots
  <2>5. Idle(p, n)
    BY <1>3, <1>9, <1>12, <2>3, <2>4 DEF Idle, Going
  <2>6. Authentication' /\ Opposed' /\ Roots' /\ Markers' /\ Traffic' /\ EpochsMet' /\ EpochLeads'
    BY <2>5, IdleStep DEF Inv
  <2>7. Uneventful(p)
    BY <1>3, <2>5 DEF Uneventful
  <2> QED  BY <1>7, <1>8, <1>13, <1>14, <2>6, <2>7 DEF Inv
<1> QED  BY <1>11, <1>12
-----------------------------------------------------------------------------
(* Handlers of authenticated sessions that take neither a node nor a       *)
(* marker.                                                                 *)

LEMMA PlainReplyStep ==
  ASSUME Inv, NEW p \in Peers, inbuf[p] # <<>>, sess["client"].authenticated, NEW s \in Sessions,
         NEW epoch \in Epochs \cup {NoEpoch}, NEW out \in Seq(Messages), Reply(p, s, epoch, out),
         PlainReply(p, s, epoch, out)
  PROVE  Inv' /\ WritesKnown
<1> DEFINE q == Other(p)
           m == Stream(p)[1]
           o == sess[p]
<1>0. q \in Peers /\ q # p /\ Peers = {p, q}
  BY TwoPeers
<1>1. /\ TypeOK /\ DatabaseClosed /\ Committed /\ Authentication /\ Opposed /\ Roots /\ Markers
      /\ Traffic /\ EpochsMet /\ EpochLeads
      /\ Left(p, s, epoch) /\ TypeOK' /\ DatabaseClosed' /\ Committed'
  BY ReplyLeft DEF Inv
<1>2. PICK sent : Leaving(p, out, sent) /\ Flow(p, 1, sent)
  BY <1>1, ReplyFlow
<1>3. 1 \in DOMAIN Stream(p) /\ m = Head(inbuf[p]) /\ m \in Messages
  BY <1>1, ReplyFlow
<1>4. /\ s.role = o.role /\ s.tree = o.tree /\ s.authenticated = o.authenticated /\ s.live = o.live
      /\ s.had_refinements = o.had_refinements /\ s.tree_is_done = o.tree_is_done
      /\ m.cmd \notin {"refine", "done"}
      /\ o.error => s.error
      /\ s.error => o.error \/ m.cmd = "data"
      /\ \A i \in DOMAIN out :
           /\ out[i].cmd \in {"send_data", "data", "nonexistant", "error"}
           /\ out[i].cmd = "send_data" => o.role # "source" /\ TypeOf(out[i].item) \notin Types
           /\ out[i].cmd \in {"data", "nonexistant"} => o.role # "sink"
           /\ out[i].cmd = "data" => RequestFor(p, 1, out[i].item)
           /\ Exchanged(out[i]) => Exchanged(m)
      /\ o.role = "source" => s.held = {} /\ s.certs = {} /\ s.ancestry = {}
      /\ db[p].epoch \in {NoEpoch, epoch}
      /\ s.valve => o.valve \/ (s.requested \cap Epochs = {} /\ "epoch" \in s.tree_is_done)
      /\ ~s.error =>
           /\ \A x \in Epochs : x \in s.received \ o.received => epoch = x
           /\ \A x \in Epochs : x \in o.requested \ s.requested => epoch = x
           /\ m.cmd = "data" /\ m.item \in Epochs => epoch = m.item
      /\ o.live
      /\ m.cmd # "data" => s.held = o.held /\ s.certs = o.certs /\ s.ancestry = o.ancestry
      /\ ~Exchanged(m) => s.requested = o.requested
      /\ m.cmd = "send_data" /\ o.role # "sink" /\ m.item = db[p].epoch =>
           \E i \in DOMAIN out : out[i].cmd = "data" /\ out[i].item = m.item
      /\ m.cmd = "data" /\ m.item \in Epochs => s.held = o.held
  BY DEF PlainReply
<1>5. /\ conf' = conf /\ sess'[q] = sess[q] /\ db'[q] = db[q] /\ db'[p].epoch = epoch
      /\ sess'[p].live = s.live /\ sess'[p].role = s.role
      /\ sess'[p].authenticated = s.authenticated /\ sess'[p].valve = s.valve /\ sess'[p].tree = s.tree
      /\ sess'[p].had_refinements = s.had_refinements /\ sess'[p].tree_is_done = s.tree_is_done
      /\ sess'[p].requested = s.requested /\ sess'[p].received = s.received
      /\ sess'[p].certs = s.certs /\ sess'[p].ancestry = s.ancestry /\ sess'[p].error = s.error
      /\ sess'[p].held \subseteq s.held
  BY <1>1 DEF Left
<1> HIDE DEF q, m, o
<1>6. Settled
  <2>1. sess["server"].authenticated
    BY <1>1 DEF Authentication
  <2>2. \A r \in Peers : r = p \/ r = q
    BY <1>0
  <2> QED  BY <1>4, <1>5, <2>1, <2>2 DEF Settled, o
<1>7. ASSUME NEW i \in DOMAIN sent
      PROVE  /\ sent[i].cmd \in {"send_data", "data", "nonexistant", "error", "bye"}
             /\ sent[i].cmd = "send_data" => o.role # "source" /\ TypeOf(sent[i].item) \notin Types
             /\ sent[i].cmd \in {"data", "nonexistant"} => o.role # "sink"
             /\ sent[i].cmd = "data" =>
                  RequestFor(p, 1, sent[i].item) /\ IsRequest(p, 1, TypeOf(sent[i].item))
             /\ Exchanged(sent[i]) => Exchanged(m) /\ Going(p)
  <2>1. (i \in DOMAIN out /\ sent[i] = out[i]) \/ sent[i] = Simple("bye")
    BY <1>2 DEF Leaving
  <2>2. Simple("bye").cmd = "bye"
    BY SimpleCommands
  <2>3. ~o.error /\ o.live
    BY <1>2, <1>4 DEF Leaving, o
  <2>4. Going(p) /\ ~Exchanged(Simple("bye"))
    BY <2>2, <2>3 DEF Going, o, Exchanged
  <2>5. \A x : RequestFor(p, 1, x) => IsRequest(p, 1, TypeOf(x))
    BY DEF RequestFor, IsRequest
  <2> QED  BY <1>4, <2>1, <2>2, <2>4, <2>5
<1>8. \A t \in Types : IsRequest(p, 1, t) => p = "client"
  BY <1>1, <1>3 DEF Traffic, Peers
<1>9. m.cmd = "data" => \A i \in DOMAIN Stream(p)' : Stream(p)'[i].cmd # "refine"
  <2> SUFFICES ASSUME m.cmd = "data", NEW i \in DOMAIN Stream(p)', Stream(p)'[i].cmd = "refine"
               PROVE  FALSE
    OBVIOUS
  <2>1. i \in Nat \ {0} /\ i + 1 \in DOMAIN Stream(p) /\ Stream(p)[i + 1].cmd = "refine"
    BY <1>2 DEF Flow
  <2>2. Stream(p)[i + 1].type \in Types
    BY <1>2, <2>1 DEF Flow, Messages
  <2>3. 1 > i + 1
    BY <1>1, <1>3, <2>1, <2>2 DEF Roots, IsRefine, m
  <2> QED  BY <2>1, <2>3
<1>10. Plain(p, 1, sent)
  <2>1. \A r \in Peers : /\ sess'[r].had_refinements = sess[r].had_refinements
                         /\ sess'[r].tree_is_done = sess[r].tree_is_done
    BY <1>0, <1>4, <1>5 DEF o
  <2>2. \A r \in Peers : sess'[r].error =>
            \/ sess[r].error
            \/ \A i \in DOMAIN Stream(r)' : Stream(r)'[i].cmd # "refine"
    BY <1>0, <1>4, <1>5, <1>9 DEF o
  <2>3. \A i \in DOMAIN Stream(p) : ~(i <= 1 /\ Stream(p)[i].cmd = "refine")
    <3>1. \A i \in DOMAIN Stream(p) : i \in Nat \ {0}
      BY <1>2 DEF Flow
    <3>2. \A i \in DOMAIN Stream(p) : i <= 1 => i = 1
      BY <3>1
    <3> QED  BY <1>4, <3>2 DEF m
  <2> QED  BY <1>2, <1>6, <1>7, <1>8, <2>1, <2>2, <2>3 DEF Plain
<1>11. InRole(p, sent)
  <2>1. \A r \in Peers : sess[r].role = "source" =>
          sess'[r].held = {} /\ sess'[r].certs = {} /\ sess'[r].ancestry = {}
    <3>1. sess[p].role = "source" => sess'[p].held = {} /\ sess'[p].certs = {} /\ sess'[p].ancestry = {}
      BY <1>4, <1>5 DEF o
    <3>2. sess[q].role = "source" => sess'[q].held = {} /\ sess'[q].certs = {} /\ sess'[q].ancestry = {}
      BY <1>0, <1>1, <1>5 DEF Opposed
    <3> QED  BY <1>0, <3>1, <3>2
  <2> QED  BY <1>7, <2>1 DEF InRole, o
<1>12. RootSeen' => RootSeen
  <2> SUFFICES ASSUME RootSeen', NEW i \in DOMAIN Stream("server"), IsRefine("server", i, "epoch")
               PROVE  FALSE
    BY DEF RootSeen
  <2>1. CASE p = "server"
    <3>1. i \in Nat \ {0} /\ i # 1
      BY <1>2, <1>4, <2>1 DEF Flow, IsRefine, m
    <3>2. i > 1 /\ (i - 1) + 1 = i
      BY <3>1
    <3>3. i - 1 \in DOMAIN Stream(p)'
      <4>1. \A j \in DOMAIN Stream(p) : j > 1 => j - 1 \in DOMAIN Stream(p)'
        BY <1>2 DEF Flow
      <4> QED  BY <2>1, <3>2, <4>1
    <3>4. Stream(p)'[i - 1] = Stream(p)[(i - 1) + 1]
      BY <1>2, <3>3 DEF Flow
    <3> QED  BY <2>1, <3>2, <3>3, <3>4 DEF RootSeen, IsRefine
  <2>2. CASE q = "server"
    <3>1. i \in DOMAIN Stream(q)' /\ Stream(q)'[i] = Stream(q)[i]
      BY <1>2, <2>2 DEF Flow, q
    <3> QED  BY <2>2, <3>1 DEF RootSeen, IsRefine
  <2> QED  BY <1>0, <2>1, <2>2 DEF Peers
<1>13. EpochStep(p, 1, sent)
  <2>1. \A j \in DOMAIN Stream(p) : j <= 1 => j = 1
    <3>1. \A j \in DOMAIN Stream(p) : j \in Nat \ {0}
      BY <1>2 DEF Flow
    <3> QED  BY <3>1
  <2>2. Going(p)' => ~s.error /\ Going(p)
    BY <1>4, <1>5 DEF Going, o
  <2>3. sess'[p].live => sess[p].live /\ db[p].epoch \in {NoEpoch, db'[p].epoch}
    BY <1>4, <1>5 DEF o
  <2>4. sess[p].tree_is_done = sess'[p].tree_is_done
    BY <1>4, <1>5 DEF o
  <2>5. sess'[p].valve =>
           \/ sess[p].valve
           \/ sess'[p].requested \cap Epochs = {} /\ "epoch" \in sess'[p].tree_is_done
    BY <1>4, <1>5 DEF o
  <2>6. Going(p)' =>
           /\ \A x \in Epochs : x \in sess'[p].received \ sess[p].received => db'[p].epoch = x
           /\ \A x \in Epochs : x \in sess[p].requested \ sess'[p].requested => db'[p].epoch = x
           /\ \A j \in DOMAIN Stream(p) :
                j <= 1 /\ Stream(p)[j].cmd = "data" /\ Stream(p)[j].item \in Epochs =>
                  db'[p].epoch = Stream(p)[j].item
    BY <1>4, <1>5, <2>1, <2>2 DEF o, m
  <2> QED  BY <1>2, <1>5, <1>6, <1>7, <1>12, <2>2, <2>3, <2>4, <2>5, <2>6 DEF EpochStep, q
<1>14. Roots'
  BY <1>1, <1>10, PlainRoots
<1>15. Authentication' /\ Opposed'
  BY <1>1, <1>2, <1>6, <1>11, SettledAuthentication, SettledOpposed
<1>16. Markers' /\ Traffic'
  BY <1>1, <1>10, PlainMarkers, PlainTraffic
<1>17. EpochsMet'
  BY <1>1, <1>13, <1>14, SettledEpochs
<1>18. LeadStep(p, 1, sent)
  <2>1. \A j : j \in DOMAIN Stream(p) /\ j <= 1 <=> j = 1
    <3>1. \A j \in DOMAIN Stream(p) : j \in Nat \ {0}
      BY <1>2 DEF Flow
    <3> QED  BY <1>3, <3>1
  <2>2. \A i \in DOMAIN sent :
           /\ sent[i].cmd # "refine"
           /\ Exchanged(sent[i]) => Exchanged(Stream(p)[1]) /\ Going(p)
           /\ sent[i].cmd = "data" => RequestFor(p, 1, sent[i].item)
    BY <1>7 DEF m
  <2>3. ASSUME NEW x, RequestFor(p, 1, x), Going(p)', x \in sess[p].tree["epoch"], o.role # "sink"
        PROVE  \E i \in DOMAIN sent : sent[i].cmd = "data" /\ sent[i].item = x
    <3>1. m.cmd = "send_data" /\ m.item = x
      BY <2>3 DEF RequestFor, m
    <3>2. x = db[p].epoch
      BY <1>1, <1>4, <2>3 DEF EpochsMet, o
    <3>3. PICK i \in DOMAIN out : out[i].cmd = "data" /\ out[i].item = x
      BY <1>4, <2>3, <3>1, <3>2
    <3>4. ~sess[p].error
      BY <1>4, <1>5, <2>3 DEF Going, o
    <3>5. i \in DOMAIN sent /\ sent[i] = out[i]
      BY <1>2, <3>4 DEF Leaving
    <3> QED  BY <3>3, <3>5
  <2>4. KeepsNothing(p) /\ m.cmd # "data" => KeepsNothing(p)'
    BY <1>4, <1>5 DEF KeepsNothing, o
  <2>5. ~Exchanged(m) => sess'[p].requested = sess[p].requested
    BY <1>4, <1>5 DEF o
  <2> QED  BY <1>3, <1>12, <1>13, <2>1, <2>2, <2>3, <2>4, <2>5 DEF LeadStep, m, o
<1>19. EpochLeads'
  BY <1>1, <1>18, LeadsKept
<1>20. WritesKnown
  <2>1. \A i \in DOMAIN Stream(p) : i \in Nat \ {0}
    BY <1>2 DEF Flow
  <2>2. KeepsNothing(p) => s.held = {} \/ (m.cmd = "data" /\ m.item \notin Epochs)
    BY <1>4 DEF KeepsNothing, o
  <2> QED  BY <1>1, <1>3, <1>4, <2>1, <2>2, ValveWrites DEF o, m
<1> QED  BY <1>1, <1>14, <1>15, <1>16, <1>17, <1>19, <1>20 DEF Inv

LEMMA QuietReplyStep ==
  ASSUME Inv, NEW p \in Peers, inbuf[p] # <<>>, ~sess["client"].authenticated, NEW s \in Sessions,
         NEW epoch \in Epochs \cup {NoEpoch}, NEW out \in Seq(Messages), Reply(p, s, epoch, out),
         QuietReply(p, s, epoch, out)
  PROVE  Inv' /\ WritesKnown
<1> DEFINE q == Other(p)
           o == sess[p]
<1>0. q \in Peers /\ q # p /\ Peers = {p, q}
  BY TwoPeers
<1>1. /\ TypeOK /\ Committed /\ Authentication /\ Opposed /\ Roots /\ EpochsMet /\ EpochLeads
      /\ Left(p, s, epoch) /\ TypeOK' /\ DatabaseClosed' /\ Committed'
  BY ReplyLeft DEF Inv
<1>2. PICK sent : Leaving(p, out, sent) /\ Flow(p, 1, sent)
  BY <1>1, ReplyFlow
<1>4. /\ s.authenticated => p = "server"
      /\ s.had_refinements = o.had_refinements /\ s.tree_is_done = o.tree_is_done
      /\ s.held = o.held /\ s.certs = o.certs /\ s.ancestry = o.ancestry /\ s.valve = o.valve
      /\ s.received = o.received /\ s.requested = o.requested
      /\ o.error => s.error
      /\ s.error => o.error \/ (~o.authenticated /\ p = "server")
      /\ o.authenticated => s.authenticated /\ s.role = o.role
      /\ p = "server" /\ s.authenticated =>
           /\ s.role = "source" <=> sess["client"].role = "sink"
           /\ s.role = "sink" <=> sess["client"].role = "source"
      /\ \A i \in DOMAIN out :
           out[i].cmd \in {"error", "confirm"} /\ (out[i].cmd = "confirm" => s.authenticated /\ s.error = o.error)
      /\ db[p].epoch \in {NoEpoch, epoch}
      /\ s.live => o.live
      /\ s.tree["epoch"] \subseteq Epochs \cap {epoch}
      /\ \A t \in Types : \A x \in s.tree[t] : TypeOf(x) = t
      /\ p = "client" => s.role = o.role
  BY DEF QuietReply
<1>5. /\ conf' = conf /\ sess'[q] = sess[q] /\ db'[q] = db[q] /\ db'[p].epoch = epoch
      /\ sess'[p].live = s.live /\ sess'[p].role = s.role
      /\ sess'[p].authenticated = s.authenticated /\ sess'[p].valve = s.valve /\ sess'[p].tree = s.tree
      /\ sess'[p].had_refinements = s.had_refinements /\ sess'[p].tree_is_done = s.tree_is_done
      /\ sess'[p].received = s.received /\ sess'[p].requested = s.requested
      /\ sess'[p].certs = s.certs /\ sess'[p].ancestry = s.ancestry /\ sess'[p].error = s.error
      /\ sess'[p].held \subseteq s.held
  BY <1>1 DEF Left
<1>6. /\ \A r \in Peers :
           /\ sess[r].had_refinements = {} /\ sess[r].tree_is_done = {}
           /\ sess[r].held = {} /\ sess[r].certs = {} /\ sess[r].ancestry = {} /\ ~sess[r].valve
      /\ ~sess["client"].error
      /\ sess["server"].authenticated => \A r \in Peers : sess[r].role = "source" <=> sess[Other(r)].role = "sink"
  BY <1>1 DEF Authentication, Opposed
<1> HIDE DEF q, o
<1>7. (p = "client" /\ q = "server") \/ (p = "server" /\ q = "client")
  BY DEF Peers, Other, q
<1>8. ASSUME NEW i \in DOMAIN sent
      PROVE  /\ ~Exchanged(sent[i])
             /\ sent[i].cmd = "confirm" => sess'["server"].authenticated /\ ~sess'["server"].error
  <2>1. ~sess[p].error /\ ((i \in DOMAIN out /\ sent[i] = out[i]) \/ sent[i] = Simple("bye"))
    BY <1>2 DEF Leaving
  <2>2. Simple("bye").cmd = "bye"
    BY SimpleCommands
  <2>3. CASE i \in DOMAIN out /\ sent[i] = out[i]
    BY <1>4, <1>5, <1>7, <2>1, <2>3 DEF Exchanged, o
  <2>4. CASE sent[i] = Simple("bye")
    BY <2>2, <2>4 DEF Exchanged
  <2> QED  BY <2>1, <2>3, <2>4
<1>9. ASSUME NEW r \in Peers
      PROVE  /\ sess'[r].had_refinements = {} /\ sess'[r].tree_is_done = {}
             /\ sess'[r].held = {} /\ sess'[r].certs = {} /\ sess'[r].ancestry = {} /\ ~sess'[r].valve
             /\ \A t \in Types : \A x \in sess'[r].tree[t] : TypeOf(x) = t
             /\ sess'[r].tree["epoch"] \subseteq Epochs
             /\ sess'[r].live => sess'[r].tree["epoch"] \subseteq {db'[r].epoch}
             /\ Going(r)' => sess'[r].received \cap Epochs \subseteq {db'[r].epoch}
  <2>1. /\ sess[r].tree["epoch"] \subseteq Epochs
        /\ sess[r].live => sess[r].tree["epoch"] \subseteq {db[r].epoch}
        /\ Going(r) => sess[r].received \cap Epochs \subseteq {db[r].epoch}
        /\ \A t \in Types : \A x \in sess[r].tree[t] : TypeOf(x) = t
    BY <1>1 DEF EpochsMet, Roots
  <2>2. CASE r = q
    BY <1>5, <1>6, <2>1, <2>2 DEF Going
  <2>3. CASE r = p
    <3>1. Going(r)' => Going(r)
      BY <1>4, <1>5, <2>3 DEF Going, o
    <3>2. Going(r)' => sess'[r].received \cap Epochs \subseteq {db'[r].epoch}
      BY <1>4, <1>5, <2>1, <2>3, <3>1, SessionConstants DEF o
    <3> QED  BY <1>4, <1>5, <1>6, <2>3, <3>2 DEF o
  <2> QED  BY <1>0, <2>2, <2>3
<1>10. sess'["server"].authenticated =>
         \A r \in Peers : sess'[r].role = "source" <=> sess'[Other(r)].role = "sink"
  <2> SUFFICES ASSUME sess'["server"].authenticated
               PROVE  /\ sess'[p].role = "source" <=> sess'[q].role = "sink"
                      /\ sess'[q].role = "source" <=> sess'[p].role = "sink"
    <3>1. Other(p) = q /\ Other(q) = p
      BY TwoPeers DEF q
    <3> QED  BY <1>0, <3>1
  <2>1. CASE p = "client"
    <3>1. /\ sess[p].role = "source" <=> sess[q].role = "sink"
          /\ sess[q].role = "source" <=> sess[p].role = "sink"
      <4>1. sess["server"].authenticated /\ Other(p) = q /\ Other(q) = p
        BY <1>0, <1>5, <1>7, <2>1, TwoPeers DEF q
      <4> QED  BY <1>0, <1>6, <4>1
    <3> QED  BY <1>4, <1>5, <2>1, <3>1 DEF o
  <2>2. CASE p = "server"
    BY <1>4, <1>5, <1>7, <2>2
  <2> QED  BY <1>7, <2>1, <2>2
<1>11. /\ sess["server"].authenticated =>
             sess'["server"].authenticated /\ (sess'["server"].error => sess["server"].error)
       /\ ~sess'["client"].error /\ ~sess'["client"].authenticated
       /\ conf' = conf /\ sess'["client"].role = sess["client"].role
  BY <1>4, <1>5, <1>6, <1>7 DEF o
<1>14. \A r \in Peers : \A x, y \in sess'[r].tree["epoch"] : x = y
  <2>1. \A x, y \in sess'[p].tree["epoch"] : x = y
    BY <1>4, <1>5
  <2>2. \A x, y \in sess'[q].tree["epoch"] : x = y
    BY <1>0, <1>1, <1>5 DEF EpochLeads
  <2> QED  BY <1>0, <2>1, <2>2
<1>15. sess'["server"].requested = {}
  BY <1>1, <1>4, <1>5, <1>7 DEF EpochLeads, RootSeen, o
<1>12. Quiet(p, 1, sent)
  BY <1>2, <1>8, <1>9, <1>10, <1>11, <1>14, <1>15 DEF Quiet
<1>13. Authentication' /\ Opposed' /\ Roots' /\ Markers' /\ Traffic' /\ EpochsMet' /\ EpochLeads'
  BY <1>1, <1>12, QuietStep
<1>16. WritesKnown
  <2>1. s.held = {}
    BY <1>4, <1>6 DEF o
  <2> QED  BY <1>1, <2>1, ReplyWrites
<1> QED  BY <1>1, <1>13, <1>16 DEF Inv
-----------------------------------------------------------------------------
(* The handlers, one by one.                                               *)
LEMMA HeadOfStream ==
  ASSUME TypeOK, NEW p \in Peers, inbuf[p] # <<>>
  PROVE  1 \in DOMAIN Stream(p) /\ Stream(p)[1] = Head(inbuf[p]) /\ Head(inbuf[p]) \in Messages
<1> DEFINE a == inbuf[p]
           b == net[p]
<1>1. a \in Seq(Messages) /\ b \in Seq(Messages) /\ a # <<>> /\ Stream(p) = a \o b
  BY DEF TypeOK, Stream
<1> HIDE DEF a, b
<1>2. a \o b # <<>> /\ Head(a \o b) = Head(a) /\ a \o b \in Seq(Messages) /\ Head(a) \in Messages
  BY <1>1, TailConcat, ConcatProperties, HeadTailProperties
<1>3. 1 \in DOMAIN (a \o b) /\ (a \o b)[1] = Head(a \o b)
  <2> DEFINE c == a \o b
  <2>1. c \in Seq(Messages) /\ c # <<>>
    BY <1>2
  <2> HIDE DEF c
  <2> QED  BY <2>1, ElemsTail DEF c
<1> QED  BY <1>1, <1>2, <1>3 DEF a

(* What every handler finds.                                               *)
LEMMA Handling ==
  ASSUME Inv, NEW p \in Peers, NEW cmd, Processing(p, cmd)
  PROVE  LET m == Head(inbuf[p])
         IN  /\ inbuf[p] # <<>> /\ sess[p] \in Sessions /\ sess[p].live
             /\ db[p].epoch \in Epochs \cup {NoEpoch} /\ db[p].items \in SUBSET Items
             /\ Stream(p)[1] = m /\ 1 \in DOMAIN Stream(p) /\ m \in Messages /\ m.cmd = cmd
             /\ cmd \in {"refine", "done"} => m.type \in Types
             /\ cmd \in {"send_data", "data"} => m.item \in Things
             /\ cmd \in {"refine", "done", "send_data", "data"} => sess["client"].authenticated
             /\ sess[p].role = "source" =>
                  sess[p].held = {} /\ sess[p].certs = {} /\ sess[p].ancestry = {}
             /\ sess[p].role \in {"source", "sink", "both"}
<1> DEFINE m == Head(inbuf[p])
<1>1. TypeOK /\ Authentication /\ Opposed
  BY DEF Inv
<1>2. inbuf[p] # <<>> /\ m.cmd = cmd /\ sess[p].live
  BY DEF Processing
<1>3. Stream(p)[1] = m /\ 1 \in DOMAIN Stream(p) /\ m \in Messages
  BY <1>1, <1>2, HeadOfStream
<1>4. /\ sess[p] \in Sessions /\ db[p].epoch \in Epochs \cup {NoEpoch} /\ db[p].items \in SUBSET Items
  BY <1>1 DEF TypeOK, Databases
<1> HIDE DEF m
<1>5. /\ cmd \in {"refine", "done"} => m.type \in Types
      /\ cmd \in {"send_data", "data"} => m.item \in Things
  BY <1>2, <1>3 DEF Messages
<1>6. cmd \in {"refine", "done", "send_data", "data"} => sess["client"].authenticated
  BY <1>1, <1>2, <1>3 DEF Authentication, Exchanged
<1>7. sess[p].role = "source" =>
        sess[p].held = {} /\ sess[p].certs = {} /\ sess[p].ancestry = {}
  BY <1>1 DEF Opposed
<1>8. sess[p].role \in {"source", "sink", "both"}
  BY <1>4 DEF Sessions
<1> QED  BY <1>2, <1>3, <1>4, <1>5, <1>6, <1>7, <1>8 DEF m

LEMMA SendDataStep ==
  ASSUME Inv, NEW p \in Peers, ProcessSendData(p)
  PROVE  Inv' /\ WritesKnown
<1> DEFINE m == Head(inbuf[p])
           x == m.item
           s == sess[p]
           out == IF x \in db[p].items \cup {db[p].epoch} THEN Gifts(s, {x})
                  ELSE <<[cmd |-> "nonexistant", item |-> x]>>
<1>1. /\ Processing(p, "send_data") /\ s.role \in {"source", "both"}
      /\ Reply(p, s, db[p].epoch, out)
  BY DEF ProcessSendData
<1>2. /\ inbuf[p] # <<>> /\ s \in Sessions /\ db[p].epoch \in Epochs \cup {NoEpoch}
      /\ Stream(p)[1] = m /\ 1 \in DOMAIN Stream(p) /\ m.cmd = "send_data" /\ x \in Things
      /\ sess["client"].authenticated /\ s.live
      /\ s.role = "source" => s.held = {} /\ s.certs = {} /\ s.ancestry = {}
  BY <1>1, Handling
<1>3. out \in Seq(Messages) /\ \A i \in DOMAIN out :
        out[i].cmd \in {"data", "nonexistant"} /\ out[i].item = x
  <2>1. /\ Gifts(s, {x}) \in Seq(Messages)
        /\ \A i \in DOMAIN Gifts(s, {x}) : \E y \in {x} : Gifts(s, {x})[i] = [cmd |-> "data", item |-> y]
    BY <1>2, GiftsLeft
  <2> DEFINE o == [cmd |-> "nonexistant", item |-> x]
  <2>2. o \in Messages /\ o.cmd = "nonexistant" /\ o.item = x
    BY <1>2 DEF Messages
  <2> HIDE DEF o, x, s, m
  <2>3. <<o>> \in Seq(Messages) /\ \A i \in DOMAIN <<o>> : <<o>>[i] = o
    BY <2>2
  <2>4. CASE x \in db[p].items \cup {db[p].epoch}
    <3>1. out = Gifts(s, {x})
      BY <2>4
    <3>2. \A i \in DOMAIN out : out[i] = [cmd |-> "data", item |-> x]
      BY <2>1, <3>1
    <3>3. out \in Seq(Messages)
      BY <2>1, <3>1
    <3> HIDE DEF out
    <3> QED  BY <3>2, <3>3
  <2>5. CASE x \notin db[p].items \cup {db[p].epoch}
    <3>1. out = <<o>>
      BY <2>5 DEF o
    <3> HIDE DEF out
    <3> QED  BY <2>2, <2>3, <3>1
  <2> QED  BY <2>4, <2>5
<1>5. x = db[p].epoch /\ s.role # "sink" =>
        \E i \in DOMAIN out : out[i].cmd = "data" /\ out[i].item = x
  <2> SUFFICES ASSUME x = db[p].epoch, s.role # "sink"
               PROVE  \E i \in DOMAIN out : out[i].cmd = "data" /\ out[i].item = x
    OBVIOUS
  <2>1. out = Gifts(s, {x})
    OBVIOUS
  <2>2. \E i \in DOMAIN Gifts(s, {x}) : Gifts(s, {x})[i] = [cmd |-> "data", item |-> x]
    <3>1. s \in Sessions /\ {x} \in SUBSET Things /\ s.role # "sink" /\ x \in {x}
      BY <1>2
    <3> HIDE DEF s, x
    <3>2. \A y \in {x} : \E i \in DOMAIN Gifts(s, {x}) :
            Gifts(s, {x})[i] = [cmd |-> "data", item |-> y]
      BY <3>1, GiftsLeft
    <3> QED  BY <3>1, <3>2
  <2> HIDE DEF out, x, s
  <2> QED  BY <2>1, <2>2
<1> HIDE DEF out
<1>4. PlainReply(p, s, db[p].epoch, out)
  <2>1. IsRequest(p, 1, TypeOf(x))
    BY <1>2 DEF IsRequest
  <2>2. s.role # "sink"
    BY <1>1
  <2>3. RequestFor(p, 1, x) /\ Exchanged(m)
    BY <1>2 DEF RequestFor, Exchanged
  <2> HIDE DEF x, m
  <2> QED  BY <1>2, <1>3, <1>5, <2>1, <2>2, <2>3 DEF PlainReply, Exchanged, x
<1> QED  BY <1>1, <1>2, <1>3, <1>4, PlainReplyStep

LEMMA EpochStepKept ==
  ASSUME Inv, NEW p \in Peers, ProcessEpoch(p)
  PROVE  Inv' /\ WritesKnown
<1> DEFINE m == Head(inbuf[p])
           x == m.item
           s == Arrived(sess[p], x)
<1>1. /\ Processing(p, "data") /\ TypeOf(x) = "epoch" /\ sess[p].role \in {"sink", "both"}
  BY DEF ProcessEpoch, ProcessData
<1>2. /\ inbuf[p] # <<>> /\ sess[p] \in Sessions /\ db[p].epoch \in Epochs \cup {NoEpoch}
      /\ Stream(p)[1] = m /\ 1 \in DOMAIN Stream(p) /\ m.cmd = "data" /\ x \in Things
      /\ sess["client"].authenticated /\ sess[p].live
  BY <1>1, Handling
<1>3. x \in Epochs /\ sess[p].role # "source"
  BY <1>1, <1>2, KindOf
<1>4. /\ s \in Sessions
      /\ s.requested = sess[p].requested \ {x} /\ s.received = sess[p].received \cup {x}
      /\ s.held = sess[p].held /\ Related(s, sess[p]) /\ s.valve = sess[p].valve
  BY <1>2, ArrivedLeft
<1>5. <<>> \in Seq(Messages) /\ DOMAIN <<>> = {}
  OBVIOUS
<1>6. \/ db[p].epoch = x /\ Reply(p, s, x, <<>>)
      \/ db[p].epoch = NoEpoch /\ Reply(p, EpochsNoted(s), x, <<>>)
      \/ /\ db[p].epoch \notin {x, NoEpoch}
         /\ Reply(p, [s EXCEPT !.error = TRUE, !.sent_goodbye = TRUE], db[p].epoch, <<Simple("error")>>)
  BY DEF ProcessEpoch
<1> HIDE DEF s, m, x
<1>7. CASE db[p].epoch = x /\ Reply(p, s, x, <<>>)
  <2>1. PlainReply(p, s, x, <<>>)
    BY <1>2, <1>3, <1>4, <1>5, <1>7 DEF PlainReply, Exchanged, Related, x
  <2> QED  BY <1>2, <1>3, <1>4, <1>5, <1>7, <2>1, PlainReplyStep
<1>8. CASE db[p].epoch = NoEpoch /\ Reply(p, EpochsNoted(s), x, <<>>)
  <2> DEFINE n == EpochsNoted(s)
  <2>1. /\ n \in Sessions
        /\ n.valve <=> s.valve \/ (s.requested \cap Epochs = {} /\ "epoch" \in s.tree_is_done)
        /\ n.held = s.held /\ n.requested = s.requested
        /\ Related(n, s) /\ n.received = s.received
    BY <1>4, EpochsNotedLeft
  <2> HIDE DEF n
  <2>2. PlainReply(p, n, x, <<>>)
    BY <1>2, <1>3, <1>4, <1>5, <1>8, <2>1 DEF PlainReply, Exchanged, Related, x
  <2> QED  BY <1>2, <1>3, <1>5, <1>8, <2>1, <2>2, PlainReplyStep DEF n
<1>9. CASE /\ db[p].epoch \notin {x, NoEpoch}
           /\ Reply(p, [s EXCEPT !.error = TRUE, !.sent_goodbye = TRUE], db[p].epoch, <<Simple("error")>>)
  <2> DEFINE n == [s EXCEPT !.error = TRUE, !.sent_goodbye = TRUE]
             out == <<Simple("error")>>
  <2>1. /\ n \in Sessions /\ n.valve = s.valve /\ n.error = TRUE
        /\ n.held = s.held /\ n.requested = s.requested /\ n.received = s.received
        /\ n.role = s.role /\ n.tree = s.tree /\ n.authenticated = s.authenticated /\ n.live = s.live
        /\ n.had_refinements = s.had_refinements /\ n.tree_is_done = s.tree_is_done
        /\ n.certs = s.certs /\ n.ancestry = s.ancestry
    BY <1>4 DEF Sessions
  <2>2. out \in Seq(Messages) /\ \A i \in DOMAIN out : out[i].cmd = "error"
    BY SimpleCommands
  <2> HIDE DEF n, out
  <2>3. PlainReply(p, n, db[p].epoch, out)
    BY <1>2, <1>3, <1>4, <2>1, <2>2 DEF PlainReply, Exchanged, Related
  <2> QED  BY <1>2, <1>9, <2>1, <2>2, <2>3, PlainReplyStep DEF n, out
<1> QED  BY <1>6, <1>7, <1>8, <1>9

LEMMA KeyOrContentStep ==
  ASSUME Inv, NEW p \in Peers, ProcessKeyOrContent(p)
  PROVE  Inv' /\ WritesKnown
<1> DEFINE m == Head(inbuf[p])
           x == m.item
           s == Arrived(sess[p], x)
           n == [s EXCEPT !.held = @ \cup ({x} \ db[p].items)]
<1>1. /\ Processing(p, "data") /\ TypeOf(x) \in {"key", "content"} /\ sess[p].role \in {"sink", "both"}
      /\ Reply(p, n, db[p].epoch, <<>>)
  BY DEF ProcessKeyOrContent, ProcessData
<1>2. /\ inbuf[p] # <<>> /\ sess[p] \in Sessions /\ db[p].epoch \in Epochs \cup {NoEpoch}
      /\ Stream(p)[1] = m /\ 1 \in DOMAIN Stream(p) /\ m.cmd = "data" /\ x \in Things
      /\ sess["client"].authenticated /\ sess[p].live
  BY <1>1, Handling
<1>3. x \notin Epochs /\ x \in Items /\ sess[p].role # "source"
  BY <1>1, <1>2, KindOf DEF Items
<1>4. /\ s \in Sessions
      /\ s.requested = sess[p].requested \ {x} /\ s.received = sess[p].received \cup {x}
      /\ s.held = sess[p].held /\ Related(s, sess[p]) /\ s.valve = sess[p].valve
  BY <1>2, ArrivedLeft
<1> HIDE DEF s, m, x
<1>5. n \in Sessions
  <2>1. s.held \cup ({x} \ db[p].items) \in SUBSET Items
    BY <1>3, <1>4 DEF Sessions
  <2> QED  BY <1>4, <2>1, Zenon DEF Sessions
<1>6. /\ n.requested = s.requested /\ n.received = s.received /\ n.valve = s.valve
      /\ n.role = s.role /\ n.tree = s.tree /\ n.authenticated = s.authenticated /\ n.live = s.live
      /\ n.had_refinements = s.had_refinements /\ n.tree_is_done = s.tree_is_done /\ n.error = s.error
  BY <1>4 DEF Sessions
<1> HIDE DEF n
<1>7. PlainReply(p, n, db[p].epoch, <<>>)
  BY <1>2, <1>3, <1>4, <1>6 DEF PlainReply, Exchanged, Related, x
<1>8. <<>> \in Seq(Messages)
  OBVIOUS
<1> QED  BY <1>1, <1>2, <1>5, <1>7, <1>8, PlainReplyStep DEF n, s, x, m

LEMMA CertStep ==
  ASSUME Inv, NEW p \in Peers, ProcessCert(p)
  PROVE  Inv' /\ WritesKnown
<1> DEFINE m == Head(inbuf[p])
           x == m.item
           a == Arrived(sess[p], x)
           s == [a EXCEPT !.certs = @ \cup ({x} \ db[p].items)]
           on == IF x \in db[p].items THEN {} ELSE {CertOn[x]} \ db[p].items
           n == Asking(s, on)
           out == Requests(s, on)
<1>1. /\ Processing(p, "data") /\ TypeOf(x) = "cert" /\ sess[p].role \in {"sink", "both"}
      /\ Reply(p, n, db[p].epoch, out)
  BY DEF ProcessCert, ProcessData
<1>2. /\ inbuf[p] # <<>> /\ sess[p] \in Sessions /\ db[p].epoch \in Epochs \cup {NoEpoch}
      /\ Stream(p)[1] = m /\ 1 \in DOMAIN Stream(p) /\ m.cmd = "data" /\ x \in Things
      /\ sess["client"].authenticated /\ sess[p].live
  BY <1>1, Handling
<1>3. x \notin Epochs /\ x \in Certs /\ x \in Items /\ sess[p].role # "source"
  BY <1>1, <1>2, KindOf DEF Items
<1>4. on \in SUBSET Revisions /\ Revisions \subseteq Things
  BY <1>3, SessionConstants DEF Things, Items
<1>5. /\ a \in Sessions
      /\ a.requested = sess[p].requested \ {x} /\ a.received = sess[p].received \cup {x}
      /\ a.held = sess[p].held /\ Related(a, sess[p]) /\ a.valve = sess[p].valve
  BY <1>2, ArrivedLeft
<1> HIDE DEF on, a, m, x
<1>6. s \in Sessions
  <2>1. a.certs \cup ({x} \ db[p].items) \in SUBSET Items
    BY <1>3, <1>5 DEF Sessions
  <2> QED  BY <1>5, <2>1, Zenon DEF Sessions
<1>7. /\ s.requested = a.requested /\ s.received = a.received /\ s.valve = a.valve
      /\ s.role = a.role /\ s.tree = a.tree /\ s.authenticated = a.authenticated /\ s.live = a.live
      /\ s.had_refinements = a.had_refinements /\ s.tree_is_done = a.tree_is_done /\ s.error = a.error
  BY <1>5 DEF Sessions
<1> HIDE DEF s
<1>8. /\ n \in Sessions /\ out \in Seq(Messages)
      /\ n.requested = s.requested \cup Wanted(s, on)
      /\ \A i \in DOMAIN out :
           \E y \in on : out[i] = [cmd |-> "send_data", item |-> y] /\ s.role # "source"
  BY <1>4, <1>6, AskingLeft
<1>9. /\ Related(n, s) /\ n.held = s.held /\ n.valve = s.valve /\ n.received = s.received
  BY <1>6, AskingRelated
<1> HIDE DEF n, out
<1>10. ASSUME NEW i \in DOMAIN out PROVE out[i].cmd = "send_data" /\ TypeOf(out[i].item) \notin Types
  <2>1. PICK y \in on : out[i] = [cmd |-> "send_data", item |-> y]
    BY <1>8
  <2>2. TypeOf(y) = "revision"
    BY <1>4, <2>1, KindOf
  <2> QED  BY <2>1, <2>2 DEF Types
<1>11. PlainReply(p, n, db[p].epoch, out)
  BY <1>2, <1>3, <1>5, <1>7, <1>8, <1>9, <1>10 DEF PlainReply, Exchanged, Related, x
<1> QED  BY <1>1, <1>2, <1>8, <1>11, PlainReplyStep DEF n, out, s, a, on, x, m

LEMMA RevisionStep ==
  ASSUME Inv, NEW p \in Peers, ProcessRevision(p)
  PROVE  Inv' /\ WritesKnown
<1> DEFINE m == Head(inbuf[p])
           x == m.item
           s == Arrived(sess[p], x)
           n == [s EXCEPT !.ancestry = @ \cup {x}]
           z == Analyzed(p, n)
           out == AnalyzeRequests(p, n)
<1>1. /\ Processing(p, "data") /\ TypeOf(x) = "revision" /\ sess[p].role \in {"sink", "both"}
  BY DEF ProcessRevision, ProcessData
<1>2. /\ inbuf[p] # <<>> /\ sess[p] \in Sessions /\ db[p].epoch \in Epochs \cup {NoEpoch}
      /\ Stream(p)[1] = m /\ 1 \in DOMAIN Stream(p) /\ m.cmd = "data" /\ x \in Things
      /\ sess["client"].authenticated /\ sess[p].live
  BY <1>1, Handling
<1>3. x \notin Epochs /\ x \in Items /\ sess[p].role # "source" /\ TypeOK
  BY <1>1, <1>2, KindOf DEF Items, Inv
<1>4. /\ s \in Sessions
      /\ s.requested = sess[p].requested \ {x} /\ s.received = sess[p].received \cup {x}
      /\ s.held = sess[p].held /\ Related(s, sess[p]) /\ s.valve = sess[p].valve
  BY <1>2, ArrivedLeft
<1>5. Reply(p, s, db[p].epoch, <<>>) \/ Reply(p, z, db[p].epoch, out)
  BY DEF ProcessRevision
<1> HIDE DEF s, m, x
<1>6. n \in Sessions
  <2>1. s.ancestry \cup {x} \in SUBSET Items
    BY <1>3, <1>4 DEF Sessions
  <2> QED  BY <1>4, <2>1, Zenon DEF Sessions
<1>7. /\ n.requested = s.requested /\ n.received = s.received /\ n.valve = s.valve
      /\ n.role = s.role /\ n.tree = s.tree /\ n.authenticated = s.authenticated /\ n.live = s.live
      /\ n.had_refinements = s.had_refinements /\ n.tree_is_done = s.tree_is_done /\ n.error = s.error
  BY <1>4 DEF Sessions
<1> HIDE DEF n
<1>8. /\ z \in Sessions /\ out \in Seq(Messages)
      /\ Related(z, n) /\ z.valve = n.valve /\ z.received = n.received
      /\ n.requested \subseteq z.requested
      /\ \A i \in DOMAIN out :
           \E y \in Contents : out[i] = [cmd |-> "send_data", item |-> y] /\ n.role # "source"
  BY <1>3, <1>6, AnalyzedLeft
<1> HIDE DEF z, out
<1>9. ASSUME NEW i \in DOMAIN out PROVE out[i].cmd = "send_data" /\ TypeOf(out[i].item) \notin Types
  <2>1. PICK y \in Contents : out[i] = [cmd |-> "send_data", item |-> y]
    BY <1>8
  <2>2. TypeOf(y) = "content"
    BY <2>1, KindOf DEF Things, Items
  <2> QED  BY <2>1, <2>2 DEF Types
<1>10. CASE Reply(p, s, db[p].epoch, <<>>)
  <2>1. PlainReply(p, s, db[p].epoch, <<>>)
    BY <1>2, <1>3, <1>4 DEF PlainReply, Exchanged, Related, x
  <2>2. <<>> \in Seq(Messages)
    OBVIOUS
  <2> QED  BY <1>2, <1>4, <1>10, <2>1, <2>2, PlainReplyStep
<1>11. CASE Reply(p, z, db[p].epoch, out)
  <2>1. PlainReply(p, z, db[p].epoch, out)
    BY <1>2, <1>3, <1>4, <1>7, <1>8, <1>9 DEF PlainReply, Exchanged, Related, x
  <2> QED  BY <1>2, <1>8, <1>11, <2>1, PlainReplyStep
<1> QED  BY <1>5, <1>10, <1>11 DEF z, out, n, s, x, m

LEMMA ByeStep ==
  ASSUME Inv, NEW p \in Peers, ProcessBye(p)
  PROVE  Inv' /\ WritesKnown
<1> DEFINE n == [sess[p] EXCEPT !.received_goodbye = TRUE]
           o == sess[p]
<1>1. Processing(p, "bye") /\ Reply(p, n, db[p].epoch, <<>>)
  BY DEF ProcessBye
<1>2. /\ inbuf[p] # <<>> /\ o \in Sessions /\ db[p].epoch \in Epochs \cup {NoEpoch} /\ o.live
      /\ Stream(p)[1].cmd = "bye"
      /\ o.role = "source" => o.held = {} /\ o.certs = {} /\ o.ancestry = {}
  BY <1>1, Handling
<1>3. /\ n \in Sessions /\ n.role = o.role /\ n.tree = o.tree /\ n.authenticated = o.authenticated
      /\ n.live = o.live /\ n.had_refinements = o.had_refinements /\ n.tree_is_done = o.tree_is_done
      /\ n.requested = o.requested /\ n.received = o.received /\ n.error = o.error /\ n.valve = o.valve
      /\ n.held = o.held /\ n.certs = o.certs /\ n.ancestry = o.ancestry
  BY <1>2 DEF Sessions
<1>4. <<>> \in Seq(Messages) /\ DOMAIN <<>> = {}
  OBVIOUS
<1> HIDE DEF n, o
<1>5. CASE sess["client"].authenticated
  <2>1. PlainReply(p, n, db[p].epoch, <<>>)
    BY <1>2, <1>3, <1>4 DEF PlainReply, Exchanged, o
  <2> QED  BY <1>1, <1>2, <1>3, <1>4, <1>5, <2>1, PlainReplyStep
<1>6. CASE ~sess["client"].authenticated
  <2>1. /\ o.tree["epoch"] \subseteq Epochs /\ o.tree["epoch"] \subseteq {db[p].epoch}
        /\ \A t \in Types : \A x \in o.tree[t] : TypeOf(x) = t
    BY <1>2 DEF Inv, EpochsMet, Roots, o
  <2>2. o.authenticated => p = "server"
    BY <1>6 DEF o, Peers
  <2>3. p = "server" /\ n.authenticated =>
           /\ n.role = "source" <=> sess["client"].role = "sink"
           /\ n.role = "sink" <=> sess["client"].role = "source"
    <3> SUFFICES ASSUME p = "server", n.authenticated
                 PROVE  /\ n.role = "source" <=> sess["client"].role = "sink"
                        /\ n.role = "sink" <=> sess["client"].role = "source"
      OBVIOUS
    <3>1. \A r \in Peers : sess[r].role = "source" <=> sess[Other(r)].role = "sink"
      BY <1>3 DEF Inv, Opposed, o
    <3>2. Other("server") = "client" /\ Other("client") = "server" /\ "client" \in Peers /\ "server" \in Peers
      BY DEF Other, Peers
    <3> QED  BY <1>3, <3>1, <3>2 DEF o
  <2>4. QuietReply(p, n, db[p].epoch, <<>>)
    BY <1>2, <1>3, <1>4, <2>1, <2>2, <2>3 DEF QuietReply, o
  <2> QED  BY <1>1, <1>2, <1>3, <1>4, <1>6, <2>4, QuietReplyStep
<1> QED  BY <1>5, <1>6

LEMMA RootSeenKept ==
  ASSUME NEW p \in Peers, NEW sent, Flow(p, 1, sent), sess["client"].authenticated, RootSeen'
  PROVE  RootSeen \/ (p = "server" /\ IsRefine(p, 1, "epoch"))
<1> DEFINE q == Other(p)
<1>0. q \in Peers /\ q # p /\ Peers = {p, q}
  BY TwoPeers
<1> SUFFICES ASSUME NEW i \in DOMAIN Stream("server"), IsRefine("server", i, "epoch")
             PROVE  p = "server" /\ IsRefine(p, 1, "epoch")
  BY DEF RootSeen
<1>1. CASE p = "server"
  <2> SUFFICES ASSUME i # 1 PROVE FALSE
    BY <1>1
  <2>1. i \in Nat \ {0}
    BY <1>1 DEF Flow
  <2>2. i > 1 /\ (i - 1) + 1 = i
    BY <2>1
  <2>3. i - 1 \in DOMAIN Stream(p)'
    <3>1. \A j \in DOMAIN Stream(p) : j > 1 => j - 1 \in DOMAIN Stream(p)'
      BY DEF Flow
    <3> QED  BY <1>1, <2>2, <3>1
  <2>4. Stream(p)'[i - 1] = Stream(p)[(i - 1) + 1]
    BY <2>3 DEF Flow
  <2> QED  BY <1>1, <2>2, <2>3, <2>4 DEF RootSeen, IsRefine
<1>2. CASE q = "server"
  <2>1. i \in DOMAIN Stream(q)' /\ Stream(q)'[i] = Stream(q)[i]
    BY <1>2 DEF Flow
  <2> QED  BY <1>2, <2>1 DEF RootSeen, IsRefine
<1> QED  BY <1>0, <1>1, <1>2 DEF Peers

LEMMA PartsApart ==
  ASSUME NEW s \in Sessions, NEW xs, NEW x
  PROVE  Apart(Asking(s, xs), s) /\ Apart(Arrived(s, x), s) /\ Apart(EpochsNoted(s), s)
<1>1. Apart(Asking(s, xs), s)
  BY DEF Apart, Asking, Sessions
<1>2. Apart(Arrived(s, x), s)
  BY DEF Apart, Arrived, Sessions
<1>3. Apart(EpochsNoted(s), s)
  <2> DEFINE v == s.valve \/ (s.requested \cap Epochs = {} /\ "epoch" \in s.tree_is_done)
  <2>1. EpochsNoted(s) = [s EXCEPT !.valve = v]
    BY Zenon DEF EpochsNoted
  <2> HIDE DEF v
  <2> QED  BY <2>1 DEF Apart, Sessions
<1> QED  BY <1>1, <1>2, <1>3

LEMMA RefineLeaves ==
  ASSUME Inv, NEW p \in Peers, ProcessRefine(p)
  PROVE  \E t \in Types, theirs, ours \in SUBSET Things, n \in Sessions, out \in Seq(Messages) :
           RefineLeft(p, t, theirs, ours, n, out)
<1>t. PICK t : t = Head(inbuf[p]).type
  OBVIOUS
<1>o. PICK o : o = sess[p]
  OBVIOUS
<1> DEFINE q == Other(p)
           m == Head(inbuf[p])
           s == [o EXCEPT !.had_refinements = @ \cup {t}]
           theirs == m.items \ s.tree[t]
           ours == s.tree[t] \ m.items
           n == Asking(s, theirs)
           out == Requests(s, theirs) \o Gifts(s, ours)
<1>0. q \in Peers /\ q # p /\ Peers = {p, q}
  BY TwoPeers
<1>1. Processing(p, "refine") /\ Reply(p, n, db[p].epoch, out)
  BY <1>t, <1>o DEF ProcessRefine
<1>2. /\ inbuf[p] # <<>> /\ o \in Sessions /\ o.live /\ db[p].epoch \in Epochs \cup {NoEpoch}
      /\ Stream(p)[1] = m /\ 1 \in DOMAIN Stream(p) /\ m \in Messages /\ m.cmd = "refine"
      /\ t \in Types /\ sess["client"].authenticated
      /\ o.role = "source" => o.held = {} /\ o.certs = {} /\ o.ancestry = {}
      /\ o.role \in {"source", "sink", "both"}
  BY <1>1, <1>t, <1>o, Handling
<1>3. /\ TypeOK /\ DatabaseClosed /\ Committed /\ Authentication /\ Opposed /\ Roots /\ Markers
      /\ Traffic /\ EpochsMet /\ EpochLeads
  BY DEF Inv
<1>4. IsRefine(p, 1, t)
  BY <1>2, <1>t DEF IsRefine
<1>5. p = "server" /\ m.items = sess["client"].tree[t] /\ q = "client" /\ ~o.error
  BY <1>2, <1>3, <1>4, <1>o DEF Roots, Other
<1>6. /\ s \in Sessions /\ s.had_refinements = o.had_refinements \cup {t}
      /\ s.tree_is_done = o.tree_is_done /\ s.role = o.role /\ s.tree = o.tree
      /\ s.authenticated = o.authenticated /\ s.live = o.live /\ s.requested = o.requested
      /\ s.received = o.received /\ s.certs = o.certs /\ s.ancestry = o.ancestry
      /\ s.held = o.held /\ s.error = o.error /\ s.valve = o.valve
  BY <1>2 DEF Sessions
<1>7. theirs \in SUBSET Things /\ ours \in SUBSET Things
  <2>1. m.items \in SUBSET Things
    BY <1>2 DEF Messages
  <2>2. s.tree[t] \in SUBSET Things
    BY <1>2, <1>6 DEF Sessions
  <2> QED  BY <2>1, <2>2
<1>8. /\ \A x \in theirs : x \in sess["client"].tree[t] /\ TypeOf(x) = t
      /\ \A x \in ours : x \in o.tree[t] /\ TypeOf(x) = t
      /\ \A x \in sess["client"].tree[t] : x \in theirs \/ x \in o.tree[t]
      /\ \A x \in o.tree[t] : x \in ours \/ x \in sess["client"].tree[t]
  <2>1. "client" \in Peers
    BY DEF Peers
  <2>2. \A r \in Peers : \A x \in sess[r].tree[t] : TypeOf(x) = t
    BY <1>2, <1>3 DEF Roots
  <2> QED  BY <1>5, <1>6, <1>o, <2>1, <2>2
<1> HIDE DEF s, theirs, ours, m, q
<1>9. /\ n \in Sessions /\ Requests(s, theirs) \in Seq(Messages)
      /\ n.requested = s.requested \cup Wanted(s, theirs)
      /\ \A i \in DOMAIN Requests(s, theirs) :
           \E x \in theirs : Requests(s, theirs)[i] = [cmd |-> "send_data", item |-> x] /\ s.role # "source"
      /\ \A x \in theirs : s.role # "source" => x \in n.requested \cup s.received
      /\ \A x \in theirs : s.role # "source" /\ x \notin s.requested \cup s.received =>
           \E i \in DOMAIN Requests(s, theirs) : Requests(s, theirs)[i] = [cmd |-> "send_data", item |-> x]
  BY <1>6, <1>7, AskingLeft
<1>10. /\ Gifts(s, ours) \in Seq(Messages)
       /\ \A i \in DOMAIN Gifts(s, ours) :
            \E x \in ours : Gifts(s, ours)[i] = [cmd |-> "data", item |-> x] /\ s.role # "sink"
       /\ s.role # "sink" =>
            \A x \in ours : \E i \in DOMAIN Gifts(s, ours) : Gifts(s, ours)[i] = [cmd |-> "data", item |-> x]
  BY <1>6, <1>7, GiftsLeft
<1>11. /\ Related(n, s) /\ n.held = s.held /\ n.valve = s.valve /\ n.received = s.received
  BY <1>6, AskingRelated
<1>12. /\ out \in Seq(Messages)
       /\ \A i \in DOMAIN out :
            \/ \E x \in theirs : out[i] = [cmd |-> "send_data", item |-> x] /\ s.role # "source"
            \/ \E x \in ours : out[i] = [cmd |-> "data", item |-> x] /\ s.role # "sink"
       /\ s.role # "sink" => \A x \in ours : \E i \in DOMAIN out : out[i] = [cmd |-> "data", item |-> x]
       /\ \A x \in theirs : s.role # "source" /\ x \notin s.requested \cup s.received =>
            \E i \in DOMAIN out : out[i] = [cmd |-> "send_data", item |-> x]
  <2> DEFINE a == Requests(s, theirs)
             b == Gifts(s, ours)
  <2>1. a \in Seq(Messages) /\ b \in Seq(Messages)
    BY <1>9, <1>10
  <2>2. /\ \A i \in DOMAIN a :
             \E x \in theirs : a[i] = [cmd |-> "send_data", item |-> x] /\ s.role # "source"
        /\ \A i \in DOMAIN b :
             \E x \in ours : b[i] = [cmd |-> "data", item |-> x] /\ s.role # "sink"
        /\ s.role # "sink" =>
             \A x \in ours : \E i \in DOMAIN b : b[i] = [cmd |-> "data", item |-> x]
    BY <1>9, <1>10
  <2>8. \A x \in theirs : s.role # "source" /\ x \notin s.requested \cup s.received =>
          \E i \in DOMAIN a : a[i] = [cmd |-> "send_data", item |-> x]
    BY <1>9
  <2> HIDE DEF a, b
  <2>3. /\ a \o b \in Seq(Messages)
        /\ \A i \in DOMAIN a : (a \o b)[i] = a[i]
    BY <2>1, ConcatAt
  <2>4. \A i \in DOMAIN (a \o b) :
          \/ i \in DOMAIN a
          \/ i > Len(a) /\ i - Len(a) \in DOMAIN b /\ (a \o b)[i] = b[i - Len(a)]
    BY <2>1, ConcatAt
  <2>5. \A i \in DOMAIN b : i + Len(a) \in DOMAIN (a \o b) /\ (a \o b)[i + Len(a)] = b[i]
    BY <2>1, ConcatAt
  <2>6. \A i \in DOMAIN (a \o b) :
           \/ \E x \in theirs : (a \o b)[i] = [cmd |-> "send_data", item |-> x] /\ s.role # "source"
           \/ \E x \in ours : (a \o b)[i] = [cmd |-> "data", item |-> x] /\ s.role # "sink"
    BY <2>2, <2>3, <2>4
  <2>7. s.role # "sink" =>
           \A x \in ours : \E i \in DOMAIN (a \o b) : (a \o b)[i] = [cmd |-> "data", item |-> x]
    <3> SUFFICES ASSUME s.role # "sink", NEW x \in ours
                 PROVE  \E i \in DOMAIN (a \o b) : (a \o b)[i] = [cmd |-> "data", item |-> x]
      OBVIOUS
    <3>1. PICK i \in DOMAIN b : b[i] = [cmd |-> "data", item |-> x]
      BY <2>2
    <3>2. i + Len(a) \in DOMAIN (a \o b) /\ (a \o b)[i + Len(a)] = b[i]
      BY <2>5
    <3> QED  BY <3>1, <3>2
  <2>9. \A i \in DOMAIN a : i \in DOMAIN (a \o b)
    BY <2>1, ConcatAt
  <2>10. \A x \in theirs : s.role # "source" /\ x \notin s.requested \cup s.received =>
           \E i \in DOMAIN (a \o b) : (a \o b)[i] = [cmd |-> "send_data", item |-> x]
    BY <2>3, <2>8, <2>9
  <2> QED  BY <2>3, <2>6, <2>7, <2>10 DEF a, b
<1>13. n.requested = s.requested \cup IF s.role = "source" THEN {} ELSE theirs \ (s.requested \cup s.received)
  BY <1>9 DEF Wanted
<1>14. s.crashed = o.crashed /\ s.analyzed = o.analyzed /\ s.sent_goodbye = o.sent_goodbye
  BY <1>2 DEF Sessions, s
<1>15. Apart(n, s)
  BY <1>6, PartsApart DEF n
<1> HIDE DEF n, out
<1>16. RefineLeft(p, t, theirs, ours, n, out)
  <2>1. /\ \A x \in theirs : x \in sess["client"].tree[t] /\ TypeOf(x) = t
        /\ \A x \in ours : x \in o.tree[t] /\ TypeOf(x) = t
        /\ \A x \in sess["client"].tree[t] : x \in theirs \/ x \in o.tree[t]
        /\ \A x \in o.tree[t] : x \in ours \/ x \in sess["client"].tree[t]
    BY <1>8
  <2>2. /\ n.requested = o.requested \cup IF o.role = "source" THEN {} ELSE theirs \ (o.requested \cup o.received)
        /\ n.had_refinements = o.had_refinements \cup {t} /\ n.tree_is_done = o.tree_is_done
        /\ n.live = o.live /\ n.crashed = o.crashed /\ n.role = o.role
        /\ n.authenticated = o.authenticated /\ n.tree = o.tree /\ n.valve = o.valve
        /\ n.received = o.received /\ n.held = o.held /\ n.certs = o.certs
        /\ n.ancestry = o.ancestry /\ n.error = o.error
        /\ n.analyzed = o.analyzed /\ n.sent_goodbye = o.sent_goodbye
    BY <1>6, <1>11, <1>13, <1>14, <1>15 DEF Related, Apart
  <2>3. /\ \A i \in DOMAIN out :
             \/ \E x \in theirs : out[i] = [cmd |-> "send_data", item |-> x] /\ o.role # "source"
             \/ \E x \in ours : out[i] = [cmd |-> "data", item |-> x] /\ o.role # "sink"
        /\ o.role # "sink" => \A x \in ours : \E i \in DOMAIN out : out[i] = [cmd |-> "data", item |-> x]
        /\ \A x \in theirs : o.role # "source" /\ x \notin o.requested \cup o.received =>
             \E i \in DOMAIN out : out[i] = [cmd |-> "send_data", item |-> x]
    BY <1>6, <1>12
  <2>4. /\ Reply(p, n, db[p].epoch, out)
        /\ inbuf[p] # <<>> /\ o \in Sessions /\ o.live /\ db[p].epoch \in Epochs \cup {NoEpoch}
        /\ Stream(p)[1].cmd = "refine" /\ 1 \in DOMAIN Stream(p) /\ IsRefine(p, 1, t)
        /\ sess["client"].authenticated /\ p = "server" /\ ~o.error
        /\ o.role = "source" => o.held = {} /\ o.certs = {} /\ o.ancestry = {}
        /\ o.role \in {"source", "sink", "both"}
    BY <1>1, <1>2, <1>4, <1>5
  <2> QED  BY <1>o, <2>1, <2>2, <2>3, <2>4 DEF RefineLeft
<1> QED  BY <1>2, <1>7, <1>9, <1>12, <1>16

LEMMA RefineStep ==
  ASSUME Inv, NEW p \in Peers, ProcessRefine(p)
  PROVE  Inv' /\ WritesKnown
<1>o. PICK o : o = sess[p]
  OBVIOUS
<1>1. PICK t \in Types, theirs \in SUBSET Things, ours \in SUBSET Things, n \in Sessions, out \in Seq(Messages) :
        RefineLeft(p, t, theirs, ours, n, out)
  BY RefineLeaves
<1> DEFINE q == Other(p)
<1>0. q \in Peers /\ q # p /\ Peers = {p, q}
  BY TwoPeers
<1>2. /\ Reply(p, n, db[p].epoch, out) /\ IsRefine(p, 1, t)
      /\ inbuf[p] # <<>> /\ o \in Sessions /\ o.live /\ db[p].epoch \in Epochs \cup {NoEpoch}
      /\ Stream(p)[1].cmd = "refine" /\ 1 \in DOMAIN Stream(p) /\ sess["client"].authenticated
      /\ o.role = "source" => o.held = {} /\ o.certs = {} /\ o.ancestry = {}
      /\ o.role \in {"source", "sink", "both"}
  BY <1>1, <1>o DEF RefineLeft
<1>3. /\ TypeOK /\ DatabaseClosed /\ Committed /\ Authentication /\ Opposed /\ Roots /\ Markers
      /\ Traffic /\ EpochsMet /\ EpochLeads
  BY DEF Inv
<1>5. p = "server" /\ q = "client" /\ ~o.error
  BY <1>1, <1>o DEF RefineLeft, Other
<1>8. /\ \A x \in theirs : x \in sess["client"].tree[t] /\ TypeOf(x) = t
      /\ \A x \in ours : x \in o.tree[t] /\ TypeOf(x) = t
      /\ \A x \in sess["client"].tree[t] : x \in theirs \/ x \in o.tree[t]
      /\ \A x \in o.tree[t] : x \in ours \/ x \in sess["client"].tree[t]
  BY <1>1, <1>o DEF RefineLeft
<1>11. /\ n.had_refinements = o.had_refinements \cup {t} /\ n.tree_is_done = o.tree_is_done
       /\ n.live = o.live /\ n.role = o.role /\ n.authenticated = o.authenticated
       /\ n.tree = o.tree /\ n.valve = o.valve /\ n.received = o.received /\ n.held = o.held
       /\ n.certs = o.certs /\ n.ancestry = o.ancestry /\ n.error = o.error
       /\ n.requested = o.requested \cup IF o.role = "source" THEN {} ELSE theirs \ (o.requested \cup o.received)
  BY <1>1, <1>o DEF RefineLeft
<1>12. /\ \A i \in DOMAIN out :
            \/ \E x \in theirs : out[i] = [cmd |-> "send_data", item |-> x] /\ o.role # "source"
            \/ \E x \in ours : out[i] = [cmd |-> "data", item |-> x] /\ o.role # "sink"
       /\ o.role # "sink" => \A x \in ours : \E i \in DOMAIN out : out[i] = [cmd |-> "data", item |-> x]
       /\ \A x \in theirs : o.role # "source" /\ x \notin o.requested \cup o.received =>
            \E i \in DOMAIN out : out[i] = [cmd |-> "send_data", item |-> x]
  BY <1>1, <1>o DEF RefineLeft
<1> HIDE DEF q
<1>13. Left(p, n, db[p].epoch) /\ TypeOK' /\ DatabaseClosed' /\ Committed'
  BY <1>2, <1>3, <1>11, <1>12, ReplyLeft
<1>14. PICK sent : Leaving(p, out, sent) /\ Flow(p, 1, sent)
  BY <1>2, <1>3, <1>11, <1>12, ReplyFlow
<1>15. /\ conf' = conf /\ sess'[q] = sess[q] /\ db'[q] = db[q] /\ db'[p].epoch = db[p].epoch
       /\ sess'[p].live = o.live /\ sess'[p].role = o.role
       /\ sess'[p].authenticated = o.authenticated /\ sess'[p].valve = o.valve /\ sess'[p].tree = o.tree
       /\ sess'[p].had_refinements = o.had_refinements \cup {t}
       /\ sess'[p].tree_is_done = o.tree_is_done
       /\ sess'[p].requested = n.requested /\ o.requested \subseteq n.requested
       /\ sess'[p].received = o.received
       /\ sess'[p].certs = o.certs /\ sess'[p].ancestry = o.ancestry /\ sess'[p].error = o.error
       /\ sess'[p].held \subseteq o.held
  BY <1>11, <1>13 DEF Left, Related, q
<1>16. Settled
  BY <1>0, <1>2, <1>3, <1>15, <1>o DEF Settled, Authentication
<1>17. ASSUME NEW i \in DOMAIN sent
       PROVE  /\ \/ sent[i].cmd \in {"send_data", "data"} /\ TypeOf(sent[i].item) = t
                 \/ sent[i].cmd = "bye"
              /\ sent[i].cmd = "send_data" => o.role # "source"
              /\ sent[i].cmd \in {"data", "nonexistant"} => o.role # "sink"
              /\ sent[i].cmd # "done"
              /\ sent[i].cmd = "send_data" => sent[i].item \in theirs
  <2>1. (i \in DOMAIN out /\ sent[i] = out[i]) \/ sent[i] = Simple("bye")
    BY <1>14 DEF Leaving
  <2>2. Simple("bye").cmd = "bye"
    BY SimpleCommands
  <2>3. CASE i \in DOMAIN out /\ sent[i] = out[i]
    BY <1>11, <1>8, <1>12, <2>3
  <2> QED  BY <2>1, <2>2, <2>3
<1>18. Refined(p, t, sent)
  <2>1. /\ \A r \in Peers : sess'[r].error => sess[r].error
        /\ \A r \in Peers : sess'[r].tree_is_done = sess[r].tree_is_done
        /\ sess'[p].had_refinements = sess[p].had_refinements \cup {t}
    BY <1>0, <1>15, <1>o
  <2> QED  BY <1>2, <1>14, <1>15, <1>16, <1>17, <2>1 DEF Refined, q
<1>19. InRole(p, sent)
  <2>1. sess[q].role = "source" => sess[q].held = {} /\ sess[q].certs = {} /\ sess[q].ancestry = {}
    BY <1>0, <1>3 DEF Opposed
  <2>2. \A r \in Peers : sess[r].role = "source" =>
          sess'[r].held = {} /\ sess'[r].certs = {} /\ sess'[r].ancestry = {}
    BY <1>0, <1>2, <1>15, <1>o, <2>1
  <2> QED  BY <1>17, <1>o, <2>2 DEF InRole
<1>20. ASSUME t = "epoch", Going(p)' PROVE ServerMet' /\ ClientMet'
  <2>1. Going(p) /\ sess'[p].live /\ o.live
    BY <1>15, <1>20, <1>o DEF Going
  <2>2. /\ sess[p].tree[t] \subseteq {db[p].epoch} /\ sess[p].received \cap Epochs \subseteq {db[p].epoch}
        /\ sess[q].tree[t] \subseteq Epochs /\ (sess[q].live => sess[q].tree[t] \subseteq {db[q].epoch})
    BY <1>0, <1>3, <1>20, <2>1, <1>o DEF EpochsMet
  <2>3. ServerMet'
    <3> SUFFICES ASSUME IsSink(p)', NEW x \in sess'[q].tree[t]
                 PROVE  x = db'[p].epoch \/ x \in sess'[p].requested
      BY <1>5, <1>20 DEF ServerMet
    <3>1. x \in sess[q].tree[t] /\ x \in Epochs /\ o.role # "source"
      BY <1>11, <1>15, <2>2 DEF IsSink
    <3>2. CASE x \in theirs
      <4>1. x \in n.requested \cup o.received
        BY <1>11, <3>1, <3>2
      <4> QED  BY <1>11, <1>15, <1>o, <2>2, <3>1, <4>1
    <3>3. CASE x \in o.tree[t]
      BY <1>15, <1>o, <2>2, <3>3
    <3> QED  BY <1>5, <1>8, <3>1, <3>2, <3>3
  <2>4. ClientMet'
    <3> SUFFICES ASSUME Going(q)', IsSink(q)', NEW x \in sess'[p].tree[t]
                 PROVE  x = db'[q].epoch \/ \E j \in DOMAIN Stream(q)' : DataFor(q, j, x)'
      BY <1>5, <1>20 DEF ClientMet
    <3>1. x \in o.tree[t] /\ sess[q].live
      BY <1>15 DEF Going
    <3>2. CASE x \in ours
      <4>1. o.role # "sink"
        <5>1. sess[q].role # "source"
          BY <1>15 DEF IsSink
        <5>2. sess[q].role = "source" <=> sess[Other(q)].role = "sink"
          BY <1>0, <1>3, <1>16 DEF Opposed, Settled
        <5>3. Other(q) = p
          BY TwoPeers DEF q
        <5> QED  BY <1>11, <1>o, <5>1, <5>2, <5>3
      <4>2. PICK i \in DOMAIN out : out[i] = [cmd |-> "data", item |-> x]
        BY <1>12, <3>2, <4>1
      <4>3. i \in DOMAIN sent /\ sent[i] = out[i]
        BY <1>5, <1>14, <1>o DEF Leaving
      <4>4. \E j \in DOMAIN Stream(q)' : Stream(q)'[j] = [cmd |-> "data", item |-> x]
        BY <1>14, <4>2, <4>3 DEF Flow, q
      <4> QED  BY <4>4 DEF DataFor
    <3>3. CASE x \in sess["client"].tree[t]
      BY <1>5, <1>15, <2>2, <3>1, <3>3
    <3> QED  BY <1>8, <3>1, <3>2, <3>3
  <2> QED  BY <2>3, <2>4
<1>21. EpochStep(p, 1, sent)
  <2>1. RootSeen' /\ Going("server")' => RootSeen \/ (ServerMet' /\ ClientMet')
    <3> SUFFICES ASSUME RootSeen', Going(p)', ~RootSeen PROVE ServerMet' /\ ClientMet'
      BY <1>5
    <3>1. IsRefine(p, 1, "epoch")
      BY <1>2, <1>14, RootSeenKept
    <3>2. t = "epoch"
      BY <1>2, <3>1 DEF IsRefine
    <3> QED  BY <1>20, <3>2
  <2>2. \A j \in DOMAIN Stream(p) : j <= 1 => Stream(p)[j].cmd # "data"
    <3>1. \A j \in DOMAIN Stream(p) : j \in Nat \ {0}
      BY <1>14 DEF Flow
    <3>2. \A j \in DOMAIN Stream(p) : j <= 1 => j = 1
      BY <3>1
    <3> QED  BY <1>2, <3>2
  <2>3. (sess'[p].live => sess[p].live) /\ (Going(p)' => Going(p))
    BY <1>15, <1>o DEF Going
  <2>4. sess'[p].tree_is_done = sess[p].tree_is_done /\ sess'[p].valve = sess[p].valve
        /\ sess'[p].received = sess[p].received /\ sess[p].requested \subseteq sess'[p].requested
    BY <1>15, <1>o
  <2> QED  BY <1>14, <1>15, <1>16, <1>17, <2>1, <2>2, <2>3, <2>4 DEF EpochStep, q
<1>22. Roots'
  BY <1>3, <1>18, RefinedRoots
<1>23. Authentication' /\ Opposed'
  BY <1>3, <1>14, <1>16, <1>19, SettledAuthentication, SettledOpposed
<1>24. Markers'
  BY <1>3, <1>18, RefinedMarkers
<1>25. Traffic'
  BY <1>3, <1>18, RefinedTraffic
<1>26. EpochsMet'
  BY <1>3, <1>21, <1>22, SettledEpochs
<1>27. ASSUME ~RootSeen, RootSeen'
       PROVE  /\ \A i \in DOMAIN sent : sent[i].cmd = "send_data" => sent[i].item \in sess[q].tree["epoch"]
              /\ \A x \in sess[q].tree["epoch"] :
                   x # db'[p].epoch /\ Going(p)' /\ IsSink(p) =>
                     \E i \in DOMAIN sent : sent[i].cmd = "send_data" /\ sent[i].item = x
  <2>1. t = "epoch"
    <3>1. IsRefine(p, 1, "epoch")
      BY <1>2, <1>14, <1>27, RootSeenKept
    <3> QED  BY <1>2, <3>1 DEF IsRefine
  <2>2. \A i \in DOMAIN sent : sent[i].cmd = "send_data" => sent[i].item \in sess[q].tree["epoch"]
    BY <1>5, <1>8, <1>17, <2>1
  <2>3. ASSUME NEW x \in sess[q].tree["epoch"], x # db'[p].epoch, Going(p)', IsSink(p)
        PROVE  \E i \in DOMAIN sent : sent[i].cmd = "send_data" /\ sent[i].item = x
    <3>1. Going(p) /\ o.role # "source"
      BY <1>15, <2>3, <1>o DEF Going, IsSink
    <3>2. /\ o.tree["epoch"] \subseteq {db[p].epoch} /\ o.received \cap Epochs \subseteq {db[p].epoch}
          /\ x \in Epochs
      BY <1>0, <1>2, <1>3, <3>1, <1>o DEF EpochsMet
    <3>3. o.requested = {}
      BY <1>3, <1>5, <1>27, <1>o DEF EpochLeads
    <3>4. x \in theirs /\ x \notin o.requested \cup o.received /\ o.role # "source"
      BY <1>5, <1>11, <1>8, <1>15, <2>1, <2>3, <3>1, <3>2, <3>3
    <3>5. PICK i \in DOMAIN out : out[i] = [cmd |-> "send_data", item |-> x]
      BY <1>12, <3>4
    <3>6. i \in DOMAIN sent /\ sent[i] = out[i]
      BY <1>5, <1>14, <1>o DEF Leaving
    <3> QED  BY <3>5, <3>6
  <2> QED  BY <2>2, <2>3
<1>28. LeadStep(p, 1, sent)
  <2>1. \A i \in DOMAIN sent : sent[i].cmd # "refine"
    BY <1>17
  <2>2. Exchanged(Stream(p)[1]) /\ Going(p) /\ p # "client"
    BY <1>2, <1>5, <1>o DEF Exchanged, Going
  <2>3. KeepsNothing(p) => KeepsNothing(p)'
    BY <1>15, <1>o DEF KeepsNothing
  <2> QED  BY <1>2, <1>21, <1>27, <2>1, <2>2, <2>3 DEF LeadStep, q
<1>29. EpochLeads'
  BY <1>3, <1>28, LeadsKept
<1>30. WritesKnown
  <2>1. \A i \in DOMAIN Stream(p) : i \in Nat \ {0}
    BY <1>14 DEF Flow
  <2>2. n.held = o.held /\ n.valve = o.valve
    BY <1>11
  <2> QED  BY <1>2, <1>11, <1>13, <1>o, <2>1, <2>2, ValveWrites DEF KeepsNothing
<1> QED  BY <1>13, <1>22, <1>23, <1>24, <1>25, <1>26, <1>29, <1>30 DEF Inv

LEMMA ProcessDoneLeft ==
  ASSUME Inv, NEW p \in Peers, ProcessDone(p), NEW t, t = Head(inbuf[p]).type
  PROVE  \E n, out : DoneLeft(p, t, n, out)
<1>o. PICK o : o = sess[p]
  OBVIOUS
<1> DEFINE s == [o EXCEPT !.had_refinements = @ \ ({t} \ o.tree_is_done)]
           d == [s EXCEPT !.tree_is_done = @ \cup {t}]
           echo == IF t \in s.tree_is_done THEN <<>> ELSE <<Done(t)>>
           a == Analyzed(p, d)
           z == EpochsNoted(a)
           asks == AnalyzeRequests(p, d)
<1>1. Processing(p, "done")
  BY DEF ProcessDone
<1>2. o \in Sessions /\ t \in Types /\ TypeOK
  BY <1>1, <1>o, Handling DEF Inv
<1>3. \/ t \in o.had_refinements /\ Reply(p, s, db[p].epoch, echo)
      \/ t \notin o.had_refinements /\ Reply(p, z, db[p].epoch, echo \o asks)
  BY <1>o DEF ProcessDone
<1>4. /\ s \in Sessions /\ s.had_refinements = o.had_refinements \ ({t} \ o.tree_is_done)
      /\ s.tree_is_done = o.tree_is_done /\ s.role = o.role /\ s.tree = o.tree
      /\ s.authenticated = o.authenticated /\ s.live = o.live /\ s.requested = o.requested
      /\ s.received = o.received /\ s.certs = o.certs /\ s.ancestry = o.ancestry
      /\ s.held = o.held /\ s.error = o.error /\ s.valve = o.valve
  BY <1>2 DEF Sessions
<1> HIDE DEF s
<1>5. /\ d \in Sessions /\ d.had_refinements = s.had_refinements
      /\ d.tree_is_done = s.tree_is_done \cup {t} /\ d.role = s.role /\ d.tree = s.tree
      /\ d.authenticated = s.authenticated /\ d.live = s.live /\ d.requested = s.requested
      /\ d.received = s.received /\ d.certs = s.certs /\ d.ancestry = s.ancestry
      /\ d.held = s.held /\ d.error = s.error /\ d.valve = s.valve
  BY <1>2, <1>4 DEF Sessions
<1> HIDE DEF d
<1>6. /\ echo \in Seq(Messages) /\ Len(echo) \in Nat
      /\ \A i \in DOMAIN echo : i = 1 /\ echo[i] = Done(t) /\ t \notin o.tree_is_done
  <2>1. Done(t) \in Messages
    BY <1>2 DEF Done, Messages
  <2> QED  BY <1>4, <2>1
<1> HIDE DEF echo
<1>7. /\ a \in Sessions /\ asks \in Seq(Messages)
      /\ Related(a, d) /\ a.valve = d.valve /\ a.received = d.received
      /\ a.held \subseteq d.held \cup d.certs \cup d.ancestry /\ d.requested \subseteq a.requested
      /\ \A i \in DOMAIN asks :
           \E x \in Contents : asks[i] = [cmd |-> "send_data", item |-> x] /\ d.role # "source"
  BY <1>2, <1>5, AnalyzedLeft
<1> HIDE DEF a, asks
<1>8. /\ z \in Sessions
      /\ z.valve <=> a.valve \/ (a.requested \cap Epochs = {} /\ "epoch" \in a.tree_is_done)
      /\ z.held = a.held /\ z.requested = a.requested
      /\ Related(z, a) /\ z.received = a.received
  BY <1>7, EpochsNotedLeft
<1> HIDE DEF z
<1>9. CASE t \in o.had_refinements /\ Reply(p, s, db[p].epoch, echo)
  <2>1. DoneLeft(p, t, s, echo)
    BY <1>4, <1>6, <1>9, <1>o DEF DoneLeft
  <2> QED  BY <2>1
<1>10. CASE t \notin o.had_refinements /\ Reply(p, z, db[p].epoch, echo \o asks)
  <2>1. ASSUME NEW i \in DOMAIN asks
        PROVE  asks[i].cmd = "send_data" /\ TypeOf(asks[i].item) \notin Types /\ o.role # "source"
    <3>1. PICK x \in Contents : asks[i] = [cmd |-> "send_data", item |-> x] /\ d.role # "source"
      BY <1>7
    <3>2. TypeOf(x) = "content"
      BY <3>1, KindOf DEF Things, Items
    <3> QED  BY <1>4, <1>5, <3>1, <3>2 DEF Types
  <2>2. /\ echo \o asks \in Seq(Messages)
        /\ \A i \in DOMAIN echo : (echo \o asks)[i] = echo[i]
        /\ \A i \in DOMAIN (echo \o asks) :
             \/ i \in DOMAIN echo
             \/ i - Len(echo) \in DOMAIN asks /\ (echo \o asks)[i] = asks[i - Len(echo)]
    <3>1. echo \o asks \in Seq(Messages) /\ \A i \in DOMAIN echo : (echo \o asks)[i] = echo[i]
      BY <1>6, <1>7, ConcatAt
    <3>2. \A i \in DOMAIN (echo \o asks) :
             \/ i \in DOMAIN echo
             \/ i > Len(echo) /\ i - Len(echo) \in DOMAIN asks
                  /\ (echo \o asks)[i] = asks[i - Len(echo)]
      BY <1>6, <1>7, ConcatAt
    <3> QED  BY <3>1, <3>2
  <2>3. \A i \in DOMAIN (echo \o asks) :
          \/ i = 1 /\ (echo \o asks)[i] = Done(t) /\ t \notin o.tree_is_done
          \/ /\ (echo \o asks)[i].cmd = "send_data" /\ TypeOf((echo \o asks)[i].item) \notin Types
             /\ o.role # "source"
    BY <1>6, <2>1, <2>2
  <2>4. /\ z.had_refinements = o.had_refinements \ ({t} \ o.tree_is_done)
        /\ z.tree_is_done = o.tree_is_done \cup ({t} \ o.had_refinements)
        /\ z.role = o.role /\ z.tree = o.tree /\ z.authenticated = o.authenticated /\ z.live = o.live
        /\ z.received = o.received /\ o.requested \subseteq z.requested
        /\ z.certs = o.certs /\ z.ancestry = o.ancestry /\ z.error = o.error
        /\ z.held \subseteq o.held \cup o.certs \cup o.ancestry
        /\ z.valve => o.valve \/ (z.requested \cap Epochs = {} /\ "epoch" \in z.tree_is_done)
    BY <1>4, <1>5, <1>7, <1>8, <1>10 DEF Related
  <2>5. DoneLeft(p, t, z, echo \o asks)
    BY <1>8, <1>10, <1>o, <2>2, <2>3, <2>4 DEF DoneLeft
  <2> QED  BY <2>5
<1> QED  BY <1>3, <1>9, <1>10

LEMMA DoneStep ==
  ASSUME Inv, NEW p \in Peers, ProcessDone(p)
  PROVE  Inv' /\ WritesKnown
<1>t. PICK t : t = Head(inbuf[p]).type
  OBVIOUS
<1>o. PICK o : o = sess[p]
  OBVIOUS
<1>n. PICK n, out : DoneLeft(p, t, n, out)
  BY <1>t, ProcessDoneLeft
<1> DEFINE q == Other(p)
<1>0. q \in Peers /\ q # p /\ Peers = {p, q} /\ p \in {"client", "server"}
  BY TwoPeers DEF Peers
<1>1. Processing(p, "done")
  BY DEF ProcessDone
<1>2. /\ inbuf[p] # <<>> /\ o \in Sessions /\ o.live /\ db[p].epoch \in Epochs \cup {NoEpoch}
      /\ Stream(p)[1] = Head(inbuf[p]) /\ 1 \in DOMAIN Stream(p) /\ Stream(p)[1].cmd = "done"
      /\ t \in Types /\ sess["client"].authenticated
      /\ o.role = "source" => o.held = {} /\ o.certs = {} /\ o.ancestry = {}
  BY <1>1, <1>t, <1>o, Handling
<1>3. /\ TypeOK /\ DatabaseClosed /\ Committed /\ Authentication /\ Opposed /\ Roots /\ Markers
      /\ Traffic /\ EpochsMet /\ EpochLeads
  BY DEF Inv
<1>4. IsDone(p, 1, t)
  BY <1>2, <1>t DEF IsDone
<1>5. /\ n \in Sessions /\ out \in Seq(Messages) /\ Reply(p, n, db[p].epoch, out)
      /\ n.had_refinements = o.had_refinements \ ({t} \ o.tree_is_done)
      /\ n.tree_is_done = o.tree_is_done \cup ({t} \ o.had_refinements)
      /\ n.role = o.role /\ n.tree = o.tree /\ n.authenticated = o.authenticated /\ n.live = o.live
      /\ n.received = o.received /\ o.requested \subseteq n.requested
      /\ n.certs = o.certs /\ n.ancestry = o.ancestry /\ n.error = o.error
      /\ n.held \subseteq o.held \cup o.certs \cup o.ancestry
      /\ n.valve => o.valve \/ (n.requested \cap Epochs = {} /\ "epoch" \in n.tree_is_done)
      /\ \A i \in DOMAIN out :
           \/ i = 1 /\ out[i] = Done(t) /\ t \notin o.tree_is_done
           \/ /\ out[i].cmd = "send_data" /\ TypeOf(out[i].item) \notin Types
              /\ o.role # "source"
  BY <1>n, <1>o DEF DoneLeft
<1> HIDE DEF q
<1>13. Left(p, n, db[p].epoch) /\ TypeOK' /\ DatabaseClosed' /\ Committed'
  BY <1>2, <1>3, <1>5, ReplyLeft
<1>14. PICK sent : Leaving(p, out, sent) /\ Flow(p, 1, sent)
  BY <1>2, <1>3, <1>5, ReplyFlow
<1>15. /\ conf' = conf /\ sess'[q] = sess[q] /\ db'[q] = db[q] /\ db'[p].epoch = db[p].epoch
       /\ sess'[p].live = o.live /\ sess'[p].role = o.role
       /\ sess'[p].authenticated = o.authenticated /\ sess'[p].valve = n.valve /\ sess'[p].tree = o.tree
       /\ sess'[p].had_refinements = n.had_refinements
       /\ sess'[p].tree_is_done = n.tree_is_done
       /\ sess'[p].requested = n.requested /\ sess'[p].received = o.received
       /\ sess'[p].certs = o.certs /\ sess'[p].ancestry = o.ancestry /\ sess'[p].error = o.error
       /\ sess'[p].held \subseteq n.held
  BY <1>5, <1>13 DEF Left, q
<1>16. Settled
  BY <1>0, <1>2, <1>3, <1>15, <1>o DEF Settled, Authentication
<1>17. ASSUME NEW i \in DOMAIN sent
       PROVE  /\ \/ i = 1 /\ sent[i] = Done(t) /\ t \notin o.tree_is_done
                 \/ sent[i].cmd = "send_data" /\ TypeOf(sent[i].item) \notin Types /\ o.role # "source"
                 \/ sent[i].cmd = "bye"
              /\ ~o.error
  <2>1. ~sess[p].error /\ ((i \in DOMAIN out /\ sent[i] = out[i]) \/ sent[i] = Simple("bye"))
    BY <1>14 DEF Leaving
  <2>2. Simple("bye").cmd = "bye"
    BY SimpleCommands
  <2>3. CASE i \in DOMAIN out /\ sent[i] = out[i]
    BY <1>5, <1>o, <2>1, <2>3
  <2>4. CASE sent[i] = Simple("bye")
    BY <1>o, <2>1, <2>2, <2>4
  <2> QED  BY <2>1, <2>3, <2>4
<1>18. Marked(p, t, sent)
  <2>1. /\ \A r \in Peers : sess'[r].error => sess[r].error
        /\ sess'[q].had_refinements = sess[q].had_refinements
        /\ sess'[q].tree_is_done = sess[q].tree_is_done
        /\ sess'[p].had_refinements = sess[p].had_refinements \ ({t} \ sess[p].tree_is_done)
        /\ sess'[p].tree_is_done = sess[p].tree_is_done \cup ({t} \ sess[p].had_refinements)
    BY <1>0, <1>5, <1>15, <1>o
  <2>2. \A i \in DOMAIN sent :
           \/ i = 1 /\ sent[i] = Done(t) /\ t \notin sess[p].tree_is_done
           \/ sent[i].cmd = "send_data" /\ TypeOf(sent[i].item) \notin Types
           \/ sent[i].cmd = "bye"
    BY <1>17, <1>o
  <2> QED  BY <1>2, <1>4, <1>14, <1>16, <2>1, <2>2 DEF Marked, q
<1>19. InRole(p, sent)
  <2>1. sess[q].role = "source" => sess[q].held = {} /\ sess[q].certs = {} /\ sess[q].ancestry = {}
    BY <1>0, <1>3 DEF Opposed
  <2>2. \A r \in Peers : sess[r].role = "source" =>
          sess'[r].held = {} /\ sess'[r].certs = {} /\ sess'[r].ancestry = {}
    BY <1>0, <1>2, <1>5, <1>15, <1>o, <2>1
  <2>3. Done(t).cmd = "done"
    BY DEF Done
  <2> QED  BY <1>17, <1>o, <2>2, <2>3 DEF InRole
<1>20. RootSeen' => RootSeen
  <2> SUFFICES ASSUME RootSeen' PROVE RootSeen
    OBVIOUS
  <2>1. RootSeen \/ (p = "server" /\ IsRefine(p, 1, "epoch"))
    BY <1>2, <1>14, RootSeenKept
  <2> QED  BY <1>2, <2>1 DEF IsRefine
<1>21. ASSUME NEW i \in DOMAIN sent, p = "server", sent[i].cmd = "done", sent[i].type = "epoch"
       PROVE  RootSeen /\ Going(p)
  <2>1. ~o.error /\ t = "epoch"
    BY <1>17, <1>21 DEF Done
  <2>2. \A j \in DOMAIN Stream(p) : ~IsRefine(p, j, t)
    <3> SUFFICES ASSUME NEW j \in DOMAIN Stream(p), IsRefine(p, j, t) PROVE FALSE
      OBVIOUS
    <3>1. 1 > j /\ j \in Nat \ {0}
      BY <1>2, <1>3, <1>4, <1>14 DEF Roots, Flow
    <3> QED  BY <3>1
  <2> QED  BY <1>2, <1>21, <1>o, <2>1, <2>2 DEF RootSeen, Going
<1>22. EpochStep(p, 1, sent)
  <2>1. \A j \in DOMAIN Stream(p) : j <= 1 => Stream(p)[j].cmd # "data"
    <3>1. \A j \in DOMAIN Stream(p) : j \in Nat \ {0}
      BY <1>14 DEF Flow
    <3>2. \A j \in DOMAIN Stream(p) : j <= 1 => j = 1
      BY <3>1
    <3> QED  BY <1>2, <3>2
  <2>2. (sess'[p].live => sess[p].live) /\ (Going(p)' => Going(p))
    BY <1>15, <1>o DEF Going
  <2>3. /\ sess[p].tree_is_done \subseteq sess'[p].tree_is_done
        /\ sess'[p].received = sess[p].received /\ sess[p].requested \subseteq sess'[p].requested
    BY <1>5, <1>15, <1>o
  <2>4. "epoch" \in sess'[p].tree_is_done => "epoch" \in sess[p].tree_is_done \/ IsDone(p, 1, "epoch")
    BY <1>4, <1>5, <1>15, <1>o
  <2>5. sess'[p].valve =>
           \/ sess[p].valve
           \/ sess'[p].requested \cap Epochs = {} /\ "epoch" \in sess'[p].tree_is_done
    BY <1>5, <1>15, <1>o
  <2> QED  BY <1>14, <1>15, <1>16, <1>20, <1>21, <2>1, <2>2, <2>3, <2>4, <2>5 DEF EpochStep, q
<1>23. Roots'
  BY <1>3, <1>18, MarkedRoots
<1>24. Authentication' /\ Opposed'
  BY <1>3, <1>14, <1>16, <1>19, SettledAuthentication, SettledOpposed
<1>25. Markers'
  BY <1>3, <1>18, MarkedMarkers
<1>26. Traffic'
  BY <1>3, <1>18, MarkedTraffic
<1>27. EpochsMet'
  BY <1>3, <1>22, <1>23, SettledEpochs
<1>28. LeadStep(p, 1, sent)
  <2>1. \A i \in DOMAIN sent :
           /\ sent[i].cmd # "refine" /\ sent[i].cmd # "data"
           /\ Going(p)
    BY <1>2, <1>17, <1>o DEF Done, Going
  <2>2. Exchanged(Stream(p)[1]) /\ \A x : ~RequestFor(p, 1, x)
    BY <1>2 DEF Exchanged, RequestFor
  <2>3. KeepsNothing(p) => KeepsNothing(p)'
    BY <1>5, <1>15, <1>o DEF KeepsNothing
  <2>4. \A j : j \in DOMAIN Stream(p) /\ j <= 1 <=> j = 1
    <3>1. \A j \in DOMAIN Stream(p) : j \in Nat \ {0}
      BY <1>14 DEF Flow
    <3> QED  BY <1>2, <3>1
  <2> QED  BY <1>2, <1>20, <1>22, <2>1, <2>2, <2>3, <2>4 DEF LeadStep
<1>29. EpochLeads'
  BY <1>3, <1>28, LeadsKept
<1>30. WritesKnown
  <2>1. \A i \in DOMAIN Stream(p) : i \in Nat \ {0}
    BY <1>14 DEF Flow
  <2>2. KeepsNothing(p) => n.held = {}
    BY <1>5, <1>o DEF KeepsNothing
  <2>3. sess[p].role = "source" => n.held = {}
    BY <1>2, <1>5, <1>o
  <2>4. n.valve =>
          sess[p].valve \/ "epoch" \in sess[p].tree_is_done \/ IsDone(p, 1, "epoch")
    BY <1>4, <1>5, <1>o
  <2> QED  BY <1>2, <1>5, <1>13, <1>o, <2>1, <2>2, <2>3, <2>4, ValveWrites
<1> QED  BY <1>13, <1>23, <1>24, <1>25, <1>26, <1>27, <1>29, <1>30 DEF Inv

LEMMA ThreePairs ==
  ASSUME NEW S, NEW a \in S, NEW b \in S, NEW c \in S, NEW d \in S, NEW e \in S, NEW f \in S
  PROVE  <<a, b>> \o <<c, d>> \o <<e, f>> = <<a, b, c, d, e, f>>
<1> DEFINE u == <<a, b>>
           v == <<c, d>>
           w == <<e, f>>
           all == <<a, b, c, d, e, f>>
<1>1. /\ u \in Seq(S) /\ v \in Seq(S) /\ w \in Seq(S) /\ all \in Seq(S)
      /\ Len(u) = 2 /\ Len(v) = 2 /\ Len(w) = 2 /\ Len(all) = 6
      /\ u[1] = a /\ u[2] = b /\ v[1] = c /\ v[2] = d /\ w[1] = e /\ w[2] = f
      /\ all[1] = a /\ all[2] = b /\ all[3] = c /\ all[4] = d /\ all[5] = e /\ all[6] = f
  OBVIOUS
<1> HIDE DEF u, v, w, all
<1>2. /\ u \o v \in Seq(S) /\ Len(u \o v) = Len(u) + Len(v)
      /\ \A i \in 1..Len(u) + Len(v) : (u \o v)[i] = IF i <= Len(u) THEN u[i] ELSE v[i - Len(u)]
  BY <1>1, ConcatProperties
<1> DEFINE x == u \o v
<1>3. /\ x \in Seq(S) /\ Len(x) = 4 /\ x[1] = a /\ x[2] = b /\ x[3] = c /\ x[4] = d
  BY <1>1, <1>2
<1> HIDE DEF x
<1>4. /\ x \o w \in Seq(S) /\ Len(x \o w) = Len(x) + Len(w)
      /\ \A i \in 1..Len(x) + Len(w) : (x \o w)[i] = IF i <= Len(x) THEN x[i] ELSE w[i - Len(x)]
  BY <1>1, <1>3, ConcatProperties
<1>5. x \o w \in Seq(S) /\ Len(x \o w) = Len(all) /\ \A i \in 1..Len(x \o w) : (x \o w)[i] = all[i]
  BY <1>1, <1>3, <1>4
<1>6. x \o w = all
  BY <1>1, <1>5, SeqEqual
<1> QED  BY <1>6 DEF x, u, v, w, all

LEMMA ConfirmStep ==
  ASSUME Inv, ProcessConfirm
  PROVE  /\ Inv' /\ WritesKnown
         /\ \E sent : Confirmed("client", sent)
         /\ \E out \in Seq(Messages) :
              Reply("client", [sess["client"] EXCEPT !.authenticated = TRUE], db["client"].epoch, out)
<1>p. PICK p : p = "client"
  OBVIOUS
<1> DEFINE q == Other(p)
           o == sess[p]
           n == [o EXCEPT !.authenticated = TRUE]
           out == Opening(o.tree)
<1>0. p \in Peers /\ q = "server" /\ q \in Peers
  BY <1>p DEF Peers, Other
<1>1. Processing(p, "confirm") /\ ~o.authenticated /\ Reply(p, n, db[p].epoch, out)
  <2> DEFINE Roots1(t) == <<Refine(t, o.tree), Done(t)>>
  <2>1. Roots1("epoch") \o Roots1("key") \o Roots1("cert") = out
    <3> DEFINE S == {Refine(t, o.tree) : t \in Types} \cup {Done(t) : t \in Types}
    <3>1. \A t \in Types : Refine(t, o.tree) \in S /\ Done(t) \in S
      OBVIOUS
    <3>2. "epoch" \in Types /\ "key" \in Types /\ "cert" \in Types
      BY DEF Types
    <3> HIDE DEF S
    <3> QED  BY <3>1, <3>2, ThreePairs DEF Opening
  <2> HIDE DEF out
  <2>2. /\ Processing(p, "confirm") /\ ~o.authenticated
        /\ Reply(p, n, db[p].epoch, Roots1("epoch") \o Roots1("key") \o Roots1("cert"))
    BY <1>p DEF ProcessConfirm
  <2> HIDE DEF Roots1
  <2> QED  BY <2>1, <2>2
<1>2. /\ inbuf[p] # <<>> /\ o \in Sessions /\ db[p].epoch \in Epochs \cup {NoEpoch}
      /\ Stream(p)[1].cmd = "confirm" /\ 1 \in DOMAIN Stream(p)
  BY <1>0, <1>1, Handling
<1>3. /\ TypeOK /\ DatabaseClosed /\ Committed /\ Authentication /\ Opposed /\ Roots
      /\ EpochsMet /\ EpochLeads
  BY DEF Inv
<1>4. /\ n \in Sessions /\ n.authenticated /\ n.role = o.role /\ n.tree = o.tree /\ n.live = o.live
      /\ n.error = o.error /\ n.received = o.received /\ n.valve = o.valve
      /\ n.had_refinements = o.had_refinements /\ n.tree_is_done = o.tree_is_done
      /\ n.held = o.held /\ n.certs = o.certs /\ n.ancestry = o.ancestry
  BY <1>2 DEF Sessions
<1>5. out \in Seq(Messages) /\ DOMAIN out = 1..6
  <2>1. \A t \in Types : Refine(t, o.tree) \in Messages /\ Done(t) \in Messages
    <3> SUFFICES ASSUME NEW t \in Types
                 PROVE  Refine(t, o.tree) \in Messages /\ Done(t) \in Messages
      OBVIOUS
    <3>1. o.tree[t] \in SUBSET Things
      BY <1>2 DEF Sessions
    <3> QED  BY <3>1 DEF Refine, Done, Messages
  <2>2. "epoch" \in Types /\ "key" \in Types /\ "cert" \in Types
    BY DEF Types
  <2>3. <<Refine("epoch", o.tree), Done("epoch"), Refine("key", o.tree), Done("key"),
          Refine("cert", o.tree), Done("cert")>> \in Seq(Messages)
    BY <2>1, <2>2
  <2> QED  BY <2>3 DEF Opening
<1>6. /\ ~o.error /\ ~o.valve /\ o.had_refinements = {} /\ o.tree_is_done = {}
      /\ o.held = {} /\ o.certs = {} /\ o.ancestry = {}
      /\ sess[q].authenticated /\ ~sess[q].error
  BY <1>0, <1>1, <1>2, <1>3, <1>p DEF Authentication
<1> HIDE DEF n, out, q
<1>7. Left(p, n, db[p].epoch) /\ TypeOK' /\ DatabaseClosed' /\ Committed'
  BY <1>0, <1>1, <1>2, <1>3, <1>4, <1>5, ReplyLeft
<1>8. PICK sent : Leaving(p, out, sent) /\ Flow(p, 1, sent)
  BY <1>0, <1>1, <1>2, <1>3, <1>4, <1>5, ReplyFlow
<1>9. /\ \A i \in DOMAIN sent : (i \in 1..6 /\ sent[i] = out[i]) \/ sent[i] = Simple("bye")
      /\ \A i \in 1..6 : i \in DOMAIN sent /\ sent[i] = out[i]
  BY <1>5, <1>6, <1>8 DEF Leaving
<1>10. Simple("bye").cmd = "bye"
  BY SimpleCommands
<1>11. /\ conf' = conf /\ sess'[q] = sess[q] /\ db'[q].epoch = db[q].epoch
       /\ db'[p].epoch = db[p].epoch /\ sess'[p].live = o.live /\ sess'[p].role = o.role
       /\ sess'[p].authenticated /\ sess'[p].valve = o.valve /\ sess'[p].tree = o.tree
       /\ sess'[p].had_refinements = {} /\ sess'[p].tree_is_done = {}
       /\ sess'[p].received = o.received /\ sess'[p].error = o.error
       /\ sess'[p].certs = {} /\ sess'[p].ancestry = {} /\ sess'[p].held = {}
  BY <1>4, <1>6, <1>7 DEF Left, q
<1>12. Confirmed(p, sent)
  BY <1>1, <1>6, <1>8, <1>9, <1>10, <1>11, <1>p DEF Confirmed, q, out
<1>13. Authentication' /\ Opposed' /\ Roots' /\ Markers' /\ Traffic' /\ EpochsMet' /\ EpochLeads'
  BY <1>0, <1>3, <1>12, ConfirmedStep
<1>14. WritesKnown
  BY <1>0, <1>3, <1>4, <1>6, <1>7, ReplyWrites
<1>15. \E ou \in Seq(Messages) :
         Reply("client", [sess["client"] EXCEPT !.authenticated = TRUE], db["client"].epoch, ou)
  BY <1>1, <1>5, <1>p DEF n
<1> QED  BY <1>7, <1>12, <1>13, <1>14, <1>15, <1>p DEF Inv

(* The trees that are built from a database.                               *)
LEMMA BuiltTree ==
  ASSUME NEW D \in Databases
  PROVE  /\ Tree(D) \in [Types -> SUBSET Things]
         /\ Rebuilt(D) \in Databases /\ Rebuilt(D).items = D.items
         /\ D.epoch \in {NoEpoch, Rebuilt(D).epoch}
         /\ Tree(D)["epoch"] \subseteq Epochs \cap {Rebuilt(D).epoch}
         /\ \A t \in Types : \A x \in Tree(D)[t] : TypeOf(x) = t
<1>1. D.items \in SUBSET Items /\ D.epoch \in Epochs \cup {NoEpoch}
  BY DEF Databases
<1>2. /\ Rebuilt(D) \in Databases /\ Rebuilt(D).items = D.items
      /\ Rebuilt(D).epoch = IF HasBranch(D) /\ D.epoch = NoEpoch THEN Zero ELSE D.epoch
  BY SessionConstants DEF Rebuilt, Databases
<1>3. HasBranch(D) => Rebuilt(D).epoch \in Epochs
  BY <1>1, <1>2, SessionConstants
<1> DEFINE e == IF HasBranch(D) THEN {Rebuilt(D).epoch} ELSE {}
           k == {KeyOf[c] : c \in Certs \cap D.items} \cap D.items
           c == Certs \cap D.items
<1>4. e \subseteq Epochs /\ e \subseteq {Rebuilt(D).epoch}
  BY <1>3
<1>5. k \subseteq Keys /\ c \subseteq Certs
  BY SessionConstants
<1>6. Tree(D) = [epoch |-> e, key |-> k, cert |-> c]
  BY DEF Tree
<1> HIDE DEF e, k, c
<1>7. /\ Tree(D)["epoch"] = e /\ Tree(D)["key"] = k /\ Tree(D)["cert"] = c
      /\ Tree(D) = [t \in Types |-> Tree(D)[t]]
  BY <1>6 DEF Types
<1>8. Epochs \subseteq Things /\ Keys \subseteq Things /\ Certs \subseteq Things
  BY DEF Things, Items
<1>9. ASSUME NEW t \in Types
      PROVE  Tree(D)[t] \in SUBSET Things /\ \A x \in Tree(D)[t] : TypeOf(x) = t
  <2>1. CASE t = "epoch"
    BY <1>4, <1>7, <1>8, <2>1, KindOf
  <2>2. CASE t = "key"
    BY <1>5, <1>7, <1>8, <2>2, KindOf
  <2>3. CASE t = "cert"
    BY <1>5, <1>7, <1>8, <2>3, KindOf
  <2> QED  BY <2>1, <2>2, <2>3 DEF Types
<1> QED  BY <1>1, <1>2, <1>4, <1>7, <1>9

LEMMA HelloStep ==
  ASSUME Inv, ProcessHello
  PROVE  Inv' /\ WritesKnown
<1>p. PICK p : p = "client"
  OBVIOUS
<1> DEFINE q == Other(p)
           o == sess[p]
           D == [db[p] EXCEPT !.items = @ \cup {ServerKey}]
           n == [o EXCEPT !.tree = Tree(D)]
           m == Simple(IF conf.anonymous THEN "anonymous" ELSE "auth")
<1>0. p \in Peers /\ q = "server" /\ q \in Peers /\ p # q /\ Peers = {p, q}
  BY <1>p DEF Peers, Other
<1>1. /\ Processing(p, "hello") /\ ~o.authenticated
      /\ \/ Close(p)
         \/ /\ db' = [db EXCEPT ![p] = Rebuilt(D)]
            /\ sess' = [sess EXCEPT ![p].tree = Tree(D)]
            /\ net' = [net EXCEPT ![q] = Append(@, m)]
            /\ inbuf' = [inbuf EXCEPT ![p] = Tail(@)]
            /\ conf' = conf /\ disk' = disk
  BY <1>0, <1>p DEF ProcessHello
<1>2. CASE Close(p)
  BY <1>0, <1>2, CloseStep
<1>3. ASSUME /\ db' = [db EXCEPT ![p] = Rebuilt(D)]
             /\ sess' = [sess EXCEPT ![p].tree = Tree(D)]
             /\ net' = [net EXCEPT ![q] = Append(@, m)]
             /\ inbuf' = [inbuf EXCEPT ![p] = Tail(@)]
             /\ conf' = conf /\ disk' = disk
      PROVE  Inv' /\ WritesKnown
  <2>1. /\ TypeOK /\ DatabaseClosed /\ Authentication /\ Opposed /\ Roots /\ EpochsMet
    BY DEF Inv
  <2>2. /\ inbuf[p] # <<>> /\ o \in Sessions /\ sess \in [Peers -> Sessions]
        /\ db \in [Peers -> Databases] /\ db[p] \in Databases /\ net \in [Peers -> Seq(Messages)]
    BY <1>0, <1>1, <2>1, Handling DEF TypeOK
  <2>3. D \in Databases /\ D.items = db[p].items \cup {ServerKey} /\ D.epoch = db[p].epoch
    BY <2>2, SessionConstants DEF Databases, Items
  <2>4. m \in Messages /\ m.cmd \in {"anonymous", "auth"}
    BY SimpleCommands
  <2> HIDE DEF D, m, q
  <2>5. /\ Tree(D) \in [Types -> SUBSET Things]
        /\ Rebuilt(D) \in Databases /\ Rebuilt(D).items = D.items
        /\ D.epoch \in {NoEpoch, Rebuilt(D).epoch}
        /\ Tree(D)["epoch"] \subseteq Epochs \cap {Rebuilt(D).epoch}
        /\ \A t \in Types : \A x \in Tree(D)[t] : TypeOf(x) = t
    BY <2>3, BuiltTree
  <2>6. /\ n \in Sessions /\ n.tree = Tree(D) /\ n.live = o.live /\ n.role = o.role
        /\ n.authenticated = o.authenticated /\ n.received = o.received /\ n.error = o.error
        /\ n.had_refinements = o.had_refinements /\ n.tree_is_done = o.tree_is_done
        /\ n.held = o.held /\ n.certs = o.certs /\ n.ancestry = o.ancestry /\ n.valve = o.valve
    BY <2>2, <2>5 DEF Sessions
  <2>7. /\ sess' = [sess EXCEPT ![p] = n] /\ sess'[p] = n /\ sess'[q] = sess[q]
        /\ db'[p] = Rebuilt(D) /\ db'[q] = db[q]
    BY <1>0, <1>3, <2>2
  <2> HIDE DEF n
  <2>8. /\ Flow(p, 1, <<m>>)
        /\ net' \in [Peers -> Seq(Messages)] /\ inbuf' \in [Peers -> Seq(Messages)]
    <3>1. net[q] \in Seq(Messages)
      BY <1>0, <2>2
    <3>2. Append(net[q], m) = net[q] \o <<m>> /\ <<m>> \in Seq(Messages)
      <4> DEFINE b == net[q]
      <4>1. b \in Seq(Messages)
        BY <3>1
      <4> HIDE DEF b
      <4> QED  BY <2>4, <4>1 DEF b
    <3>3. net' = [net EXCEPT ![q] = net[q] \o <<m>>]
      BY <1>3, <3>2
    <3> QED  BY <1>0, <1>3, <2>1, <2>2, <3>2, <3>3, TakenFlow DEF q
  <2>9. TypeOK'
    BY <1>3, <2>1, <2>2, <2>5, <2>6, <2>7, <2>8 DEF TypeOK
  <2>10. DatabaseClosed'
    <3>1. Needs(ServerKey) = {}
      BY SessionConstants DEF Needs
    <3>2. Closure(db[p].items) /\ Closure(db[q].items)
          /\ \A r \in Peers : Closure(disk[r].items)
      BY <1>0, <2>1 DEF DatabaseClosed
    <3>3. Closure(db'[p].items)
      BY <2>3, <2>5, <2>7, <3>1, <3>2 DEF Closure
    <3> QED  BY <1>0, <1>3, <2>7, <3>2, <3>3 DEF DatabaseClosed
  <2>11. /\ ~sess["client"].authenticated /\ ~sess["client"].error
         /\ \A r \in Peers :
              /\ sess[r].had_refinements = {} /\ sess[r].tree_is_done = {}
              /\ sess[r].held = {} /\ sess[r].certs = {} /\ sess[r].ancestry = {}
              /\ ~sess[r].valve
    BY <1>1, <1>p, <2>1 DEF Authentication
  <2>12. ASSUME NEW r \in Peers
         PROVE  /\ sess'[r].had_refinements = {} /\ sess'[r].tree_is_done = {}
                /\ sess'[r].held = {} /\ sess'[r].certs = {} /\ sess'[r].ancestry = {}
                /\ ~sess'[r].valve
                /\ \A t \in Types : \A x \in sess'[r].tree[t] : TypeOf(x) = t
                /\ sess'[r].tree["epoch"] \subseteq Epochs
                /\ sess'[r].live => sess'[r].tree["epoch"] \subseteq {db'[r].epoch}
                /\ Going(r)' => sess'[r].received \cap Epochs \subseteq {db'[r].epoch}
    <3>1. /\ sess[r].tree["epoch"] \subseteq Epochs
          /\ sess[r].live => sess[r].tree["epoch"] \subseteq {db[r].epoch}
          /\ Going(r) => sess[r].received \cap Epochs \subseteq {db[r].epoch}
          /\ \A t \in Types : \A x \in sess[r].tree[t] : TypeOf(x) = t
      BY <2>1 DEF EpochsMet, Roots
    <3>2. CASE r = q
      BY <2>7, <2>11, <3>1, <3>2 DEF Going
    <3>3. CASE r = p
      <4>1. Going(r)' => sess'[r].received \cap Epochs \subseteq {db'[r].epoch}
        BY <2>3, <2>5, <2>6, <2>7, <3>1, <3>3, SessionConstants DEF Going
      <4> QED  BY <2>5, <2>6, <2>7, <2>11, <3>3, <4>1
    <3> QED  BY <1>0, <3>2, <3>3
  <2>13. /\ sess'["server"] = sess["server"] /\ sess'["client"].role = sess["client"].role
         /\ ~sess'["client"].authenticated /\ ~sess'["client"].error
    BY <1>0, <1>p, <2>6, <2>7, <2>11 DEF q
  <2>14. sess'["server"].authenticated =>
           \A r \in Peers : sess'[r].role = "source" <=> sess'[Other(r)].role = "sink"
    <3>1. \A r \in Peers : sess'[r].role = sess[r].role
      BY <2>13 DEF Peers
    <3> QED  BY <2>1, <2>13, <3>1, TwoPeers DEF Opposed
  <2>15. \A i \in DOMAIN <<m>> : <<m>>[i].cmd \in {"anonymous", "auth"}
    BY <2>4
  <2>18. Committed'
    BY <1>0, <1>3, <2>3, <2>5, <2>7 DEF Inv, Committed
  <2>19. \A r \in Peers : \A x, y \in sess'[r].tree["epoch"] : x = y
    <3>1. \A x, y \in sess'[p].tree["epoch"] : x = y
      BY <2>5, <2>6, <2>7
    <3>2. \A x, y \in sess'[q].tree["epoch"] : x = y
      BY <1>0, <2>7 DEF Inv, EpochLeads
    <3> QED  BY <1>0, <3>1, <3>2
  <2>20. sess'["server"].requested = {}
    BY <2>11, <2>13 DEF Inv, EpochLeads, RootSeen
  <2>16. Quiet(p, 1, <<m>>)
    BY <1>3, <2>19, <2>20, <2>8, <2>11, <2>12, <2>13, <2>14, <2>15 DEF Quiet, Exchanged
  <2>17. Authentication' /\ Opposed' /\ Roots' /\ Markers' /\ Traffic' /\ EpochsMet' /\ EpochLeads'
    BY <1>0, <2>1, <2>16, QuietStep
  <2>21. WritesKnown
    BY <1>0, <2>3, <2>5, <2>7, NothingWritten
  <2> QED  BY <2>9, <2>10, <2>17, <2>18, <2>21 DEF Inv
<1> QED  BY <1>1, <1>2, <1>3

LEMMA AuthStep ==
  ASSUME Inv, ProcessAuth
  PROVE  Inv' /\ WritesKnown
<1>p. PICK p : p = "server"
  OBVIOUS
<1>o. PICK o : o = sess[p]
  OBVIOUS
<1> DEFINE anonymous == Head(inbuf[p]).cmd = "anonymous"
           allowed == IF anonymous THEN AnonymousAllowed ELSE AuthAllowed
           n == [o EXCEPT !.tree = Tree(db[p]), !.authenticated = TRUE, !.role = OppositeRole]
           e == [o EXCEPT !.error = TRUE, !.sent_goodbye = TRUE]
<1>0. p \in Peers
  BY <1>p DEF Peers
<1>1. /\ Processing(p, "anonymous") \/ Processing(p, "auth")
      /\ ~o.authenticated
      /\ \/ Close(p)
         \/ Reply(p, e, db[p].epoch, <<Simple("error")>>)
         \/ /\ allowed /\ (anonymous \/ WriteAllowed)
            /\ Reply(p, n, Rebuilt(db[p]).epoch, <<Simple("confirm")>>)
  BY <1>p, <1>o DEF ProcessAuth, ReplyError
<1>2. /\ inbuf[p] # <<>> /\ o \in Sessions /\ o.live /\ db[p].epoch \in Epochs \cup {NoEpoch}
  BY <1>0, <1>1, <1>o, Handling
<1>3. /\ TypeOK /\ Authentication /\ Opposed /\ Roots /\ EpochsMet /\ db[p] \in Databases
  BY <1>0 DEF Inv, TypeOK
<1>4. ~sess["client"].authenticated /\ sess["client"].role = conf.role["client"]
  BY <1>1, <1>3, <1>p, <1>o DEF Authentication, Opposed
<1>5. CASE Close(p)
  BY <1>0, <1>5, CloseStep
<1>6. CASE Reply(p, e, db[p].epoch, <<Simple("error")>>)
  <2>1. /\ e \in Sessions /\ e.role = o.role /\ e.tree = o.tree
        /\ e.authenticated = o.authenticated /\ e.live = o.live
        /\ e.had_refinements = o.had_refinements /\ e.tree_is_done = o.tree_is_done
        /\ e.held = o.held /\ e.certs = o.certs /\ e.ancestry = o.ancestry /\ e.valve = o.valve
        /\ e.received = o.received /\ e.requested = o.requested /\ e.error = TRUE
    BY <1>2 DEF Sessions
  <2> DEFINE out == <<Simple("error")>>
  <2>2. out \in Seq(Messages) /\ \A i \in DOMAIN out : out[i].cmd = "error"
    BY SimpleCommands
  <2>3. /\ o.tree["epoch"] \subseteq Epochs /\ o.tree["epoch"] \subseteq {db[p].epoch}
        /\ \A t \in Types : \A x \in o.tree[t] : TypeOf(x) = t
    BY <1>0, <1>2, <1>3, <1>o DEF EpochsMet, Roots
  <2> HIDE DEF e, out
  <2>4. QuietReply(p, e, db[p].epoch, out)
    BY <1>1, <1>2, <1>o, <1>p, <2>1, <2>2, <2>3 DEF QuietReply
  <2> QED  BY <1>0, <1>2, <1>4, <1>6, <2>1, <2>2, <2>4, QuietReplyStep DEF out
<1>7. CASE /\ allowed /\ (anonymous \/ WriteAllowed)
           /\ Reply(p, n, Rebuilt(db[p]).epoch, <<Simple("confirm")>>)
  <2>1. /\ sess["client"].role \in {"source", "sink", "both"} /\ o.role \in {"source", "sink", "both"}
    BY <1>2, <1>3 DEF TypeOK, Sessions, Peers
  <2>2. /\ OppositeRole \in {"source", "sink", "both"}
        /\ OppositeRole = "source" <=> sess["client"].role = "sink"
        /\ OppositeRole = "sink" <=> sess["client"].role = "source"
    <3>1. CASE sess["client"].role = "source"
      BY <1>4, <3>1 DEF OppositeRole
    <3>2. CASE sess["client"].role = "sink"
      BY <1>4, <3>2 DEF OppositeRole
    <3>3. CASE sess["client"].role = "both"
      <4>1. o.role = "both"
        BY <1>4, <1>7, <1>o, <1>p, <2>1, <3>3 DEF AnonymousAllowed, AuthAllowed, WriteAllowed
      <4>2. OppositeRole = "both"
        BY <1>4, <1>o, <1>p, <3>3, <4>1 DEF OppositeRole
      <4> QED  BY <3>3, <4>2
    <3> QED  BY <2>1, <3>1, <3>2, <3>3
  <2>3. /\ Tree(db[p]) \in [Types -> SUBSET Things]
        /\ Rebuilt(db[p]) \in Databases
        /\ db[p].epoch \in {NoEpoch, Rebuilt(db[p]).epoch}
        /\ Tree(db[p])["epoch"] \subseteq Epochs \cap {Rebuilt(db[p]).epoch}
        /\ \A t \in Types : \A x \in Tree(db[p])[t] : TypeOf(x) = t
    BY <1>3, BuiltTree
  <2>4. /\ n \in Sessions /\ n.role = OppositeRole /\ n.tree = Tree(db[p])
        /\ n.authenticated = TRUE /\ n.live = o.live
        /\ n.had_refinements = o.had_refinements /\ n.tree_is_done = o.tree_is_done
        /\ n.held = o.held /\ n.certs = o.certs /\ n.ancestry = o.ancestry /\ n.valve = o.valve
        /\ n.received = o.received /\ n.requested = o.requested /\ n.error = o.error
    BY <1>2, <2>2, <2>3 DEF Sessions
  <2> DEFINE out == <<Simple("confirm")>>
             ep == Rebuilt(db[p]).epoch
  <2>5. out \in Seq(Messages) /\ \A i \in DOMAIN out : out[i].cmd = "confirm"
    BY SimpleCommands
  <2>6. ep \in Epochs \cup {NoEpoch}
    BY <2>3 DEF Databases
  <2> HIDE DEF n, out
  <2>7. QuietReply(p, n, ep, out)
    BY <1>1, <1>2, <1>o, <1>p, <2>2, <2>3, <2>4, <2>5 DEF QuietReply
  <2> QED  BY <1>0, <1>2, <1>4, <1>7, <2>4, <2>5, <2>6, <2>7, QuietReplyStep DEF out
<1> QED  BY <1>1, <1>5, <1>6, <1>7
-----------------------------------------------------------------------------
(* The invariant, and what follows from it.                                *)

LEMMA InvInit ==
  ASSUME Init
  PROVE  Inv
<1>1. /\ conf \in Configs
      /\ db = [p \in Peers |-> [items |-> conf.items[p], epoch |-> conf.epoch[p]]]
      /\ disk = db
      /\ sess = [p \in Peers |-> NewSession(conf.role[p])]
      /\ net = [client |-> <<Simple("hello")>>, server |-> <<>>]
      /\ inbuf = [p \in Peers |-> <<>>]
  BY DEF Init
<1>2. /\ conf.role \in [Peers -> {"source", "sink", "both"}]
      /\ conf.items \in [Peers -> SUBSET Items]
      /\ conf.epoch \in [Peers -> Epochs \cup {NoEpoch}]
      /\ \A p \in Peers : Closure(conf.items[p])
  BY <1>1, SituationsTyped
<1>3. ASSUME NEW p \in Peers
      PROVE  /\ sess[p] \in Sessions /\ sess[p].role = conf.role[p] /\ ~sess[p].authenticated
             /\ sess[p].had_refinements = {} /\ sess[p].tree_is_done = {}
             /\ sess[p].requested = {} /\ sess[p].received = {}
             /\ sess[p].held = {} /\ sess[p].certs = {} /\ sess[p].ancestry = {}
             /\ ~sess[p].valve /\ ~sess[p].error /\ \A t \in Types : sess[p].tree[t] = {}
  <2>1. sess[p] = NewSession(conf.role[p]) /\ conf.role[p] \in {"source", "sink", "both"}
    BY <1>1, <1>2
  <2>2. NewSession(conf.role[p]) \in Sessions
    BY <2>1 DEF NewSession, Sessions
  <2> QED  BY <2>1, <2>2 DEF NewSession
<1>4. ASSUME NEW p \in Peers
      PROVE  inbuf[p] = <<>> /\ net[p] \in {<<>>, <<Simple("hello")>>}
  BY <1>1 DEF Peers
<1>5. ASSUME NEW p \in Peers, NEW i \in DOMAIN Stream(p)
      PROVE  Stream(p)[i].cmd = "hello"
  <2>1. <<>> \o <<>> = <<>> /\ <<>> \o <<Simple("hello")>> = <<Simple("hello")>>
    <3>1. <<Simple("hello")>> \in Seq(Messages)
      BY SimpleCommands
    <3> QED  BY <3>1, ConcatEmptySeq
  <2>2. Stream(p) \in {<<>>, <<Simple("hello")>>}
    BY <1>4, <2>1 DEF Stream
  <2>3. \A j \in DOMAIN <<Simple("hello")>> : <<Simple("hello")>>[j] = Simple("hello")
    OBVIOUS
  <2>4. Simple("hello").cmd = "hello"
    BY SimpleCommands
  <2> QED  BY <2>2, <2>3, <2>4
<1>6. TypeOK
  <2>1. \A p \in Peers : db[p] \in Databases
    BY <1>1, <1>2 DEF Databases
  <2>2. db \in [Peers -> Databases] /\ disk \in [Peers -> Databases]
    BY <1>1, <2>1
  <2>3. sess \in [Peers -> Sessions]
    BY <1>1, <1>3
  <2>4. \A p \in Peers : inbuf[p] \in Seq(Messages) /\ net[p] \in Seq(Messages)
    <3>1. <<>> \in Seq(Messages) /\ <<Simple("hello")>> \in Seq(Messages)
      BY SimpleCommands
    <3> QED  BY <1>4, <3>1
  <2>5. net \in [Peers -> Seq(Messages)] /\ inbuf \in [Peers -> Seq(Messages)]
    <3>1. DOMAIN net = Peers /\ net = [p \in Peers |-> net[p]]
      BY <1>1 DEF Peers
    <3> QED  BY <1>1, <2>4, <3>1
  <2> QED  BY <1>1, <2>2, <2>3, <2>5 DEF TypeOK
<1>7. DatabaseClosed
  BY <1>1, <1>2 DEF DatabaseClosed
<1>8. "client" \in Peers /\ "server" \in Peers /\ "epoch" \in Types
  BY DEF Peers, Types
<1>9. Authentication
  BY <1>3, <1>5, <1>8 DEF Authentication, Exchanged
<1>10. Opposed
  BY <1>3, <1>5, <1>8 DEF Opposed
<1>11. Roots
  BY <1>3, <1>5, <1>8 DEF Roots, IsRefine
<1>12. Markers
  BY <1>3, <1>5, <1>8 DEF Markers, IsDone
<1>13. Traffic
  BY <1>3, <1>5, <1>8 DEF Traffic, IsRequest, IsData
<1>14. EpochsMet
  BY <1>3, <1>5, <1>8 DEF EpochsMet, RootSeen, IsDone
<1>15. Committed
  BY <1>1 DEF Committed
<1>16. EpochLeads
  BY <1>3, <1>5, <1>8 DEF EpochLeads, RootSeen, Owed, KeepsNothing, Exchanged
<1> QED  BY <1>6, <1>7, <1>9, <1>10, <1>11, <1>12, <1>13, <1>14, <1>15, <1>16 DEF Inv

LEMMA InvNext ==
  ASSUME Inv, [Next]_vars
  PROVE  Inv' /\ WritesKnown
<1>1. CASE UNCHANGED vars
  <2>1. /\ conf' = conf /\ db' = db /\ disk' = disk /\ sess' = sess
        /\ net' = net /\ inbuf' = inbuf
    BY <1>1 DEF vars
  <2>2. TypeOK' /\ DatabaseClosed' /\ Committed'
    BY <2>1 DEF Inv, TypeOK, DatabaseClosed, Committed
  <2>3. PICK p \in Peers : TRUE
    BY DEF Peers
  <2>4. \A r \in Peers : Stream(r)' = Stream(r)
    BY <2>1 DEF Stream
  <2>5. Flow(p, 0, <<>>)
    BY <2>4, SameFlow DEF Inv
  <2>6. \A i \in DOMAIN Stream(p) : ~(i <= 0)
    BY <2>5 DEF Flow
  <2>7. Idle(p, 0)
    BY <2>1, <2>5, <2>6 DEF Idle, Unhandled
  <2>8. WritesKnown
    BY <2>1, NothingWritten
  <2> QED  BY <2>2, <2>7, <2>8, IdleStep DEF Inv
<1>2. ASSUME NEW p \in Peers, Process(p) PROVE Inv' /\ WritesKnown
  <2>1. CASE p = "client" /\ (ProcessHello \/ ProcessConfirm)
    BY <2>1, HelloStep, ConfirmStep
  <2>2. CASE p = "server" /\ ProcessAuth
    BY <2>2, AuthStep
  <2>3. CASE ProcessRefine(p) \/ ProcessDone(p) \/ ProcessSendData(p)
    BY <2>3, RefineStep, DoneStep, SendDataStep
  <2>4. CASE ProcessEpoch(p) \/ ProcessKeyOrContent(p) \/ ProcessCert(p) \/ ProcessRevision(p)
    BY <2>4, EpochStepKept, KeyOrContentStep, CertStep, RevisionStep
  <2>5. CASE ProcessBye(p)
    BY <2>5, ByeStep
  <2>6. CASE ProcessError(p)
    BY <2>6, CloseStep DEF ProcessError
  <2> QED  BY <1>2, <2>1, <2>2, <2>3, <2>4, <2>5, <2>6 DEF Process
<1>3. ASSUME NEW p \in Peers, Hangup(p) \/ EndOfFile(p) \/ ConnectionLost(p) PROVE Inv' /\ WritesKnown
  BY <1>3, CloseStep DEF Hangup, EndOfFile, ConnectionLost
<1>4. ASSUME NEW p \in Peers, Read(p) PROVE Inv' /\ WritesKnown
  BY <1>4, ReadStep
<1>5. ASSUME NEW p \in Peers, Crash(p) PROVE Inv' /\ WritesKnown
  BY <1>5, CrashStep
<1>6. ASSUME NEW x \in Items, OtherSessionWrites(x) PROVE Inv' /\ WritesKnown
  BY <1>6, WritesStep
<1> QED  BY <1>1, <1>2, <1>3, <1>4, <1>5, <1>6 DEF Next, Step

(* However the two processes interleave, fail and are cut off, the states  *)
(* of the two sessions and all that is on the way between them fit         *)
(* together.                                                               *)
THEOREM Invariant == Spec => []Inv
<1>1. Init => Inv
  BY InvInit
<1>2. Inv /\ [Next]_vars => Inv'
  BY InvNext
<1> QED  BY <1>1, <1>2, PTL DEF Spec

(* Both databases, seen and committed, never hold an item without what it  *)
(* refers to.                                                              *)
THEOREM DatabasesStayClosed == Spec => []DatabaseClosed
<1>1. Inv => DatabaseClosed
  BY DEF Inv
<1> QED  BY <1>1, Invariant, PTL

(* No require() of dispatch_payload ever refuses a command between two     *)
(* sides that are authenticated.                                           *)
THEOREM NeverRefused == Spec => []NoProtocolError
<1>1. Inv => NoProtocolError
  <2> SUFFICES ASSUME Inv, NEW p \in Peers, sess[p].live, inbuf[p] # <<>>, NEW m,
                      m = Head(inbuf[p])
               PROVE  /\ m.cmd \in {"refine", "done", "send_data", "data"} => sess[p].authenticated
                      /\ m.cmd = "refine" => m.type \notin sess[p].tree_is_done
                      /\ m.cmd = "send_data" => sess[p].role \in {"source", "both"}
                      /\ m.cmd \in {"data", "nonexistant"} => sess[p].role \in {"sink", "both"}
    BY DEF NoProtocolError
  <2>1. TypeOK /\ Authentication /\ Opposed /\ Roots
    BY DEF Inv
  <2>2. 1 \in DOMAIN Stream(p) /\ Stream(p)[1] = m /\ m \in Messages
    BY <2>1, HeadOfStream
  <2>3. m.cmd \in {"refine", "done", "send_data", "data"} => sess[p].authenticated
    BY <2>1, <2>2 DEF Authentication, Exchanged, Peers
  <2>4. m.cmd = "refine" => m.type \notin sess[p].tree_is_done
    <3> SUFFICES ASSUME m.cmd = "refine" PROVE m.type \notin sess[p].tree_is_done
      OBVIOUS
    <3>1. m.type \in Types
      BY <2>2 DEF Messages
    <3>2. IsRefine(p, 1, m.type)
      BY <2>2 DEF IsRefine
    <3> QED  BY <2>1, <2>2, <3>1, <3>2 DEF Roots
  <2>5. /\ m.cmd = "send_data" => sess[p].role \in {"source", "both"}
        /\ m.cmd \in {"data", "nonexistant"} => sess[p].role \in {"sink", "both"}
    BY <2>1, <2>2 DEF Opposed, IsSource, IsSink
  <2> QED  BY <2>3, <2>4, <2>5
<1> QED  BY <1>1, Invariant, PTL

(* No item of the other side is written by a session that does not have    *)
(* the other side's epoch.                                                 *)
THEOREM EpochsComeFirst == Spec => EpochsFirst
<1>1. Inv /\ [Next]_vars => WritesKnown
  BY InvNext
<1>2. WritesKnown =>
        \A p \in Peers :
          ~(db'[p].items \subseteq db[p].items \cup {ServerKey} \cup foreign') /\ ~sess[p].error =>
            sess[Other(p)].tree["epoch"] \subseteq {db[p].epoch}
  BY DEF WritesKnown, EpochKnown
<1> QED  BY <1>1, <1>2, Invariant, PTL DEF Spec, EpochsFirst

-----------------------------------------------------------------------------
(* What the writer writes is all that it can.                              *)
LEMMA WrittenComplete ==
  ASSUME NEW D \in SUBSET Items, NEW held \in SUBSET Items
  PROVE  \A x \in held : Needs(x) \subseteq Written(D, held) => x \in Written(D, held)
<1> DEFINE N == Cardinality(held)
           U == SUBSET (D \cup held)
           Able(X) == {x \in held : Needs(x) \subseteq X}
           F == [X \in U |-> X \cup Able(X)]
           Growing(g) == g = [n \in 0..N |-> IF n = 0 THEN D
                                ELSE g[n-1] \cup {x \in held : Needs(x) \subseteq g[n-1]}]
           grow == CHOOSE g : Growing(g)
           Full(X) == Able(X) \subseteq X
           Many(X, n) == Full(X) \/ Cardinality(X \cap held) >= n
           T == {n \in Nat : n <= N => grow[n] \in U /\ Many(grow[n], n)}
<1>1. IsFiniteSet(held) /\ N \in Nat
  BY FiniteThings, FS_CardinalityType DEF Things
<1>2. \E g : Growing(g)
  <2>1. D \in U /\ F \in [U -> U]
    OBVIOUS
  <2>2. PICK u \in [0..N -> U] : Iterating(u, N, D, F)
    <3> HIDE DEF U, F, N
    <3> QED  BY <1>1, <2>1, IteratingExists
  <2>3. u = [n \in 0..N |-> IF n = 0 THEN D ELSE F[u[n-1]]]
    BY <2>2 DEF Iterating
  <2>4. \A n \in 0..N : n # 0 => u[n-1] \in U
    <3> HIDE DEF U, N
    <3> QED  BY <1>1, <2>2
  <2>5. \A X \in U : F[X] = X \cup {x \in held : Needs(x) \subseteq X}
    OBVIOUS
  <2> HIDE DEF F, U, N
  <2>6. \A n \in 0..N : n # 0 => F[u[n-1]] = u[n-1] \cup {x \in held : Needs(x) \subseteq u[n-1]}
    BY <2>4, <2>5
  <2>7. [n \in 0..N |-> IF n = 0 THEN D ELSE F[u[n-1]]]
          = [n \in 0..N |-> IF n = 0 THEN D
               ELSE u[n-1] \cup {x \in held : Needs(x) \subseteq u[n-1]}]
    BY <2>6
  <2> QED  BY <2>3, <2>7
<1>3. Growing(grow)
  <2> HIDE DEF Growing
  <2> QED  BY <1>2
<1>4. Written(D, held) = grow[N]
  BY DEF Written
<1> HIDE DEF grow, N
<1>5. /\ grow[0] = D
      /\ \A n \in 1..N : grow[n] = grow[n-1] \cup Able(grow[n-1])
  <2>1. grow = [n \in 0..N |-> IF n = 0 THEN D ELSE grow[n-1] \cup Able(grow[n-1])]
    BY <1>3
  <2>2. 0 \in 0..N /\ \A n \in 1..N : n \in 0..N /\ n # 0
    BY <1>1
  <2> HIDE DEF Growing, Able
  <2> QED  BY <2>1, <2>2, Zenon
<1> HIDE DEF Growing
<1>6. \A X : IsFiniteSet(X \cap held) /\ Cardinality(X \cap held) \in Nat
  BY <1>1, FS_Subset, FS_CardinalityType
<1>7. 0 \in T
  BY <1>5, <1>6
<1>8. ASSUME NEW n \in Nat, n \in T PROVE n + 1 \in T
  <2>1. SUFFICES ASSUME n + 1 <= N PROVE grow[n+1] \in U /\ Many(grow[n+1], n + 1)
    OBVIOUS
  <2> DEFINE X == grow[n]
             Y == grow[n+1]
  <2>2. X \in U /\ Many(X, n)
    <3>1. n <= N
      BY <1>1, <2>1
    <3> HIDE DEF Many, U
    <3> QED  BY <1>8, <3>1
  <2>3. Y = X \cup Able(X)
    <3>1. n + 1 \in 1..N /\ (n + 1) - 1 = n
      BY <1>1, <2>1
    <3> HIDE DEF Able
    <3> QED  BY <1>5, <3>1
  <2> HIDE DEF X, Y
  <2>4. Y \in U
    BY <2>2, <2>3
  <2>5. CASE Full(X)
    <3>1. Y = X
      BY <2>3, <2>5
    <3> QED  BY <2>4, <2>5, <3>1 DEF Y
  <2>6. CASE ~Full(X)
    <3> DEFINE A == X \cap held
               B == Y \cap held
    <3>1. PICK x \in held : x \notin X /\ A \cup {x} \subseteq B
      BY <2>3, <2>6
    <3>2. IsFiniteSet(A) /\ IsFiniteSet(B) /\ Cardinality(A) \in Nat /\ Cardinality(B) \in Nat
      BY <1>6
    <3>3. Cardinality(A) >= n /\ x \notin A
      BY <2>2, <2>6, <3>1
    <3> HIDE DEF A, B
    <3>4. Cardinality(A \cup {x}) = Cardinality(A) + 1
      BY <3>2, <3>3, FS_AddElement
    <3>5. Cardinality(A \cup {x}) <= Cardinality(B)
      BY <3>1, <3>2, FS_Subset
    <3>6. Cardinality(B) >= n + 1
      BY <3>2, <3>3, <3>4, <3>5
    <3> QED  BY <2>4, <3>6 DEF B, Y
  <2> QED  BY <2>5, <2>6
<1>9. N \in T
  <2> HIDE DEF T
  <2> QED  BY <1>1, <1>7, <1>8, SetInduction
<1>10. Many(grow[N], N)
  <2> HIDE DEF Many, U
  <2> QED  BY <1>1, <1>9
<1> DEFINE Z == grow[N]
<1>11. Full(Z)
  <2> SUFFICES ASSUME Cardinality(Z \cap held) >= N PROVE Full(Z)
    BY <1>10
  <2> DEFINE A == Z \cap held
  <2>1. A \subseteq held /\ Cardinality(A) \in Nat /\ Cardinality(A) >= N
    BY <1>6
  <2> HIDE DEF A, Z
  <2>2. Cardinality(A) <= Cardinality(held) /\ (Cardinality(A) = Cardinality(held) => A = held)
    BY <1>1, <2>1, FS_Subset
  <2>3. A = held
    BY <1>1, <2>1, <2>2 DEF N
  <2> QED  BY <2>3 DEF A
<1> QED  BY <1>4, <1>11

(* Items may go from the writer to the database, or from elsewhere when    *)
(* they are no revisions.                                                  *)
LEMMA BookedGrows ==
  ASSUME NEW s, NEW n, NEW D, NEW W, NEW T, Booked(s, D, T), SameBooks(n, s),
         D \subseteq W, (W \ D) \cap Revisions \subseteq s.received,
         s.held \ W \subseteq n.held, n.held \subseteq s.held
  PROVE  Booked(n, W, T)
<1>1. Entered(s, D, T) /\ AnalysisMade(s) /\ ValveOpened(s)
  BY DEF Booked
<1>2. /\ n.role = s.role /\ n.tree_is_done = s.tree_is_done /\ n.valve = s.valve
      /\ n.requested = s.requested /\ n.received = s.received
      /\ n.certs = s.certs /\ n.ancestry = s.ancestry /\ n.analyzed = s.analyzed
  BY DEF SameBooks
<1>3. AnalysisMade(n) /\ ValveOpened(n)
  BY <1>1, <1>2 DEF AnalysisMade, ValveOpened
<1>4. n.received \ Epochs \subseteq W \cup n.held \cup n.certs \cup n.ancestry
  BY <1>1, <1>2 DEF Entered
<1>5. n.requested \cap Revisions \cap W = {}
  BY <1>1, <1>2 DEF Entered
<1>6. n.analyzed =>
        /\ "cert" \in n.tree_is_done /\ n.requested \cap Revisions = {}
        /\ n.certs \cup n.ancestry \subseteq W \cup n.held
        /\ \A r \in n.ancestry : Names[r] \cap Contents \subseteq W \cup n.requested \cup n.received
  BY <1>1, <1>2 DEF Entered
<1>7. \A c \in n.certs : CertOn[c] \in W \cup n.requested \cup n.received
  BY <1>1, <1>2 DEF Entered
<1>8. n.held \cap Revisions \subseteq n.ancestry /\ n.held \cap Certs \subseteq n.certs
  BY <1>1, <1>2 DEF Entered
<1>9. Entered(n, W, T)
  BY <1>1, <1>2, <1>4, <1>5, <1>6, <1>7, <1>8 DEF Entered
<1> QED  BY <1>3, <1>9 DEF Booked

(* A side that has all it wants has all that the other side's tree says,   *)
(* and its writer can write all that it holds.                             *)
LEMMA Closing ==
  ASSUME NEW s, NEW D \in SUBSET Items, NEW T, Booked(s, D, T), Closure(D), Ancestral(T),
         Satisfied(s), s.held \in SUBSET Items,
         T["key"] \subseteq Keys, T["cert"] \subseteq Certs,
         s.role # "source" => T["key"] \cup T["cert"] \subseteq D \cup s.received,
         s.role = "source" => s.held = {} /\ s.certs = {} /\ s.ancestry = {}
  PROVE  /\ s.valve
         /\ s.held \cup s.certs \cup s.ancestry \subseteq Written(D, s.held)
         /\ s.role # "source" => T["key"] \cup T["cert"] \subseteq Written(D, s.held)
<1> DEFINE h == s.held
           W == Written(D, h)
           S == (h \ W) \cap Revisions
<1>1. Entered(s, D, T) /\ s.requested = {} /\ s.valve /\ s.analyzed
  BY DEF Booked, AnalysisMade, ValveOpened, Satisfied, Types
<1>2. SUFFICES ASSUME s.role # "source"
               PROVE  /\ h \cup s.certs \cup s.ancestry \subseteq W
                      /\ T["key"] \cup T["cert"] \subseteq W
  BY <1>1
<1>3. /\ s.certs \subseteq Certs /\ s.ancestry \subseteq Revisions \cap s.received
      /\ s.received \cap Revisions \subseteq On(T)
      /\ h \cap Revisions \subseteq s.ancestry /\ h \cap Certs \subseteq s.certs
      /\ s.certs \cup s.ancestry \subseteq D \cup h
      /\ s.received \ Epochs \subseteq D \cup h
  BY <1>1 DEF Entered
<1>4. Epochs \cap (Keys \cup Certs \cup Revisions \cup Contents) = {}
  BY SessionConstants DEF Items
<1>5. ASSUME NEW c \in s.certs PROVE CertOn[c] \in D \cup h /\ CertOn[c] \in Revisions
  <2>1. CertOn[c] \in D \cup s.received /\ c \in Certs
    BY <1>1, <1>3 DEF Entered
  <2>2. CertOn[c] \in Revisions
    BY <2>1, SessionConstants
  <2> QED  BY <1>3, <1>4, <2>1, <2>2
<1>6. ASSUME NEW r \in s.ancestry PROVE Names[r] \cap Contents \subseteq D \cup h
  <2>1. Names[r] \cap Contents \subseteq D \cup s.received
    BY <1>1 DEF Entered
  <2> QED  BY <1>3, <1>4, <2>1
<1>7. h \in SUBSET Items
  OBVIOUS
<1> HIDE DEF h, S
<1>8. /\ D \subseteq W /\ \A x \in h : Needs(x) \subseteq W => x \in W
  BY <1>7, WrittenClosed, WrittenComplete
<1> HIDE DEF W
<1>9. h \cap (Keys \cup Contents) \subseteq W
  <2> SUFFICES ASSUME NEW x \in h, x \in Keys \cup Contents PROVE x \in W
    OBVIOUS
  <2>1. Needs(x) = {}
    BY SessionConstants DEF Needs
  <2> QED  BY <1>8, <2>1
<1>10. ASSUME NEW c \in h \cap Certs PROVE Needs(c) = {CertOn[c]}
  BY SessionConstants DEF Needs
<1>11. S = {}
  <2> SUFFICES ASSUME S # {} PROVE FALSE
    OBVIOUS
  <2>1. S \in (SUBSET Revisions) \ {{}}
    BY DEF S
  <2>2. PICK r \in S : Names[r] \cap S = {}
    BY <2>1, NamesAcyclic
  <2>3. r \in h /\ r \notin W /\ r \in Revisions /\ r \in s.ancestry /\ r \in On(T)
    BY <1>3, <2>2 DEF S
  <2>4. Names[r] \cap Contents \subseteq W
    BY <1>6, <1>8, <1>9, <2>3
  <2>5. ASSUME NEW y \in Names[r] \cap Revisions PROVE y \in W
    <3>1. y \in On(T)
      BY <2>3 DEF Ancestral, On
    <3>2. PICK c \in T["cert"] : y = CertOn[c]
      BY <3>1 DEF On
    <3>3. c \in Certs /\ c \in D \cup h
      BY <1>2, <1>3, <1>4, <3>2
    <3>4. CASE c \in D
      <4>1. Needs(c) = {y}
        BY <3>2, <3>3, SessionConstants DEF Needs
      <4> QED  BY <1>8, <3>4, <4>1 DEF Closure
    <3>5. CASE c \in h
      <4>1. y \in D \cup h
        BY <1>3, <1>5, <3>2, <3>3, <3>5
      <4>2. y \notin S
        BY <2>2
      <4> QED  BY <1>8, <4>1, <4>2 DEF S
    <3> QED  BY <3>3, <3>4, <3>5
  <2>6. Needs(r) \subseteq W
    <3>1. Needs(r) = Names[r]
      BY <2>3 DEF Needs
    <3>2. Names[r] \subseteq Contents \cup Revisions
      BY <2>3, SessionConstants
    <3> QED  BY <2>4, <2>5, <3>1, <3>2
  <2> QED  BY <1>8, <2>3, <2>6
<1>12. h \subseteq W
  <2> SUFFICES ASSUME NEW x \in h PROVE x \in W
    OBVIOUS
  <2>1. CASE x \in Certs
    <3>1. CertOn[x] \in D \cup h /\ CertOn[x] \in Revisions
      BY <1>3, <1>5, <2>1
    <3>2. CertOn[x] \in W
      BY <1>8, <1>11, <3>1 DEF S
    <3> QED  BY <1>8, <1>10, <2>1, <3>2
  <2>2. CASE x \in Revisions
    BY <1>11, <2>2 DEF S
  <2> QED  BY <1>7, <1>9, <2>1, <2>2 DEF Items
<1> QED  BY <1>2, <1>3, <1>4, <1>8, <1>12

-----------------------------------------------------------------------------
(* Keys and certs on their way.                                            *)

LEMMA MovedWares ==
  ASSUME NEW p \in Peers, NEW k, NEW sent, Moved(p, k, sent), Wares
  PROVE  Wares'
<1> DEFINE q == Other(p)
<1>0. q \in Peers /\ q # p /\ Peers = {p, q} /\ Other(q) = p
  BY TwoPeers
<1>1. /\ Flow(p, k, sent) /\ sess'[q] = sess[q] /\ (Going(p)' => Going(p))
      /\ \A r \in Peers : sess'[r].tree = sess[r].tree
      /\ sess[p].requested \cup sess[p].received \subseteq sess'[p].requested \cup sess'[p].received
      /\ \A i \in DOMAIN sent : Ware(q, sent[i])'
  BY DEF Moved, Settled
<1> HIDE DEF q
<1>2. \A r \in Peers : \A x : Due(r, x) => Due(r, x)'
  <2>1. Going(q)' => Going(q)
    BY <1>1 DEF Going
  <2> QED  BY <1>0, <1>1, <2>1 DEF Due
<1>3. \A r \in Peers : \A m : Ware(r, m) => Ware(r, m)'
  <2> SUFFICES ASSUME NEW r \in Peers, NEW m, Ware(r, m) PROVE Ware(r, m)'
    OBVIOUS
  <2>1. Other(r) \in Peers
    BY TwoPeers
  <2>2. sess'[r].tree = sess[r].tree /\ sess'[Other(r)].tree = sess[Other(r)].tree
    BY <1>1, <2>1
  <2>3. \A x : (Due(r, x) => Due(r, x)') /\ (Due(Other(r), x) => Due(Other(r), x)')
    BY <1>2, <2>1
  <2> QED  BY <2>2, <2>3 DEF Ware
<1>4. ASSUME NEW i \in DOMAIN Stream(p)', NEW m, m = Stream(p)'[i] PROVE Ware(p, m)'
  <2>1. i + k \in DOMAIN Stream(p) /\ Stream(p)'[i] = Stream(p)[i + k]
    BY <1>1 DEF Flow
  <2>2. Ware(p, m)
    BY <1>4, <2>1 DEF Wares
  <2> QED  BY <1>3, <2>2
<1>5. ASSUME NEW i \in DOMAIN Stream(q)', NEW m, m = Stream(q)'[i] PROVE Ware(q, m)'
  <2>1. \/ i \in DOMAIN Stream(q) /\ Stream(q)'[i] = Stream(q)[i]
        \/ \E j \in DOMAIN sent : Stream(q)'[i] = sent[j]
    BY <1>1 DEF Flow, q
  <2>2. CASE i \in DOMAIN Stream(q) /\ Stream(q)'[i] = Stream(q)[i]
    <3>1. Ware(q, m)
      BY <1>0, <1>5, <2>2 DEF Wares
    <3> QED  BY <1>0, <1>3, <3>1
  <2>3. ASSUME NEW j \in DOMAIN sent, Stream(q)'[i] = sent[j] PROVE Ware(q, m)'
    <3>1. Ware(q, sent[j])'
      BY <1>1
    <3> QED  BY <1>5, <2>3, <3>1
  <2> QED  BY <2>1, <2>2, <2>3
<1>6. \A r \in Peers : \A i \in DOMAIN Stream(r)' : \A m : m = Stream(r)'[i] => Ware(r, m)'
  BY <1>0, <1>4, <1>5
<1> QED  BY <1>6, Zenon DEF Wares

LEMMA MovedArriving ==
  ASSUME NEW p \in Peers, NEW k, NEW sent, Moved(p, k, sent), Arriving
  PROVE  Arriving'
<1> DEFINE q == Other(p)
<1>0. q \in Peers /\ q # p /\ Peers = {p, q} /\ Other(q) = p /\ "server" \in Peers /\ "client" \in Peers
  BY TwoPeers DEF Peers
<1>1. /\ Flow(p, k, sent) /\ sess'[q] = sess[q] /\ (Going(p)' => Going(p))
      /\ \A r \in Peers : sess'[r].tree = sess[r].tree /\ sess'[r].role = sess[r].role
      /\ sess[p].received \subseteq sess'[p].received
      /\ sess[p].requested \cup sess[p].received \subseteq sess'[p].requested \cup sess'[p].received
      /\ \A t \in sess'[p].tree_is_done : t \in sess[p].tree_is_done \/ IsDone(p, 1, t)
      /\ Going(p)' =>
           \A j \in DOMAIN Stream(p) : j <= k /\ Stream(p)[j].cmd = "data" =>
             Stream(p)[j].item \in sess'[p].received
      /\ \A i \in DOMAIN sent :
           p = "server" /\ sent[i].cmd = "done" => Seen(sent[i].type) /\ Going(p)
      /\ \A t \in {"key", "cert"} :
           Seen(t)' /\ Going("server")' => Seen(t) \/ (Asked(t)' /\ Given(t)')
  BY DEF Moved, Settled
<1> HIDE DEF q
<1>2. \A r \in Peers : (Going(r)' => Going(r)) /\ (IsSink(r)' <=> IsSink(r))
  <2>1. Going(q)' => Going(q)
    BY <1>1 DEF Going
  <2> QED  BY <1>0, <1>1, <2>1 DEF IsSink
<1>3. \A r \in Peers :
        /\ sess[r].received \subseteq sess'[r].received
        /\ sess[r].requested \cup sess[r].received \subseteq sess'[r].requested \cup sess'[r].received
  BY <1>0, <1>1
<1> SUFFICES ASSUME NEW t \in {"key", "cert"}
             PROVE  (Seen(t)' => Asked(t)' /\ Given(t)') /\ GivenFirst(t)'
  BY Zenon DEF Arriving
<1>4. (Seen(t) => Asked(t) /\ Given(t)) /\ GivenFirst(t)
  BY DEF Arriving
<1>5. \A x : Has(x, t) => Has(x, t)'
  BY <1>0, <1>1, <1>3 DEF Has
(* Data for x is there still, or has arrived. *)
<1>6. ASSUME Going("client")', NEW x, NEW j \in DOMAIN Stream("client"), DataFor("client", j, x)
      PROVE  \/ Has(x, t)'
             \/ p = "client" /\ j > k /\ j - k \in DOMAIN Stream("client")' /\ DataFor("client", j - k, x)'
             \/ p = "server" /\ j \in DOMAIN Stream("client")' /\ DataFor("client", j, x)'
  <2>1. CASE p = "client"
    <3>1. CASE j > k
      <4>1. j \in Nat /\ k \in Nat /\ j - k \in DOMAIN Stream(p)' /\ (j - k) + k = j
        BY <1>1, <1>6, <2>1, <3>1 DEF Flow
      <4>2. Stream(p)'[j - k] = Stream(p)[j]
        BY <1>1, <4>1 DEF Flow
      <4> QED  BY <1>6, <2>1, <3>1, <4>1, <4>2 DEF DataFor
    <3>2. CASE ~(j > k)
      <4>1. j <= k
        BY <1>1, <1>6, <2>1, <3>2 DEF Flow
      <4>2. x \in sess'["client"].received
        BY <1>1, <1>6, <2>1, <4>1 DEF DataFor
      <4> QED  BY <4>2 DEF Has
    <3> QED  BY <3>1, <3>2
  <2>2. CASE p = "server"
    <3>1. q = "client"
      BY <2>2 DEF q, Other
    <3>2. j \in DOMAIN Stream(q)' /\ Stream(q)'[j] = Stream(q)[j]
      BY <1>1, <1>6, <3>1 DEF Flow, q
    <3> QED  BY <1>6, <2>2, <3>1, <3>2 DEF DataFor
  <2> QED  BY <2>1, <2>2 DEF Peers
<1>7. ASSUME Seen(t)' PROVE Asked(t)' /\ Given(t)'
  <2>1. CASE ~Going("server")'
    BY <2>1 DEF Asked, Given
  <2>2. CASE Going("server")' /\ Seen(t)
    <3>1. Asked(t)'
      BY <1>0, <1>1, <1>2, <1>3, <1>4, <2>2 DEF Asked
    <3>2. Given(t)'
      <4> SUFFICES ASSUME Going("client")', IsSink("client")', NEW x \in sess'["server"].tree[t]
                   PROVE  Has(x, t)' \/ \E j \in DOMAIN Stream("client")' : DataFor("client", j, x)'
        BY Zenon DEF Given
      <4>1. x \in sess["server"].tree[t]
        BY <1>0, <1>1
      <4>2. Has(x, t) \/ \E j \in DOMAIN Stream("client") : DataFor("client", j, x)
        BY <1>0, <1>2, <1>4, <2>2, <4>1 DEF Given
      <4> QED  BY <1>5, <1>6, <4>2
    <3> QED  BY <3>1, <3>2
  <2> QED  BY <1>1, <1>7, <2>1, <2>2
<1>8. ASSUME Going("client")', IsSink("client")'
      PROVE  /\ t \in sess'["client"].tree_is_done => \A x \in sess'["server"].tree[t] : Has(x, t)'
             /\ \A i \in DOMAIN Stream("client")' : IsDone("client", i, t)' =>
                  \A x \in sess'["server"].tree[t] :
                    Has(x, t)' \/ \E j \in DOMAIN Stream("client")' : j < i /\ DataFor("client", j, x)'
  <2>1. /\ t \in sess["client"].tree_is_done => \A x \in sess["server"].tree[t] : Has(x, t)
        /\ \A i \in DOMAIN Stream("client") : IsDone("client", i, t) =>
             \A x \in sess["server"].tree[t] :
               Has(x, t) \/ \E j \in DOMAIN Stream("client") : j < i /\ DataFor("client", j, x)
    BY <1>0, <1>2, <1>4, <1>8 DEF GivenFirst
  <2>2. sess'["server"].tree[t] = sess["server"].tree[t]
    BY <1>0, <1>1
  <2>3. ASSUME t \in sess'["client"].tree_is_done, NEW x \in sess'["server"].tree[t] PROVE Has(x, t)'
    <3>1. CASE t \in sess["client"].tree_is_done
      BY <1>5, <2>1, <2>2, <2>3, <3>1
    <3>2. CASE t \notin sess["client"].tree_is_done
      <4>1. p = "client" /\ IsDone("client", 1, t)
        BY <1>0, <1>1, <2>3, <3>2
      <4>2. \A j \in DOMAIN Stream("client") : ~(j < 1)
        BY <1>1, <4>1 DEF Flow
      <4>3. Has(x, t)
        BY <2>1, <2>2, <2>3, <4>1, <4>2 DEF IsDone
      <4> QED  BY <1>5, <4>3
    <3> QED  BY <3>1, <3>2
  <2>4. ASSUME NEW i \in DOMAIN Stream("client")', IsDone("client", i, t)',
               NEW x \in sess'["server"].tree[t]
        PROVE  Has(x, t)' \/ \E j \in DOMAIN Stream("client")' : j < i /\ DataFor("client", j, x)'
    <3>1. x \in sess["server"].tree[t]
      BY <2>2
    <3>2. CASE p = "client"
      <4>1. i \in Nat /\ k \in Nat /\ i + k \in DOMAIN Stream("client") /\ IsDone("client", i + k, t)
        BY <1>1, <2>4, <3>2 DEF Flow, IsDone
      <4>2. Has(x, t) \/ \E j \in DOMAIN Stream("client") : j < i + k /\ DataFor("client", j, x)
        BY <2>1, <3>1, <4>1
      <4>3. ASSUME NEW j \in DOMAIN Stream("client"), j < i + k, DataFor("client", j, x)
            PROVE  Has(x, t)' \/ \E o \in DOMAIN Stream("client")' : o < i /\ DataFor("client", o, x)'
        <5>1. j \in Nat /\ (j > k => j - k < i)
          BY <1>1, <3>2, <4>1, <4>3 DEF Flow
        <5>2. \/ Has(x, t)'
              \/ j > k /\ j - k \in DOMAIN Stream("client")' /\ DataFor("client", j - k, x)'
          BY <1>6, <1>8, <3>2, <4>3
        <5> QED  BY <5>1, <5>2
      <4> QED  BY <1>5, <4>2, <4>3
    <3>3. CASE p = "server"
      <4>1. q = "client"
        BY <3>3 DEF q, Other
      <4>2. \A j \in DOMAIN Stream("client") : j \in Nat /\ j <= Len(Stream("client"))
        BY <1>1, <4>1 DEF Flow, q
      <4>3. \/ i \in DOMAIN Stream("client") /\ Stream("client")'[i] = Stream("client")[i]
            \/ /\ i > Len(Stream("client")) /\ i \in Nat /\ Len(Stream("client")) \in Nat
               /\ \E o \in DOMAIN sent : Stream("client")'[i] = sent[o]
        BY <1>1, <2>4, <4>1 DEF Flow, q
      <4>4. CASE i \in DOMAIN Stream("client") /\ Stream("client")'[i] = Stream("client")[i]
        <5>1. IsDone("client", i, t)
          BY <2>4, <4>4 DEF IsDone
        <5>2. Has(x, t) \/ \E j \in DOMAIN Stream("client") : j < i /\ DataFor("client", j, x)
          BY <2>1, <3>1, <4>4, <5>1
        <5> QED  BY <1>5, <1>6, <1>8, <3>3, <5>2
      <4>5. ASSUME i > Len(Stream("client")), i \in Nat, Len(Stream("client")) \in Nat,
                   NEW o \in DOMAIN sent, Stream("client")'[i] = sent[o]
            PROVE  Has(x, t)' \/ \E j \in DOMAIN Stream("client")' : j < i /\ DataFor("client", j, x)'
        <5>1. sent[o].cmd = "done" /\ sent[o].type = t
          BY <2>4, <4>5 DEF IsDone
        <5>2. Seen(t) /\ Going("server")
          BY <1>1, <3>3, <5>1
        <5>3. Has(x, t) \/ \E j \in DOMAIN Stream("client") : DataFor("client", j, x)
          BY <1>0, <1>2, <1>4, <1>8, <3>1, <5>2 DEF Given
        <5>4. ASSUME NEW j \in DOMAIN Stream("client"), DataFor("client", j, x)
              PROVE  Has(x, t)' \/ \E a \in DOMAIN Stream("client")' : a < i /\ DataFor("client", a, x)'
          <6>1. j < i
            BY <4>2, <4>5
          <6> QED  BY <1>6, <1>8, <3>3, <5>4, <6>1
        <5> QED  BY <1>5, <5>3, <5>4
      <4> QED  BY <4>3, <4>4, <4>5
    <3> QED  BY <3>2, <3>3 DEF Peers
  <2> QED  BY <2>3, <2>4
<1> QED  BY <1>7, <1>8, Zenon DEF GivenFirst

-----------------------------------------------------------------------------
(* What a handler's reply leaves of the writer, the goodbyes and the disks. *)
LEMMA ReplyExact ==
  ASSUME TypeOK, NEW p \in Peers, NEW s \in Sessions, NEW epoch \in Epochs \cup {NoEpoch},
         NEW out, Reply(p, s, epoch, out)
  PROVE  /\ sess'[p].held = s.held \ db'[p].items
         /\ sess'[p].sent_goodbye <=> s.sent_goodbye \/ Satisfied(s)
         /\ sess'[p].received_goodbye = s.received_goodbye
         /\ disk'[Other(p)] = disk[Other(p)] /\ disk'[p] \in {disk[p], db'[p]}
         /\ foreign' = foreign
<1> DEFINE q == Other(p)
           items == IF s.valve THEN Written(db[p].items, s.held) ELSE db[p].items
           bye == s.tree_is_done = Types /\ s.requested = {} /\ ~s.sent_goodbye
           new == [s EXCEPT !.held = @ \ items, !.sent_goodbye = @ \/ bye]
           D == [items |-> items, epoch |-> epoch]
<1>1. q \in Peers /\ q # p
  BY TwoPeers
<1>2. db \in [Peers -> Databases] /\ disk \in [Peers -> Databases] /\ sess \in [Peers -> Sessions]
  BY DEF TypeOK
<1>3. /\ db' = [db EXCEPT ![p] = D]
      /\ disk' = IF p = "server" THEN [disk EXCEPT ![p] = db'[p]] ELSE disk
      /\ sess' = [sess EXCEPT ![p] = new] /\ foreign' = foreign
  BY DEF Reply
<1>4. bye \in BOOLEAN /\ s.sent_goodbye \in BOOLEAN /\ (bye <=> Satisfied(s) /\ ~s.sent_goodbye)
  BY DEF Satisfied, Sessions
<1> HIDE DEF items, bye
<1>5. /\ new.held = s.held \ items /\ new.received_goodbye = s.received_goodbye
      /\ new.sent_goodbye <=> s.sent_goodbye \/ bye
  BY <1>4 DEF Sessions
<1>6. D.items = items
  OBVIOUS
<1> HIDE DEF D, new, q
<1>7. sess'[p] = new /\ db'[p] = D
  BY <1>2, <1>3
<1>8. disk'[q] = disk[q] /\ disk'[p] \in {disk[p], db'[p]}
  BY <1>1, <1>2, <1>3
<1> QED  BY <1>3, <1>4, <1>5, <1>6, <1>7, <1>8 DEF q

LEMMA SeenKept ==
  ASSUME NEW p \in Peers, NEW sent, Flow(p, 1, sent), sess["client"].authenticated, NEW t, Seen(t)'
  PROVE  Seen(t) \/ (p = "server" /\ IsRefine(p, 1, t))
<1> DEFINE q == Other(p)
<1>0. q \in Peers /\ q # p /\ Peers = {p, q}
  BY TwoPeers
<1> SUFFICES ASSUME NEW i \in DOMAIN Stream("server"), IsRefine("server", i, t)
             PROVE  p = "server" /\ IsRefine(p, 1, t)
  BY DEF Seen
<1>1. CASE p = "server"
  <2> SUFFICES ASSUME i # 1 PROVE FALSE
    BY <1>1
  <2>1. i \in Nat \ {0}
    BY <1>1 DEF Flow
  <2>2. i > 1 /\ (i - 1) + 1 = i
    BY <2>1
  <2>3. i - 1 \in DOMAIN Stream(p)'
    <3>1. \A j \in DOMAIN Stream(p) : j > 1 => j - 1 \in DOMAIN Stream(p)'
      BY DEF Flow
    <3> QED  BY <1>1, <2>2, <3>1
  <2>4. Stream(p)'[i - 1] = Stream(p)[(i - 1) + 1]
    BY <2>3 DEF Flow
  <2> QED  BY <1>1, <2>2, <2>3, <2>4 DEF Seen, IsRefine
<1>2. CASE q = "server"
  <2>1. i \in DOMAIN Stream(q)' /\ Stream(q)'[i] = Stream(q)[i]
    BY <1>2 DEF Flow
  <2> QED  BY <1>2, <2>1 DEF Seen, IsRefine
<1> QED  BY <1>0, <1>1, <1>2 DEF Peers

LEMMA HandledMoved ==
  ASSUME Inv, Account, NEW p \in Peers, inbuf[p] # <<>>, sess["client"].authenticated, sess[p].live,
         NEW s \in Sessions, NEW epoch \in Epochs \cup {NoEpoch}, NEW out \in Seq(Messages),
         Reply(p, s, epoch, out), Handled(p, s, out)
  PROVE  \E sent : Moved(p, 1, sent)
<1> DEFINE o == sess[p]
           q == Other(p)
           m == Stream(p)[1]
<1>0. q \in Peers /\ q # p /\ Peers = {p, q} /\ Other(q) = p
  BY TwoPeers
<1>1. TypeOK /\ Authentication
  BY DEF Inv
<1>2. Left(p, s, epoch)
  BY <1>1, ReplyLeft
<1>3. PICK sent : Leaving(p, out, sent) /\ Flow(p, 1, sent) /\ 1 \in DOMAIN Stream(p)
  BY <1>1, ReplyFlow
<1>4. /\ s.role = o.role /\ s.tree = o.tree /\ s.authenticated = o.authenticated
      /\ s.live = o.live /\ (o.error => s.error)
      /\ o.received \subseteq s.received /\ o.requested \subseteq s.requested \cup s.received
      /\ m.cmd = "data" => m.item \in s.received
      /\ \A t \in s.tree_is_done : t \in o.tree_is_done \/ IsDone(p, 1, t)
      /\ \A i \in DOMAIN out :
           /\ out[i].cmd = "data" =>
                /\ out[i].item \in Certs => out[i].item \in o.tree["cert"]
                /\ out[i].item \in Revisions \cup Contents => RequestFor(p, 1, out[i].item)
           /\ out[i].cmd = "send_data" =>
                /\ out[i].item \in Certs => out[i].item \in sess[q].tree["cert"]
                /\ out[i].item \in Revisions \cup Contents => out[i].item \in s.requested \cup s.received
           /\ out[i].cmd = "done" /\ p = "server" => Seen(out[i].type)
      /\ \A t \in {"key", "cert"} : IsRefine(p, 1, t) /\ Going(p)' => Asked(t)' /\ Given(t)'
  BY DEF Handled, Conserved
<1>5. /\ sess'[q] = sess[q] /\ conf' = conf
      /\ sess'[p].live = s.live /\ sess'[p].role = s.role /\ sess'[p].error = s.error
      /\ sess'[p].authenticated = s.authenticated /\ sess'[p].tree = s.tree
      /\ sess'[p].tree_is_done = s.tree_is_done
      /\ sess'[p].requested = s.requested /\ sess'[p].received = s.received
  BY <1>2 DEF Left
<1> HIDE DEF o, q, m
<1>6. Settled
  BY <1>0, <1>1, <1>4, <1>5 DEF Settled, Authentication, o
<1>7. Going(p)' => Going(p)
  BY <1>4, <1>5 DEF Going, o
<1>8. ASSUME NEW j \in DOMAIN Stream(p), j <= 1, Stream(p)[j].cmd = "data"
      PROVE  Stream(p)[j].item \in sess'[p].received
  <2>1. j = 1
    BY <1>3, <1>8 DEF Flow
  <2> QED  BY <1>4, <1>5, <1>8, <2>1 DEF m
<1>9. ASSUME NEW i \in DOMAIN sent
      PROVE  Ware(q, sent[i])' /\ (p = "server" /\ sent[i].cmd = "done" => Seen(sent[i].type) /\ Going(p))
  <2>1. ~o.error /\ ((i \in DOMAIN out /\ sent[i] = out[i]) \/ sent[i].cmd = "bye")
    BY <1>3, SimpleCommands DEF Leaving, o
  <2>2. CASE sent[i].cmd = "bye"
    BY <2>2 DEF Ware
  <2>3. CASE i \in DOMAIN out /\ sent[i] = out[i]
    <3> DEFINE c == out[i].cmd
               x == out[i].item
    <3>1. Going(q)' => Going(q)
      BY <1>5 DEF Going
    <3>2. c = "data" => (x \in Certs => x \in sess'[p].tree["cert"]) /\ Due(q, x)'
      <4> SUFFICES ASSUME c = "data"
                   PROVE  (x \in Certs => x \in sess'[p].tree["cert"]) /\ Due(q, x)'
        OBVIOUS
      <4>1. x \in Certs => x \in sess'[p].tree["cert"]
        BY <1>4, <1>5, <2>3 DEF o
      <4>2. x \in Revisions \cup Contents => Due(q, x)
        <5> SUFFICES ASSUME x \in Revisions \cup Contents PROVE Due(q, x)
          OBVIOUS
        <5>1. RequestFor(p, 1, x)
          BY <1>4, <2>3
        <5>2. Ware(p, m)
          BY <1>3 DEF Account, Wares, m
        <5> QED  BY <5>1, <5>2 DEF RequestFor, Ware, m, q
      <4> QED  BY <1>5, <3>1, <4>1, <4>2 DEF Due
    <3>3. c = "send_data" => (x \in Certs => x \in sess'[q].tree["cert"]) /\ Due(p, x)'
      BY <1>4, <1>5, <2>3 DEF Due
    <3>4. c = "done" /\ p = "server" => Seen(sent[i].type) /\ Going(p)
      BY <1>4, <2>1, <2>3 DEF Going, o
    <3> QED  BY <1>0, <2>3, <3>2, <3>3, <3>4 DEF Ware
  <2> QED  BY <2>1, <2>2, <2>3
<1>10. ASSUME NEW t \in {"key", "cert"}, Seen(t)', Going("server")'
       PROVE  Seen(t) \/ (Asked(t)' /\ Given(t)')
  <2>1. Seen(t) \/ (p = "server" /\ IsRefine(p, 1, t))
    BY <1>3, <1>10, SeenKept
  <2> QED  BY <1>4, <1>10, <2>1
<1> QED  BY <1>3, <1>4, <1>5, <1>6, <1>7, <1>8, <1>9, <1>10 DEF Moved, o, q

(* Once the sides are authenticated the trees stay as they are.            *)
LEMMA PlantedKept ==
  ASSUME Inv, Planted, Settled,
         \A r \in Peers :
           /\ sess'[r].crashed => ~sess'[r].live
           /\ ~sess'[r].crashed => ~sess[r].crashed /\ db[r].items \subseteq db'[r].items
           /\ disk[r].items \subseteq disk'[r].items
  PROVE  Planted'
<1>1. /\ sess["client"].authenticated /\ sess["server"].authenticated /\ conf' = conf
      /\ \A r \in Peers : sess'[r].tree = sess[r].tree /\ sess'[r].authenticated = sess[r].authenticated
  BY DEF Settled
<1>2. \A r \in Peers : Whole(r)'
  BY <1>1 DEF Planted, Whole
<1>3. \A r \in Peers :
        /\ ~sess'[r].crashed => sess'[r].tree["key"] \cup sess'[r].tree["cert"] \subseteq db'[r].items
        /\ Ancestral(sess'[r].tree)
        /\ conf'.items[r] \subseteq disk'[r].items
  BY <1>1 DEF Planted
<1>4. sess'["client"].authenticated /\ "client" \in Peers
  BY <1>1 DEF Peers
<1> QED  BY <1>2, <1>3, <1>4 DEF Planted

(* The books after a handler.                                              *)
LEMMA HandledBooks ==
  ASSUME Inv, Inv', Account, Planted', Arriving', NEW p \in Peers, inbuf[p] # <<>>,
         sess["client"].authenticated, sess[p].live,
         NEW s \in Sessions, NEW epoch \in Epochs \cup {NoEpoch}, NEW out \in Seq(Messages),
         Reply(p, s, epoch, out), Handled(p, s, out)
  PROVE  Books'
<1> DEFINE o == sess[p]
           q == Other(p)
           n == sess'[p]
           D == db[p].items
           W == db'[p].items
           T == sess[q].tree
<1>0. q \in Peers /\ q # p /\ Peers = {p, q} /\ Other(q) = p
  BY TwoPeers
<1>1. TypeOK /\ Committed /\ Roots /\ DatabaseClosed /\ Authentication /\ TypeOK' /\ EpochsMet' /\ Roots' /\ Opposed'
  BY DEF Inv
<1>2. Left(p, s, epoch)
  BY <1>1, ReplyLeft
<1>3. n.held = s.held \ W /\ (n.sent_goodbye <=> s.sent_goodbye \/ Satisfied(s))
  BY <1>1, ReplyExact
<1>4. /\ s.role = o.role /\ s.tree = o.tree /\ s.authenticated = o.authenticated
      /\ s.live = o.live /\ s.crashed = o.crashed /\ (o.error => s.error)
      /\ o.role = "source" => s.held = {}
      /\ ~s.error /\ ~s.crashed =>
           /\ s.sent_goodbye = o.sent_goodbye /\ (Satisfied(o) => Satisfied(s))
           /\ Booked(s, D, T)
  BY DEF Handled, Conserved
<1>5. /\ sess'[q] = sess[q] /\ db'[q] = db[q]
      /\ W = IF s.valve THEN Written(D, s.held) ELSE D
      /\ n.live = s.live /\ n.crashed = s.crashed /\ n.role = s.role
      /\ n.valve = s.valve /\ n.tree = s.tree /\ n.tree_is_done = s.tree_is_done
      /\ n.requested = s.requested /\ n.received = s.received /\ n.certs = s.certs
      /\ n.ancestry = s.ancestry /\ n.analyzed = s.analyzed /\ n.error = s.error
  BY <1>2 DEF Left
<1>6. D \in SUBSET Items /\ s.held \in SUBSET Items
  BY <1>1 DEF TypeOK, Databases, Sessions
<1> HIDE DEF o, q, n, W, D, T
<1>7. D \subseteq W /\ W \subseteq D \cup s.held
  <2>1. D \subseteq Written(D, s.held) /\ Written(D, s.held) \subseteq D \cup s.held
    BY <1>6, WrittenClosed
  <2> QED  BY <1>5, <2>1
<1>8. SUFFICES ASSUME Sound(p)'
               PROVE  Booked(n, W, T) /\ (n.sent_goodbye => Balanced(n, W, db'[p].epoch, T))
  <2>1. ASSUME Sound(q)'
        PROVE  /\ Booked(sess'[q], db'[q].items, sess'[p].tree)
               /\ sess'[q].sent_goodbye => Balanced(sess'[q], db'[q].items, db'[q].epoch, sess'[p].tree)
    <3>1. Sound(q)
      BY <1>5, <2>1 DEF Sound
    <3>2. sess'[p].tree = sess[p].tree
      BY <1>4, <1>5 DEF n, o
    <3> QED  BY <1>0, <1>5, <3>1, <3>2 DEF Account, Books
  <2>2. ASSUME Sound(p)'
        PROVE  /\ Booked(sess'[p], db'[p].items, sess'[q].tree)
               /\ sess'[p].sent_goodbye => Balanced(sess'[p], db'[p].items, db'[p].epoch, sess'[q].tree)
    BY <1>5, <1>8, <2>2 DEF n, W, T
  <2>3. Other(p) = q
    BY DEF q
  <2> QED  BY <1>0, <2>1, <2>2, <2>3 DEF Books
<1>9. ~s.error /\ ~s.crashed /\ ~o.error /\ ~o.crashed /\ Sound(p)
  BY <1>4, <1>5, <1>8 DEF Sound, n, o
<1>10. Booked(s, D, T)
  BY <1>4, <1>9
<1>11. Booked(n, W, T)
  <2>1. SameBooks(n, s)
    BY <1>5 DEF SameBooks
  <2>2. s.held \cap Revisions \subseteq s.received
    BY <1>10 DEF Booked, Entered
  <2>3. (W \ D) \cap Revisions \subseteq s.received
    BY <1>7, <2>2
  <2> QED  BY <1>3, <1>7, <1>10, <2>1, <2>3, BookedGrows
<1>12. ASSUME n.sent_goodbye PROVE Balanced(n, W, db'[p].epoch, T)
  <2>1. Satisfied(s)
    <3>1. CASE Satisfied(s)
      BY <3>1
    <3>2. CASE o.sent_goodbye
      <4>1. Satisfied(o)
        BY <1>9, <3>2 DEF Account, Books, Balanced, o
      <4> QED  BY <1>4, <1>9, <4>1
    <3> QED  BY <1>3, <1>4, <1>9, <1>12, <3>1, <3>2
  <2>2. Satisfied(n)
    BY <1>5, <2>1 DEF Satisfied
  <2>3. Closure(D) /\ Ancestral(T)
    BY <1>0, <1>1 DEF DatabaseClosed, Account, Planted, D, T
  <2>4. T["key"] \subseteq Keys /\ T["cert"] \subseteq Certs
    <3>1. T \in [Types -> SUBSET Things]
      BY <1>0, <1>1 DEF TypeOK, Sessions, T
    <3>2. \A t \in Types : \A x \in T[t] : TypeOf(x) = t
      BY <1>0, <1>1 DEF Roots, T
    <3>3. "key" \in Types /\ "cert" \in Types
      BY DEF Types
    <3> QED  BY <3>1, <3>2, <3>3, KindOf
  <2>5. ASSUME s.role # "source" PROVE T["key"] \cup T["cert"] \subseteq D \cup s.received
    <3> SUFFICES ASSUME NEW t \in {"key", "cert"}, NEW x \in T[t] PROVE x \in D \cup s.received
      OBVIOUS
    <3>1. t \in n.tree_is_done /\ n.requested = {} /\ t \in Types
      BY <1>5, <2>1 DEF Satisfied, Types
    <3>2. IsSink(p)' /\ (Going(p)' \/ ~s.live)
      <4>1. n.role \in {"source", "sink", "both"}
        BY <1>1 DEF TypeOK, Sessions, n
      <4> QED  BY <1>5, <1>9, <2>5, <4>1 DEF IsSink, Going, n
    <3>3. Going(p)'
      BY <1>4, <3>2 DEF o
    <3>4. sess'[q].tree = T
      BY <1>5 DEF T
    <3>5. n.tree["key"] \cup n.tree["cert"] \subseteq W
      BY <1>5, <1>9 DEF Planted, n, W
    <3>6. CASE p = "client"
      <4>1. q = "server"
        BY <3>6 DEF q, Other
      <4>2. GivenFirst(t)'
        BY DEF Arriving
      <4>3. Has(x, t)'
        BY <3>1, <3>2, <3>3, <3>4, <3>6, <4>1, <4>2 DEF GivenFirst, n
      <4>4. x \in n.tree[t] \cup n.received
        BY <3>6, <4>3 DEF Has, n
      <4> QED  BY <1>4, <1>5, <1>9, <4>4 DEF Account, Planted, o, D
    <3>7. CASE p = "server"
      <4>1. q = "client"
        BY <3>7 DEF q, Other
      <4>2. \A i \in DOMAIN Stream("server")' : ~IsRefine("server", i, t)'
        BY <1>1, <3>1, <3>7 DEF Roots, n
      <4>3. Seen(t)'
        <5>1. sess'["client"].authenticated
          BY <1>5, <4>1
        <5> QED  BY <4>2, <5>1 DEF Seen
      <4>4. Asked(t)'
        BY <4>3 DEF Arriving
      <4>5. x \in n.tree[t] \cup n.requested \cup n.received
        BY <3>2, <3>3, <3>4, <3>7, <4>1, <4>4 DEF Asked, n
      <4> QED  BY <1>4, <1>5, <1>9, <3>1, <4>5 DEF Account, Planted, o, D
    <3> QED  BY <3>6, <3>7 DEF Peers
  <2>6. s.role = "source" => s.held = {} /\ s.certs = {} /\ s.ancestry = {}
    BY <1>1, <1>4, <1>5 DEF Opposed, n
  <2>7. /\ s.valve
        /\ s.held \cup s.certs \cup s.ancestry \subseteq Written(D, s.held)
        /\ s.role # "source" => T["key"] \cup T["cert"] \subseteq Written(D, s.held)
    BY <1>6, <1>10, <2>1, <2>3, <2>4, <2>5, <2>6, Closing
  <2>8. W = Written(D, s.held)
    BY <1>5, <2>7
  <2>9. s.role # "source" => T["epoch"] \subseteq {db'[p].epoch}
    <3> SUFFICES ASSUME s.role # "source" PROVE T["epoch"] \subseteq {db'[p].epoch}
      OBVIOUS
    <3>1. n.role \in {"source", "sink", "both"}
      BY <1>1 DEF TypeOK, Sessions, n
    <3>2. n.valve /\ Going(p)' /\ IsSink(p)'
      BY <1>4, <1>5, <1>9, <2>7, <3>1 DEF IsSink, Going, n, o
    <3>3. EpochKnown(p)'
      BY <1>1, <3>2 DEF EpochsMet, n
    <3> QED  BY <1>5, <3>3 DEF EpochKnown, T, q
  <2> QED  BY <1>3, <1>5, <2>2, <2>7, <2>8, <2>9 DEF Balanced
<1> QED  BY <1>11, <1>12

LEMMA HandledStep ==
  ASSUME Inv, Inv', Account, NEW p \in Peers, inbuf[p] # <<>>, sess["client"].authenticated,
         sess[p].live, NEW s \in Sessions, NEW epoch \in Epochs \cup {NoEpoch},
         NEW out \in Seq(Messages), Reply(p, s, epoch, out), Handled(p, s, out)
  PROVE  Account'
<1> DEFINE q == Other(p)
<1>0. q \in Peers /\ q # p /\ Peers = {p, q}
  BY TwoPeers
<1>1. TypeOK /\ Committed /\ Committed' /\ Planted /\ Wares /\ Arriving
  BY DEF Inv, Account
<1>2. PICK sent : Moved(p, 1, sent)
  BY HandledMoved
<1>3. Wares' /\ Arriving'
  BY <1>1, <1>2, MovedWares, MovedArriving
<1>4. Left(p, s, epoch)
  BY <1>1, ReplyLeft
<1>5. disk'[q] = disk[q] /\ disk'[p] \in {disk[p], db'[p]}
  BY <1>1, ReplyExact
<1>6. s.live = sess[p].live /\ s.crashed = sess[p].crashed
  BY DEF Handled, Conserved
<1>7. /\ sess'[q] = sess[q] /\ db'[q] = db[q]
      /\ sess'[p].live = s.live /\ sess'[p].crashed = s.crashed
      /\ db'[p].items = IF s.valve THEN Written(db[p].items, s.held) ELSE db[p].items
  BY <1>4 DEF Left
<1>8. db[p].items \subseteq db'[p].items
  <2> DEFINE D == db[p].items
             h == s.held
  <2>1. D \in SUBSET Items /\ h \in SUBSET Items
    BY <1>1 DEF TypeOK, Databases, Sessions
  <2>2. db'[p].items = IF s.valve THEN Written(D, h) ELSE D
    BY <1>7
  <2> HIDE DEF D, h
  <2>3. D \subseteq Written(D, h)
    BY <2>1, WrittenClosed
  <2> QED  BY <2>2, <2>3 DEF D
<1> HIDE DEF q
<1>9. Planted'
  <2>1. ASSUME NEW r \in Peers
        PROVE  /\ sess'[r].crashed => ~sess'[r].live
               /\ ~sess'[r].crashed => ~sess[r].crashed /\ db[r].items \subseteq db'[r].items
               /\ disk[r].items \subseteq disk'[r].items
    <3>1. CASE r = p
      BY <1>1, <1>5, <1>6, <1>7, <1>8, <3>1 DEF Planted, Committed
    <3>2. CASE r = q
      BY <1>0, <1>1, <1>5, <1>7, <3>2 DEF Planted
    <3> QED  BY <1>0, <3>1, <3>2
  <2>2. Settled
    BY <1>2 DEF Moved
  <2> QED  BY <1>1, <2>1, <2>2, PlantedKept
<1>10. Books'
  BY <1>3, <1>9, HandledBooks
<1> QED  BY <1>3, <1>9, <1>10 DEF Account

(* A source's database changes by nothing that it is sent.                 *)
LEMMA ReplySource ==
  ASSUME Inv, SourceKeeps, NEW p \in Peers, inbuf[p] # <<>>, NEW s \in Sessions,
         NEW epoch \in Epochs \cup {NoEpoch}, NEW out \in Seq(Messages), Reply(p, s, epoch, out),
         ~s.authenticated \/ s.role = "source" =>
           s.held = {} /\ (~sess[p].authenticated \/ sess[p].role = "source")
  PROVE  SourceKeeps'
<1> DEFINE q == Other(p)
<1>0. q \in Peers /\ q # p /\ Peers = {p, q}
  BY TwoPeers
<1>1. TypeOK
  BY DEF Inv
<1>2. Left(p, s, epoch)
  BY <1>1, ReplyLeft
<1>3. foreign' = foreign
  BY <1>1, ReplyExact
<1>4. /\ sess'[q] = sess[q] /\ db'[q] = db[q] /\ conf' = conf
      /\ sess'[p].role = s.role /\ sess'[p].authenticated = s.authenticated
      /\ db'[p].items = IF s.valve THEN Written(db[p].items, s.held) ELSE db[p].items
  BY <1>2 DEF Left
<1>5. db'[p].items \subseteq db[p].items \cup s.held
  <2> DEFINE D == db[p].items
             h == s.held
  <2>1. D \in SUBSET Items /\ h \in SUBSET Items
    BY <1>1 DEF TypeOK, Databases, Sessions
  <2>2. db'[p].items = IF s.valve THEN Written(D, h) ELSE D
    BY <1>4
  <2> HIDE DEF D, h
  <2>3. Written(D, h) \subseteq D \cup h
    BY <2>1, WrittenClosed
  <2> QED  BY <2>2, <2>3 DEF D, h
<1> HIDE DEF q
<1>6. ASSUME NEW r \in Peers, ~sess'[r].authenticated \/ sess'[r].role = "source"
      PROVE  db'[r].items \subseteq conf'.items[r] \cup foreign' \cup {ServerKey}
  <2>1. CASE r = p
    <3>1. s.held = {} /\ (~sess[p].authenticated \/ sess[p].role = "source")
      BY <1>4, <1>6, <2>1
    <3>2. db[p].items \subseteq conf.items[p] \cup foreign \cup {ServerKey}
      BY <3>1 DEF SourceKeeps
    <3> QED  BY <1>3, <1>4, <1>5, <2>1, <3>1, <3>2
  <2>2. CASE r = q
    BY <1>0, <1>3, <1>4, <1>6, <2>2 DEF SourceKeeps
  <2> QED  BY <1>0, <2>1, <2>2
<1>7. foreign' \subseteq conf'.foreign
  BY <1>3, <1>4 DEF SourceKeeps
<1> QED  BY <1>6, <1>7 DEF SourceKeeps

LEMMA ServedStep ==
  ASSUME Inv, Inv', SourceKeeps, NEW p \in Peers, inbuf[p] # <<>>, sess["client"].authenticated,
         sess[p].live, Served(p)
  PROVE  SourceKeeps' /\ (Account => Account')
<1>1. PICK s \in Sessions, epoch \in Epochs \cup {NoEpoch}, out \in Seq(Messages) :
        /\ Reply(p, s, epoch, out) /\ Conserved(p, s)
        /\ Account => Handled(p, s, out)
  BY DEF Served
<1>2. Account => Account'
  BY <1>1, HandledStep
<1>3. sess[p].authenticated
  BY DEF Inv, Authentication, Peers
<1>4. SourceKeeps'
  <2>1. ~s.authenticated \/ s.role = "source" =>
           s.held = {} /\ (~sess[p].authenticated \/ sess[p].role = "source")
    BY <1>1, <1>3 DEF Conserved
  <2> QED  BY <1>1, <2>1, ReplySource
<1> QED  BY <1>2, <1>4

-----------------------------------------------------------------------------
(* The books in the parts of the handlers.                                 *)
LEMMA AnalyzedExact ==
  ASSUME NEW p \in Peers, NEW s \in Sessions
  PROVE  LET a == Analyzed(p, s)
             out == AnalyzeRequests(p, s)
         IN  /\ a.sent_goodbye = s.sent_goodbye
             /\ ReadyToAnalyze(s) =>
                  /\ a.analyzed /\ a.held = s.held \cup s.certs \cup s.ancestry
                  /\ a.requested = s.requested \cup Wanted(s, Missing(p, s))
                  /\ \A i \in DOMAIN out : out[i].item \in a.requested
             /\ ~ReadyToAnalyze(s) => a = s /\ out = <<>>
<1> DEFINE xs == Missing(p, s)
           b == Asking(s, xs)
           new == [b EXCEPT !.analyzed = TRUE, !.held = @ \cup s.certs \cup s.ancestry]
<1>1. xs \in SUBSET Things
  BY DEF Missing, Things, Items
<1> HIDE DEF xs
<1>2. b \in Sessions /\ b.requested = s.requested \cup Wanted(s, xs) /\ Wanted(s, xs) \in SUBSET Things
  BY <1>1, AskingLeft
<1>3. b.held = s.held /\ Apart(b, s)
  BY AskingRelated, PartsApart
<1>4. \A i \in DOMAIN Requests(s, xs) : Requests(s, xs)[i].item \in Wanted(s, xs)
  BY <1>2, ListedCommands DEF Requests
<1> HIDE DEF b
<1>5. /\ new.analyzed /\ new.held = b.held \cup s.certs \cup s.ancestry /\ new.requested = b.requested
      /\ new.sent_goodbye = b.sent_goodbye
  BY <1>2, SMTT(30) DEF Sessions
<1> HIDE DEF new
<1>6. CASE ReadyToAnalyze(s)
  <2>1. Analyzed(p, s) = new /\ AnalyzeRequests(p, s) = Requests(s, xs)
    BY <1>6 DEF Analyzed, AnalyzeRequests, new, b, xs
  <2> QED  BY <1>2, <1>3, <1>4, <1>5, <1>6, <2>1 DEF Apart, xs
<1>7. CASE ~ReadyToAnalyze(s)
  BY <1>7 DEF Analyzed, AnalyzeRequests
<1> QED  BY <1>6, <1>7

LEMMA EnteredKept ==
  ASSUME NEW s, NEW n, NEW D, NEW T, Entered(s, D, T),
         n.role = s.role, s.tree_is_done \subseteq n.tree_is_done, n.held = s.held,
         n.requested = s.requested, n.received = s.received,
         n.certs = s.certs, n.ancestry = s.ancestry, n.analyzed = s.analyzed
  PROVE  Entered(n, D, T)
  BY DEF Entered

LEMMA AnalysisBooks ==
  ASSUME TypeOK, NEW p \in Peers, NEW s \in Sessions, NEW D, D = db[p].items, NEW T, Entered(s, D, T)
  PROVE  LET a == Analyzed(p, s)
         IN  /\ Entered(a, D, T) /\ AnalysisMade(a)
             /\ ValveOpened(s) => ValveOpened(a)
             /\ Satisfied(s) /\ s.analyzed => Satisfied(a)
<1> DEFINE xs == Missing(p, s)
           w == Wanted(s, xs)
<1>a. PICK a : a = Analyzed(p, s)
  OBVIOUS
<1>1. Related(a, s) /\ a.valve = s.valve /\ a.received = s.received
  BY <1>a, AnalyzedLeft
<1>2. /\ a.role = s.role /\ a.tree_is_done = s.tree_is_done /\ a.certs = s.certs
      /\ a.ancestry = s.ancestry
  BY <1>1 DEF Related
<1>3. CASE ~ReadyToAnalyze(s)
  <2>1. a = s
    BY <1>a, <1>3, AnalyzedExact
  <2>2. AnalysisMade(s)
    BY <1>3 DEF AnalysisMade, ReadyToAnalyze
  <2> QED  BY <1>a, <2>1, <2>2
<1>4. CASE ReadyToAnalyze(s)
  <2>1. /\ a.analyzed /\ a.held = s.held \cup s.certs \cup s.ancestry /\ a.requested = s.requested \cup w
    BY <1>a, <1>4, AnalyzedExact
  <2>2. /\ xs \subseteq Contents
        /\ \A r \in s.ancestry : (Names[r] \cap Contents) \ D \subseteq xs
    BY DEF Missing
  <2>3. /\ w \subseteq xs /\ w \cap (s.requested \cup s.received) = {}
        /\ s.role = "source" => w = {}
        /\ s.role # "source" => xs \subseteq w \cup s.requested \cup s.received
    BY DEF Wanted
  <2>4. s.requested \cap Revisions = {} /\ "cert" \in s.tree_is_done /\ ~s.analyzed
    BY <1>4 DEF ReadyToAnalyze
  <2> HIDE DEF w, xs
  <2>5. w \cap Revisions = {} /\ w \cap Certs = {} /\ w \cap Epochs = {}
    BY <2>2, <2>3, SessionConstants DEF Items
  <2>6. /\ a.requested \cap a.received = {}
        /\ a.role = "source" => a.requested = {} /\ a.received = {}
        /\ a.requested \cap Revisions \cap D = {}
        /\ (a.requested \cup a.received) \cap Certs \subseteq T["cert"]
        /\ (a.requested \cup a.received) \cap Revisions \subseteq On(T)
    BY <1>1, <1>2, <2>1, <2>3, <2>5 DEF Entered
  <2>7. /\ s.certs \subseteq Certs /\ s.ancestry \subseteq Revisions \cap s.received
        /\ s.held \cap Revisions \subseteq s.ancestry /\ s.held \cap Certs \subseteq s.certs
        /\ s.received \ Epochs \subseteq D \cup s.held \cup s.certs \cup s.ancestry
        /\ \A c \in s.certs : CertOn[c] \in D \cup s.requested \cup s.received
    BY DEF Entered
  <2>8. Certs \cap Revisions = {}
    BY SessionConstants
  <2>9. /\ a.certs \subseteq Certs /\ a.ancestry \subseteq Revisions \cap a.received
        /\ a.held \cap Revisions \subseteq a.ancestry /\ a.held \cap Certs \subseteq a.certs
        /\ a.received \ Epochs \subseteq D \cup a.held \cup a.certs \cup a.ancestry
        /\ \A c \in a.certs : CertOn[c] \in D \cup a.requested \cup a.received
    BY <1>1, <1>2, <2>1, <2>7, <2>8
  <2>10. \A r \in a.ancestry : Names[r] \cap Contents \subseteq D \cup a.requested \cup a.received
    <3> SUFFICES ASSUME NEW r \in s.ancestry, NEW x \in Names[r] \cap Contents, x \notin D
                 PROVE  x \in a.requested \cup a.received
      BY <1>2
    <3>1. x \in xs
      BY <2>2
    <3>2. s.role # "source"
      BY <2>7 DEF Entered
    <3> QED  BY <1>1, <2>1, <2>3, <3>1, <3>2
  <2>11. a.requested \cap Revisions = {} /\ a.certs \cup a.ancestry \subseteq D \cup a.held
    BY <1>2, <2>1, <2>4, <2>5
  <2>12. Entered(a, D, T)
    BY <1>2, <2>1, <2>4, <2>6, <2>9, <2>10, <2>11 DEF Entered
  <2>13. AnalysisMade(a)
    BY <2>1 DEF AnalysisMade
  <2>14. ValveOpened(s) => ValveOpened(a)
    BY <1>1, <1>2, <2>1, <2>5 DEF ValveOpened
  <2> QED  BY <1>a, <2>4, <2>12, <2>13, <2>14
<1> QED  BY <1>3, <1>4

LEMMA NotedBooks ==
  ASSUME NEW s \in Sessions, NEW D, NEW T, Entered(s, D, T), AnalysisMade(s)
  PROVE  Booked(EpochsNoted(s), D, T) /\ (Satisfied(s) => Satisfied(EpochsNoted(s)))
<1>n. PICK n : n = EpochsNoted(s)
  OBVIOUS
<1>1. /\ n.valve <=> s.valve \/ (s.requested \cap Epochs = {} /\ "epoch" \in s.tree_is_done)
      /\ n.held = s.held /\ n.requested = s.requested
      /\ Related(n, s) /\ n.received = s.received
  BY <1>n, EpochsNotedLeft
<1>2. n.analyzed = s.analyzed
  BY <1>n, PartsApart DEF Apart
<1>3. /\ n.role = s.role /\ n.tree_is_done = s.tree_is_done /\ n.certs = s.certs
      /\ n.ancestry = s.ancestry
  BY <1>1 DEF Related
<1>4. Entered(n, D, T)
  BY <1>1, <1>2, <1>3, EnteredKept
<1>5. AnalysisMade(n) /\ ValveOpened(n) /\ (Satisfied(s) => Satisfied(n))
  BY <1>1, <1>2, <1>3 DEF AnalysisMade, ValveOpened, Satisfied
<1> QED  BY <1>n, <1>4, <1>5 DEF Booked

-----------------------------------------------------------------------------
(* The accounts in the handlers, one by one.                               *)

(* Handlers that change nothing in the books.                              *)
LEMMA SameServed ==
  ASSUME Account, NEW p \in Peers, NEW s, Sound(p), SameBooks(s, sess[p]), s.held = sess[p].held
  PROVE  /\ Booked(s, db[p].items, sess[Other(p)].tree)
         /\ Satisfied(sess[p]) => Satisfied(s)
<1>1. Booked(sess[p], db[p].items, sess[Other(p)].tree)
  BY DEF Account, Books
<1>2. Booked(s, db[p].items, sess[Other(p)].tree)
  <2> DEFINE D == db[p].items
             T == sess[Other(p)].tree
             o == sess[p]
  <2>1. /\ Booked(o, D, T) /\ SameBooks(s, o) /\ D \subseteq D /\ D \ D = {}
        /\ o.held \ D \subseteq s.held /\ s.held \subseteq o.held
    BY <1>1
  <2> HIDE DEF D, T, o
  <2> QED  BY <2>1, BookedGrows DEF D, T
<1>3. Satisfied(sess[p]) => Satisfied(s)
  BY DEF SameBooks, Satisfied
<1> QED  BY <1>2, <1>3

LEMMA SendDataServed ==
  ASSUME Inv, NEW p \in Peers, ProcessSendData(p)
  PROVE  Served(p)
<1> DEFINE m == Head(inbuf[p])
           x == m.item
           s == sess[p]
           out == IF x \in db[p].items \cup {db[p].epoch} THEN Gifts(s, {x})
                  ELSE <<[cmd |-> "nonexistant", item |-> x]>>
<1>1. Processing(p, "send_data") /\ Reply(p, s, db[p].epoch, out)
  BY DEF ProcessSendData
<1>2. /\ s \in Sessions /\ db[p].epoch \in Epochs \cup {NoEpoch}
      /\ Stream(p)[1] = m /\ 1 \in DOMAIN Stream(p) /\ m.cmd = "send_data" /\ x \in Things
      /\ s.role = "source" => s.held = {}
  BY <1>1, Handling
<1>3. out \in Seq(Messages) /\ \A i \in DOMAIN out :
        out[i].cmd \in {"data", "nonexistant"} /\ out[i].item = x
  <2>1. /\ Gifts(s, {x}) \in Seq(Messages)
        /\ \A i \in DOMAIN Gifts(s, {x}) : \E y \in {x} : Gifts(s, {x})[i] = [cmd |-> "data", item |-> y]
    BY <1>2, GiftsLeft
  <2> DEFINE o == [cmd |-> "nonexistant", item |-> x]
  <2>2. o \in Messages /\ o.cmd = "nonexistant" /\ o.item = x
    BY <1>2 DEF Messages
  <2> HIDE DEF o, x, s, m
  <2>3. <<o>> \in Seq(Messages) /\ \A i \in DOMAIN <<o>> : <<o>>[i] = o
    BY <2>2
  <2>4. CASE x \in db[p].items \cup {db[p].epoch}
    <3>1. out = Gifts(s, {x})
      BY <2>4
    <3>2. out \in Seq(Messages) /\ \A i \in DOMAIN out : out[i] = [cmd |-> "data", item |-> x]
      BY <2>1, <3>1
    <3> HIDE DEF out
    <3> QED  BY <3>2
  <2>5. CASE x \notin db[p].items \cup {db[p].epoch}
    <3>1. out = <<o>>
      BY <2>5 DEF o
    <3> HIDE DEF out
    <3> QED  BY <2>2, <2>3, <3>1
  <2> QED  BY <2>4, <2>5
<1> HIDE DEF out, s, x, m
<1>4. Conserved(p, s)
  BY <1>2 DEF Conserved, s
<1>5. ASSUME Account PROVE Handled(p, s, out)
  <2>1. x \in Certs => x \in s.tree["cert"]
    <3>1. Ware(p, m) /\ Other(Other(p)) = p
      BY <1>2, <1>5, TwoPeers DEF Account, Wares
    <3> QED  BY <1>2, <3>1 DEF Ware, s, x
  <2>2. RequestFor(p, 1, x)
    BY <1>2 DEF RequestFor, x
  <2>3. ~s.error /\ ~s.crashed =>
          Booked(s, db[p].items, sess[Other(p)].tree) /\ (Satisfied(sess[p]) => Satisfied(s))
    BY <1>5 DEF Account, Books, Sound, s
  <2>4. \A t : ~IsRefine(p, 1, t)
    BY <1>2 DEF IsRefine
  <2> QED  BY <1>2, <1>3, <1>4, <2>1, <2>2, <2>3, <2>4 DEF Handled, s
<1> QED  BY <1>1, <1>2, <1>3, <1>4, <1>5 DEF Served

LEMMA ByeServed ==
  ASSUME Inv, NEW p \in Peers, ProcessBye(p)
  PROVE  Served(p)
<1> DEFINE n == [sess[p] EXCEPT !.received_goodbye = TRUE]
           o == sess[p]
<1>1. Processing(p, "bye") /\ Reply(p, n, db[p].epoch, <<>>)
  BY DEF ProcessBye
<1>2. /\ o \in Sessions /\ db[p].epoch \in Epochs \cup {NoEpoch} /\ Stream(p)[1].cmd = "bye"
      /\ o.role = "source" => o.held = {}
  BY <1>1, Handling
<1>3. /\ n \in Sessions /\ n.role = o.role /\ n.tree = o.tree /\ n.authenticated = o.authenticated
      /\ n.live = o.live /\ n.crashed = o.crashed /\ n.tree_is_done = o.tree_is_done
      /\ n.requested = o.requested /\ n.received = o.received /\ n.error = o.error /\ n.valve = o.valve
      /\ n.held = o.held /\ n.certs = o.certs /\ n.ancestry = o.ancestry
      /\ n.analyzed = o.analyzed /\ n.sent_goodbye = o.sent_goodbye
  BY <1>2 DEF Sessions
<1>4. <<>> \in Seq(Messages) /\ DOMAIN <<>> = {}
  OBVIOUS
<1> HIDE DEF n, o
<1>5. Conserved(p, n)
  BY <1>2, <1>3 DEF Conserved, o
<1>6. ASSUME Account PROVE Handled(p, n, <<>>)
  <2>1. SameBooks(n, sess[p]) /\ n.held = sess[p].held
    BY <1>3 DEF SameBooks, o
  <2>2. ~n.error /\ ~n.crashed =>
          Booked(n, db[p].items, sess[Other(p)].tree) /\ (Satisfied(sess[p]) => Satisfied(n))
    BY <1>3, <1>6, <2>1, SameServed DEF Sound, o
  <2>3. \A t : ~IsRefine(p, 1, t)
    BY <1>2 DEF IsRefine
  <2> QED  BY <1>2, <1>3, <1>4, <1>5, <2>2, <2>3 DEF Handled, o
<1> QED  BY <1>1, <1>2, <1>3, <1>4, <1>5, <1>6 DEF Served

LEMMA KeyOrContentServed ==
  ASSUME Inv, NEW p \in Peers, ProcessKeyOrContent(p)
  PROVE  Served(p)
<1>x. PICK x : x = Head(inbuf[p]).item
  OBVIOUS
<1> DEFINE o == sess[p]
           s == Arrived(o, x)
           n == [s EXCEPT !.held = @ \cup ({x} \ db[p].items)]
<1>1. /\ Processing(p, "data") /\ TypeOf(x) \in {"key", "content"} /\ sess[p].role \in {"sink", "both"}
      /\ Reply(p, n, db[p].epoch, <<>>)
  BY <1>x DEF ProcessKeyOrContent, ProcessData
<1>2. /\ o \in Sessions /\ db[p].epoch \in Epochs \cup {NoEpoch}
      /\ Stream(p)[1].cmd = "data" /\ Stream(p)[1].item = x /\ x \in Things
  BY <1>1, <1>x, Handling
<1>3. /\ x \notin Epochs /\ x \notin Certs /\ x \notin Revisions /\ x \in Items
      /\ o.role # "source"
  BY <1>1, <1>2, KindOf DEF Items
<1>4. /\ s \in Sessions
      /\ s.requested = o.requested \ {x} /\ s.received = o.received \cup {x}
      /\ s.held = o.held /\ Related(s, o) /\ s.valve = o.valve /\ Apart(s, o)
  BY <1>2, ArrivedLeft, PartsApart
<1> HIDE DEF s
<1>5. n \in Sessions
  <2>1. s.held \cup ({x} \ db[p].items) \in SUBSET Items
    BY <1>3, <1>4 DEF Sessions
  <2> QED  BY <1>4, <2>1, Zenon DEF Sessions
<1>6. /\ n.requested = s.requested /\ n.received = s.received /\ n.valve = s.valve
      /\ n.role = s.role /\ n.tree = s.tree /\ n.authenticated = s.authenticated /\ n.live = s.live
      /\ n.crashed = s.crashed /\ n.tree_is_done = s.tree_is_done /\ n.error = s.error
      /\ n.certs = s.certs /\ n.ancestry = s.ancestry /\ n.analyzed = s.analyzed
      /\ n.sent_goodbye = s.sent_goodbye /\ n.held = s.held \cup ({x} \ db[p].items)
  BY <1>4 DEF Sessions
<1>7. /\ n.requested = o.requested \ {x} /\ n.received = o.received \cup {x} /\ n.valve = o.valve
      /\ n.role = o.role /\ n.tree = o.tree /\ n.authenticated = o.authenticated /\ n.live = o.live
      /\ n.crashed = o.crashed /\ n.tree_is_done = o.tree_is_done /\ n.error = o.error
      /\ n.certs = o.certs /\ n.ancestry = o.ancestry /\ n.analyzed = o.analyzed
      /\ n.sent_goodbye = o.sent_goodbye /\ n.held = o.held \cup ({x} \ db[p].items)
  BY <1>4, <1>6 DEF Related, Apart
<1> HIDE DEF n, o
<1>8. Conserved(p, n)
  BY <1>3, <1>7 DEF Conserved, o
<1>9. <<>> \in Seq(Messages) /\ DOMAIN <<>> = {}
  OBVIOUS
<1>10. ASSUME Account PROVE Handled(p, n, <<>>)
  <2>1. ASSUME ~n.error, ~n.crashed
        PROVE  /\ Booked(n, db[p].items, sess[Other(p)].tree)
               /\ Satisfied(o) => Satisfied(n)
    <3> DEFINE D == db[p].items
               T == sess[Other(p)].tree
    <3>1. Entered(o, D, T) /\ AnalysisMade(o) /\ ValveOpened(o)
      BY <1>7, <1>10, <2>1 DEF Account, Books, Booked, Sound, o
    <3> HIDE DEF D, T
    <3>2. /\ n.requested \cap n.received = {}
          /\ n.requested \cap Revisions \cap D = {}
          /\ (n.requested \cup n.received) \cap Certs \subseteq T["cert"]
          /\ (n.requested \cup n.received) \cap Revisions \subseteq On(T)
          /\ n.certs \subseteq Certs /\ n.ancestry \subseteq Revisions \cap n.received
      BY <1>3, <1>7, <3>1 DEF Entered
    <3>3. /\ n.held \cap Revisions \subseteq n.ancestry /\ n.held \cap Certs \subseteq n.certs
          /\ n.received \ Epochs \subseteq D \cup n.held \cup n.certs \cup n.ancestry
          /\ \A c \in n.certs : CertOn[c] \in D \cup n.requested \cup n.received
      BY <1>3, <1>7, <3>1 DEF Entered, D
    <3>4. n.analyzed =>
            /\ "cert" \in n.tree_is_done /\ n.requested \cap Revisions = {}
            /\ n.certs \cup n.ancestry \subseteq D \cup n.held
            /\ \A r \in n.ancestry : Names[r] \cap Contents \subseteq D \cup n.requested \cup n.received
      BY <1>7, <3>1 DEF Entered
    <3>5. Entered(n, D, T)
      BY <1>3, <1>7, <3>2, <3>3, <3>4 DEF Entered
    <3>6. AnalysisMade(n) /\ ValveOpened(n) /\ (Satisfied(o) => Satisfied(n))
      BY <1>3, <1>7, <3>1 DEF AnalysisMade, ValveOpened, Satisfied
    <3> QED  BY <3>5, <3>6 DEF Booked, D, T
  <2>2. \A t : ~IsRefine(p, 1, t)
    BY <1>2 DEF IsRefine
  <2> QED  BY <1>2, <1>7, <1>8, <1>9, <2>1, <2>2 DEF Handled, o
<1> QED  BY <1>1, <1>2, <1>5, <1>8, <1>9, <1>10, <1>x DEF Served, n, s, o

(* Data of a tree that is not done comes to a side that is not satisfied.  *)
LEMMA DataUndone ==
  ASSUME Inv, NEW p \in Peers, 1 \in DOMAIN Stream(p), Stream(p)[1].cmd = "data",
         NEW t \in Types, TypeOf(Stream(p)[1].item) = t
  PROVE  t \notin sess[p].tree_is_done /\ ~Satisfied(sess[p])
<1>1. IsData(p, 1, t)
  BY DEF IsData
<1>2. p \in {"client", "server"}
  BY DEF Peers
<1>3. t \notin sess[p].tree_is_done
  BY <1>1, <1>2 DEF Inv, Traffic
<1> QED  BY <1>3 DEF Satisfied

LEMMA EpochServed ==
  ASSUME Inv, NEW p \in Peers, ProcessEpoch(p)
  PROVE  Served(p)
<1>x. PICK x : x = Head(inbuf[p]).item
  OBVIOUS
<1>o. PICK o : o = sess[p]
  OBVIOUS
<1>s. PICK s : s = Arrived(o, x)
  OBVIOUS
<1>1. Processing(p, "data") /\ TypeOf(x) = "epoch" /\ o.role \in {"sink", "both"}
  BY <1>x, <1>o DEF ProcessEpoch, ProcessData
<1>2. /\ o \in Sessions /\ db[p].epoch \in Epochs \cup {NoEpoch}
      /\ Stream(p)[1].cmd = "data" /\ Stream(p)[1].item = x /\ 1 \in DOMAIN Stream(p) /\ x \in Things
  BY <1>1, <1>x, <1>o, Handling
<1>3. x \in Epochs /\ x \notin Certs /\ x \notin Revisions /\ o.role # "source"
  BY <1>1, <1>2, KindOf
<1>4. /\ s \in Sessions
      /\ s.requested = o.requested \ {x} /\ s.received = o.received \cup {x}
      /\ s.held = o.held /\ Related(s, o) /\ s.valve = o.valve /\ Apart(s, o)
  BY <1>2, <1>s, ArrivedLeft, PartsApart
<1>5. <<>> \in Seq(Messages) /\ DOMAIN <<>> = {}
  OBVIOUS
<1>6. \/ Reply(p, s, x, <<>>)
      \/ Reply(p, EpochsNoted(s), x, <<>>)
      \/ Reply(p, [s EXCEPT !.error = TRUE, !.sent_goodbye = TRUE], db[p].epoch, <<Simple("error")>>)
  BY <1>x, <1>o, <1>s DEF ProcessEpoch
<1>7. /\ s.role = o.role /\ s.tree = o.tree /\ s.authenticated = o.authenticated /\ s.live = o.live
      /\ s.crashed = o.crashed /\ s.tree_is_done = o.tree_is_done /\ s.error = o.error
      /\ s.certs = o.certs /\ s.ancestry = o.ancestry /\ s.analyzed = o.analyzed
      /\ s.sent_goodbye = o.sent_goodbye
  BY <1>4 DEF Related, Apart
<1>8. "epoch" \notin o.tree_is_done /\ ~Satisfied(o)
  BY <1>1, <1>2, <1>o, DataUndone DEF Types
<1>9. \A t : ~IsRefine(p, 1, t)
  BY <1>2 DEF IsRefine
<1>10. ASSUME Account, ~s.error, ~s.crashed
       PROVE  Booked(s, db[p].items, sess[Other(p)].tree)
  <2> DEFINE D == db[p].items
             T == sess[Other(p)].tree
  <2>1. Entered(o, D, T) /\ AnalysisMade(o)
    BY <1>7, <1>10, <1>o DEF Account, Books, Booked, Sound
  <2> HIDE DEF D, T
  <2>2. /\ s.requested \cap s.received = {}
        /\ s.requested \cap Revisions \cap D = {}
        /\ (s.requested \cup s.received) \cap Certs \subseteq T["cert"]
        /\ (s.requested \cup s.received) \cap Revisions \subseteq On(T)
        /\ s.certs \subseteq Certs /\ s.ancestry \subseteq Revisions \cap s.received
    BY <1>3, <1>4, <1>7, <2>1 DEF Entered
  <2>3. /\ s.held \cap Revisions \subseteq s.ancestry /\ s.held \cap Certs \subseteq s.certs
        /\ s.received \ Epochs \subseteq D \cup s.held \cup s.certs \cup s.ancestry
        /\ \A c \in s.certs : CertOn[c] \in D \cup s.requested \cup s.received
    BY <1>3, <1>4, <1>7, <2>1 DEF Entered
  <2>4. s.analyzed =>
          /\ "cert" \in s.tree_is_done /\ s.requested \cap Revisions = {}
          /\ s.certs \cup s.ancestry \subseteq D \cup s.held
          /\ \A r \in s.ancestry : Names[r] \cap Contents \subseteq D \cup s.requested \cup s.received
    BY <1>4, <1>7, <2>1 DEF Entered
  <2>5. Entered(s, D, T)
    BY <1>3, <1>7, <2>2, <2>3, <2>4 DEF Entered
  <2>6. AnalysisMade(s) /\ ValveOpened(s)
    BY <1>3, <1>4, <1>7, <1>8, <2>1 DEF AnalysisMade, ValveOpened
  <2> QED  BY <2>5, <2>6 DEF Booked, D, T
<1>11. o.role = "source" => FALSE
  BY <1>3
<1>12. CASE Reply(p, s, x, <<>>)
  <2>1. Conserved(p, s)
    BY <1>7, <1>11, <1>o DEF Conserved
  <2>2. Account => Handled(p, s, <<>>)
    BY <1>2, <1>4, <1>5, <1>7, <1>8, <1>9, <1>10, <1>o, <2>1 DEF Handled
  <2> QED  BY <1>3, <1>4, <1>5, <1>12, <2>1, <2>2 DEF Served
<1>13. CASE Reply(p, EpochsNoted(s), x, <<>>)
  <2>n. PICK n : n = EpochsNoted(s)
    OBVIOUS
  <2>1. /\ n \in Sessions /\ n.requested = s.requested /\ n.received = s.received
        /\ Related(n, s) /\ Apart(n, s)
    BY <1>4, <2>n, EpochsNotedLeft, PartsApart
  <2>2. /\ n.role = s.role /\ n.tree = s.tree /\ n.authenticated = s.authenticated /\ n.live = s.live
        /\ n.crashed = s.crashed /\ n.tree_is_done = s.tree_is_done /\ n.error = s.error
        /\ n.sent_goodbye = s.sent_goodbye
    BY <2>1 DEF Related, Apart
  <2>3. Conserved(p, n)
    BY <1>7, <1>11, <1>o, <2>2 DEF Conserved
  <2>4. ASSUME Account, ~n.error, ~n.crashed
        PROVE  Booked(n, db[p].items, sess[Other(p)].tree)
    <3> DEFINE D == db[p].items
               T == sess[Other(p)].tree
    <3>1. Booked(s, D, T)
      BY <1>10, <2>2, <2>4
    <3> HIDE DEF D, T
    <3>2. Booked(EpochsNoted(s), D, T)
      BY <1>4, <3>1, NotedBooks DEF Booked
    <3> QED  BY <2>n, <3>2 DEF D, T
  <2>5. Account => Handled(p, n, <<>>)
    BY <1>2, <1>4, <1>5, <1>7, <1>8, <1>9, <1>o, <2>1, <2>2, <2>3, <2>4 DEF Handled
  <2> QED  BY <1>3, <1>5, <1>13, <2>1, <2>3, <2>5, <2>n DEF Served
<1>14. CASE Reply(p, [s EXCEPT !.error = TRUE, !.sent_goodbye = TRUE], db[p].epoch, <<Simple("error")>>)
  <2> DEFINE n == [s EXCEPT !.error = TRUE, !.sent_goodbye = TRUE]
             out == <<Simple("error")>>
  <2>1. /\ n \in Sessions /\ n.error = TRUE /\ n.requested = s.requested /\ n.received = s.received
        /\ n.role = s.role /\ n.tree = s.tree /\ n.authenticated = s.authenticated /\ n.live = s.live
        /\ n.crashed = s.crashed /\ n.tree_is_done = s.tree_is_done
    BY <1>4 DEF Sessions
  <2>2. out \in Seq(Messages) /\ \A i \in DOMAIN out : out[i].cmd = "error"
    BY SimpleCommands
  <2> HIDE DEF n, out
  <2>3. Conserved(p, n)
    BY <1>7, <1>11, <1>o, <2>1 DEF Conserved
  <2>4. Account => Handled(p, n, out)
    BY <1>2, <1>4, <1>7, <1>9, <1>o, <2>1, <2>2, <2>3 DEF Handled
  <2> QED  BY <1>2, <1>14, <2>1, <2>2, <2>3, <2>4 DEF Served, n, out
<1> QED  BY <1>6, <1>12, <1>13, <1>14

LEMMA CertServed ==
  ASSUME Inv, NEW p \in Peers, ProcessCert(p)
  PROVE  Served(p)
<1>x. PICK x : x = Head(inbuf[p]).item
  OBVIOUS
<1>o. PICK o : o = sess[p]
  OBVIOUS
<1> DEFINE a == Arrived(o, x)
           s == [a EXCEPT !.certs = @ \cup ({x} \ db[p].items)]
           on == IF x \in db[p].items THEN {} ELSE {CertOn[x]} \ db[p].items
           n == Asking(s, on)
           out == Requests(s, on)
<1>1. /\ Processing(p, "data") /\ TypeOf(x) = "cert" /\ o.role \in {"sink", "both"}
      /\ Reply(p, n, db[p].epoch, out)
  BY <1>x, <1>o DEF ProcessCert, ProcessData
<1>2. /\ o \in Sessions /\ db[p].epoch \in Epochs \cup {NoEpoch}
      /\ Stream(p)[1].cmd = "data" /\ Stream(p)[1].item = x /\ 1 \in DOMAIN Stream(p) /\ x \in Things
  BY <1>1, <1>x, <1>o, Handling
<1>3. /\ x \notin Epochs /\ x \in Certs /\ x \notin Revisions /\ x \in Items /\ o.role # "source"
  BY <1>1, <1>2, KindOf DEF Items
<1>4. /\ on \in SUBSET Revisions /\ Revisions \subseteq Things /\ on \cap db[p].items = {}
      /\ on \subseteq {CertOn[x]} /\ (x \notin db[p].items => CertOn[x] \in db[p].items \cup on)
  BY <1>3, SessionConstants DEF Things, Items
<1>5. /\ a \in Sessions
      /\ a.requested = o.requested \ {x} /\ a.received = o.received \cup {x}
      /\ a.held = o.held /\ Related(a, o) /\ a.valve = o.valve /\ Apart(a, o)
  BY <1>2, ArrivedLeft, PartsApart
<1> HIDE DEF on, a
<1>6. s \in Sessions
  <2>1. a.certs \cup ({x} \ db[p].items) \in SUBSET Items
    BY <1>3, <1>5 DEF Sessions
  <2> QED  BY <1>5, <2>1, Zenon DEF Sessions
<1>7. /\ s.requested = a.requested /\ s.received = a.received /\ s.valve = a.valve
      /\ s.role = a.role /\ s.tree = a.tree /\ s.authenticated = a.authenticated /\ s.live = a.live
      /\ s.crashed = a.crashed /\ s.tree_is_done = a.tree_is_done /\ s.error = a.error
      /\ s.ancestry = a.ancestry /\ s.held = a.held /\ s.analyzed = a.analyzed
      /\ s.sent_goodbye = a.sent_goodbye /\ s.certs = a.certs \cup ({x} \ db[p].items)
  BY <1>5 DEF Sessions
<1> HIDE DEF s
<1>8. /\ n \in Sessions /\ out \in Seq(Messages)
      /\ n.requested = s.requested \cup Wanted(s, on)
      /\ \A i \in DOMAIN out :
           \E y \in on : out[i] = [cmd |-> "send_data", item |-> y] /\ s.role # "source"
      /\ \A y \in on : s.role # "source" => y \in n.requested \cup s.received
  BY <1>4, <1>6, AskingLeft
<1>9. /\ Related(n, s) /\ n.held = s.held /\ n.valve = s.valve /\ n.received = s.received
      /\ Apart(n, s)
  BY <1>6, AskingRelated, PartsApart
<1>w. PICK w : w = Wanted(s, on)
  OBVIOUS
<1>10. w \subseteq on /\ w \cap (s.requested \cup s.received) = {}
  BY <1>w DEF Wanted
<1> HIDE DEF n, out
<1>11. /\ n.requested = (o.requested \ {x}) \cup w /\ n.received = o.received \cup {x}
       /\ n.valve = o.valve /\ n.role = o.role /\ n.tree = o.tree /\ n.authenticated = o.authenticated
       /\ n.live = o.live /\ n.crashed = o.crashed /\ n.tree_is_done = o.tree_is_done
       /\ n.error = o.error /\ n.certs = o.certs \cup ({x} \ db[p].items)
       /\ n.ancestry = o.ancestry /\ n.held = o.held /\ n.analyzed = o.analyzed
       /\ n.sent_goodbye = o.sent_goodbye
       /\ w \subseteq on /\ w \cap ((o.requested \ {x}) \cup o.received \cup {x}) = {}
       /\ \A y \in on : y \in n.requested \cup n.received
  BY <1>3, <1>5, <1>7, <1>8, <1>9, <1>10, <1>w DEF Related, Apart
<1>12. ASSUME NEW i \in DOMAIN out
       PROVE  out[i].cmd = "send_data" /\ out[i].item \in on
  BY <1>8
<1>13. Conserved(p, n)
  BY <1>3, <1>11, <1>o DEF Conserved
<1>14. "cert" \notin o.tree_is_done /\ ~Satisfied(o)
  BY <1>1, <1>2, <1>o, DataUndone DEF Types
<1>15. ASSUME Account PROVE Handled(p, n, out)
  <2>1. x \in sess[Other(p)].tree["cert"]
    <3>1. Ware(p, Stream(p)[1])
      BY <1>2, <1>15 DEF Account, Wares
    <3> QED  BY <1>2, <1>3, <3>1 DEF Ware
  <2>2. ASSUME ~n.error, ~n.crashed PROVE Booked(n, db[p].items, sess[Other(p)].tree)
    <3>D. PICK D : D = db[p].items
      OBVIOUS
    <3>T. PICK T : T = sess[Other(p)].tree
      OBVIOUS
    <3>1. Entered(o, D, T) /\ AnalysisMade(o) /\ ValveOpened(o) /\ x \in T["cert"]
      BY <1>11, <1>15, <1>o, <2>1, <2>2, <3>D, <3>T DEF Account, Books, Booked, Sound
    <3>2. /\ on \subseteq Revisions /\ on \cap D = {} /\ on \subseteq {CertOn[x]}
          /\ x \notin D => CertOn[x] \in D \cup on
          /\ n.certs = o.certs \cup ({x} \ D)
          /\ on \cap Certs = {} /\ on \cap Epochs = {}
      BY <1>4, <1>11, <3>D, SessionConstants DEF Items
    <3>3. n.requested \cap n.received = {}
      BY <1>11, <3>1 DEF Entered
    <3>4. n.requested \cap Revisions \cap D = {}
      BY <1>11, <3>1, <3>2 DEF Entered
    <3>5. (n.requested \cup n.received) \cap Certs \subseteq T["cert"]
      BY <1>11, <3>1, <3>2 DEF Entered
    <3>6. (n.requested \cup n.received) \cap Revisions \subseteq On(T)
      <4>1. on \subseteq On(T)
        BY <3>1, <3>2 DEF On
      <4> QED  BY <1>3, <1>11, <3>1, <4>1 DEF Entered
    <3>7. /\ n.certs \subseteq Certs /\ n.ancestry \subseteq Revisions \cap n.received
          /\ n.held \cap Revisions \subseteq n.ancestry /\ n.held \cap Certs \subseteq n.certs
          /\ n.received \ Epochs \subseteq D \cup n.held \cup n.certs \cup n.ancestry
      BY <1>3, <1>11, <3>1, <3>2 DEF Entered
    <3>8. \A c \in n.certs : CertOn[c] \in D \cup n.requested \cup n.received
      <4> SUFFICES ASSUME NEW c \in n.certs PROVE CertOn[c] \in D \cup n.requested \cup n.received
        OBVIOUS
      <4>1. CASE c \in o.certs
        <5>1. CertOn[c] \in D \cup o.requested \cup o.received
          BY <3>1, <4>1 DEF Entered
        <5> QED  BY <1>11, <5>1
      <4>2. CASE c = x /\ x \notin D
        BY <1>11, <3>2, <4>2
      <4> QED  BY <3>2, <4>1, <4>2
    <3>9. ~n.analyzed
      BY <1>11, <1>14, <3>1 DEF Entered
    <3>10. Entered(n, D, T)
      BY <1>3, <1>11, <3>3, <3>4, <3>5, <3>6, <3>7, <3>8, <3>9 DEF Entered
    <3>11. AnalysisMade(n) /\ ValveOpened(n)
      BY <1>3, <1>11, <1>14, <3>1 DEF AnalysisMade, ValveOpened
    <3> QED  BY <3>10, <3>11, <3>D, <3>T DEF Booked
  <2>3. \A t : ~IsRefine(p, 1, t)
    BY <1>2 DEF IsRefine
  <2>4. on \cap Certs = {}
    BY <1>4, SessionConstants
  <2> QED  BY <1>2, <1>11, <1>12, <1>13, <1>14, <1>o, <2>2, <2>3, <2>4 DEF Handled
<1> QED  BY <1>1, <1>2, <1>8, <1>13, <1>15 DEF Served, n, out

LEMMA RevisionServed ==
  ASSUME Inv, NEW p \in Peers, ProcessRevision(p)
  PROVE  Served(p)
<1>x. PICK x : x = Head(inbuf[p]).item
  OBVIOUS
<1>o. PICK o : o = sess[p]
  OBVIOUS
<1> DEFINE s == Arrived(o, x)
           n == [s EXCEPT !.ancestry = @ \cup {x}]
           z == Analyzed(p, n)
           out == AnalyzeRequests(p, n)
<1>1. /\ Processing(p, "data") /\ TypeOf(x) = "revision" /\ o.role \in {"sink", "both"}
      /\ \/ x \in db[p].items /\ Reply(p, s, db[p].epoch, <<>>)
         \/ x \notin db[p].items /\ Reply(p, z, db[p].epoch, out)
  BY <1>x, <1>o DEF ProcessRevision, ProcessData
<1>2. /\ o \in Sessions /\ o.live /\ db[p].epoch \in Epochs \cup {NoEpoch}
      /\ Stream(p)[1].cmd = "data" /\ Stream(p)[1].item = x /\ 1 \in DOMAIN Stream(p) /\ x \in Things
  BY <1>1, <1>x, <1>o, Handling
<1>3. /\ x \notin Epochs /\ x \notin Certs /\ x \in Revisions /\ x \in Items /\ o.role # "source"
      /\ TypeOK
  BY <1>1, <1>2, KindOf DEF Items, Inv
<1>4. /\ s \in Sessions
      /\ s.requested = o.requested \ {x} /\ s.received = o.received \cup {x}
      /\ s.held = o.held /\ Related(s, o) /\ s.valve = o.valve /\ Apart(s, o)
  BY <1>2, ArrivedLeft, PartsApart
<1> HIDE DEF s
<1>5. /\ s.role = o.role /\ s.tree = o.tree /\ s.authenticated = o.authenticated /\ s.live = o.live
      /\ s.crashed = o.crashed /\ s.tree_is_done = o.tree_is_done /\ s.error = o.error
      /\ s.certs = o.certs /\ s.ancestry = o.ancestry /\ s.analyzed = o.analyzed
      /\ s.sent_goodbye = o.sent_goodbye
  BY <1>4 DEF Related, Apart
<1>6. n \in Sessions
  <2>1. s.ancestry \cup {x} \in SUBSET Items
    BY <1>3, <1>4 DEF Sessions
  <2> QED  BY <1>4, <2>1, Zenon DEF Sessions
<1>7. /\ n.requested = s.requested /\ n.received = s.received /\ n.valve = s.valve
      /\ n.role = s.role /\ n.tree = s.tree /\ n.authenticated = s.authenticated /\ n.live = s.live
      /\ n.crashed = s.crashed /\ n.tree_is_done = s.tree_is_done /\ n.error = s.error
      /\ n.certs = s.certs /\ n.held = s.held /\ n.analyzed = s.analyzed
      /\ n.sent_goodbye = s.sent_goodbye /\ n.ancestry = s.ancestry \cup {x}
  BY <1>4 DEF Sessions
<1> HIDE DEF n
<1>8. /\ z \in Sessions /\ out \in Seq(Messages)
      /\ Related(z, n) /\ z.valve = n.valve /\ z.received = n.received /\ n.requested \subseteq z.requested
      /\ \A i \in DOMAIN out :
           \E y \in Contents : out[i] = [cmd |-> "send_data", item |-> y] /\ n.role # "source"
  BY <1>3, <1>6, AnalyzedLeft
<1>9. /\ z.sent_goodbye = n.sent_goodbye
      /\ \A i \in DOMAIN out : out[i].item \in z.requested
  BY <1>6, AnalyzedExact
<1>10. ASSUME NEW D, D = db[p].items, NEW T, Entered(n, D, T)
       PROVE  /\ Entered(z, D, T) /\ AnalysisMade(z)
              /\ ValveOpened(n) => ValveOpened(z)
              /\ Satisfied(n) /\ n.analyzed => Satisfied(z)
  BY <1>3, <1>6, <1>10, AnalysisBooks
<1> HIDE DEF z, out
<1>11. <<>> \in Seq(Messages) /\ DOMAIN <<>> = {}
  OBVIOUS
<1>12. \A t : ~IsRefine(p, 1, t)
  BY <1>2 DEF IsRefine
<1>13. ASSUME Account, ~o.error, ~o.crashed
       PROVE  /\ Entered(o, db[p].items, sess[Other(p)].tree) /\ AnalysisMade(o) /\ ValveOpened(o)
              /\ x \in o.requested \cup o.received
  <2>1. Ware(p, Stream(p)[1])
    BY <1>2, <1>13 DEF Account, Wares
  <2>2. x \in o.requested \cup o.received
    BY <1>2, <1>3, <1>13, <1>o, <2>1 DEF Ware, Due, Going
  <2> QED  BY <1>13, <1>o, <2>2 DEF Account, Books, Booked, Sound
<1>14. CASE x \in db[p].items /\ Reply(p, s, db[p].epoch, <<>>)
  <2>1. Conserved(p, s)
    BY <1>3, <1>5, <1>o DEF Conserved
  <2>2. ASSUME Account, ~s.error, ~s.crashed
        PROVE  Booked(s, db[p].items, sess[Other(p)].tree) /\ (Satisfied(o) => Satisfied(s))
    <3>1. x \notin o.requested
      BY <1>3, <1>5, <1>13, <1>14, <2>2 DEF Entered
    <3>2. SameBooks(s, o)
      BY <1>4, <1>5, <1>13, <2>2, <3>1 DEF SameBooks
    <3> QED  BY <1>4, <1>5, <1>o, <2>2, <3>2, SameServed DEF Sound
  <2>3. Account => Handled(p, s, <<>>)
    BY <1>2, <1>4, <1>5, <1>11, <1>12, <1>o, <2>1, <2>2 DEF Handled
  <2> QED  BY <1>2, <1>4, <1>11, <1>14, <2>1, <2>3 DEF Served
<1>15. CASE x \notin db[p].items /\ Reply(p, z, db[p].epoch, out)
  <2>1. /\ z.role = o.role /\ z.tree = o.tree /\ z.authenticated = o.authenticated /\ z.live = o.live
        /\ z.crashed = o.crashed /\ z.tree_is_done = o.tree_is_done /\ z.error = o.error
        /\ z.sent_goodbye = o.sent_goodbye /\ z.received = o.received \cup {x}
        /\ o.requested \ {x} \subseteq z.requested
    BY <1>4, <1>5, <1>7, <1>8, <1>9 DEF Related
  <2>2. Conserved(p, z)
    BY <1>3, <1>o, <2>1 DEF Conserved
  <2>3. ASSUME Account, ~z.error, ~z.crashed
        PROVE  Booked(z, db[p].items, sess[Other(p)].tree) /\ (Satisfied(o) => Satisfied(z))
    <3>D. PICK D : D = db[p].items
      OBVIOUS
    <3>T. PICK T : T = sess[Other(p)].tree
      OBVIOUS
    <3>1. /\ Entered(o, D, T) /\ AnalysisMade(o) /\ ValveOpened(o) /\ x \in o.requested \cup o.received
          /\ x \notin D
      BY <1>13, <1>15, <2>1, <2>3, <3>D, <3>T
    <3>2. /\ n.requested = o.requested \ {x} /\ n.received = o.received \cup {x}
          /\ n.role = o.role /\ n.tree_is_done = o.tree_is_done /\ n.valve = o.valve
          /\ n.certs = o.certs /\ n.ancestry = o.ancestry \cup {x}
          /\ n.held = o.held /\ n.analyzed = o.analyzed
      BY <1>4, <1>5, <1>7
    <3>3. /\ n.requested \cap n.received = {}
          /\ n.requested \cap Revisions \cap D = {}
          /\ (n.requested \cup n.received) \cap Certs \subseteq T["cert"]
          /\ (n.requested \cup n.received) \cap Revisions \subseteq On(T)
      BY <3>1, <3>2 DEF Entered
    <3>4. /\ n.certs \subseteq Certs /\ n.ancestry \subseteq Revisions \cap n.received
          /\ n.held \cap Revisions \subseteq n.ancestry /\ n.held \cap Certs \subseteq n.certs
          /\ n.received \ Epochs \subseteq D \cup n.held \cup n.certs \cup n.ancestry
          /\ \A c \in n.certs : CertOn[c] \in D \cup n.requested \cup n.received
      BY <1>3, <3>1, <3>2 DEF Entered
    <3>5. ASSUME n.analyzed
          PROVE  /\ "cert" \in n.tree_is_done /\ n.requested \cap Revisions = {}
                 /\ n.certs \cup n.ancestry \subseteq D \cup n.held
                 /\ \A r \in n.ancestry : Names[r] \cap Contents \subseteq D \cup n.requested \cup n.received
      <4>1. /\ "cert" \in o.tree_is_done /\ o.requested \cap Revisions = {}
            /\ o.certs \cup o.ancestry \subseteq D \cup o.held
            /\ \A r \in o.ancestry : Names[r] \cap Contents \subseteq D \cup o.requested \cup o.received
        BY <3>1, <3>2, <3>5 DEF Entered
      <4>2. x \in o.ancestry
        BY <1>3, <3>1, <4>1 DEF Entered
      <4> QED  BY <3>2, <4>1, <4>2
    <3>6. Entered(n, D, T)
      BY <1>3, <3>2, <3>3, <3>4, <3>5 DEF Entered
    <3>7. ValveOpened(n)
      BY <1>3, <3>1, <3>2 DEF ValveOpened
    <3>8. /\ Entered(z, D, T) /\ AnalysisMade(z) /\ ValveOpened(z)
          /\ Satisfied(n) /\ n.analyzed => Satisfied(z)
      BY <1>10, <3>6, <3>7, <3>D
    <3>9. Satisfied(o) => Satisfied(n) /\ n.analyzed
      BY <3>1, <3>2 DEF Satisfied, AnalysisMade, Types
    <3> QED  BY <3>8, <3>9, <3>D, <3>T DEF Booked
  <2>4. \A y \in Contents : y \notin Certs
    BY SessionConstants
  <2>5. ASSUME NEW i \in DOMAIN out
        PROVE  out[i].cmd = "send_data" /\ out[i].item \notin Certs /\ out[i].item \in z.requested
    BY <1>8, <1>9, <2>4
  <2>6. Account => Handled(p, z, out)
    BY <1>2, <1>12, <1>o, <2>1, <2>2, <2>3, <2>5 DEF Handled
  <2> QED  BY <1>2, <1>8, <1>15, <2>2, <2>6 DEF Served
<1> QED  BY <1>1, <1>14, <1>15

LEMMA DoneServed ==
  ASSUME Inv, NEW p \in Peers, ProcessDone(p)
  PROVE  Served(p)
<1>t. PICK t : t = Head(inbuf[p]).type
  OBVIOUS
<1>o. PICK o : o = sess[p]
  OBVIOUS
<1> DEFINE s == [o EXCEPT !.had_refinements = @ \ ({t} \ o.tree_is_done)]
           d == [s EXCEPT !.tree_is_done = @ \cup {t}]
           echo == IF t \in s.tree_is_done THEN <<>> ELSE <<Done(t)>>
           a == Analyzed(p, d)
           z == EpochsNoted(a)
           asks == AnalyzeRequests(p, d)
<1>1. /\ Processing(p, "done")
      /\ \/ Reply(p, s, db[p].epoch, echo)
         \/ Reply(p, z, db[p].epoch, echo \o asks)
  BY <1>t, <1>o DEF ProcessDone
<1>2. /\ o \in Sessions /\ t \in Types /\ TypeOK /\ db[p].epoch \in Epochs \cup {NoEpoch}
      /\ Stream(p)[1].cmd = "done" /\ Stream(p)[1].type = t /\ 1 \in DOMAIN Stream(p)
      /\ sess["client"].authenticated /\ (o.role = "source" => o.held = {})
      /\ o.role = "source" => o.certs = {} /\ o.ancestry = {}
  BY <1>1, <1>o, <1>t, Handling DEF Inv
<1>3. IsDone(p, 1, t) /\ \A u : ~IsRefine(p, 1, u)
  BY <1>2 DEF IsDone, IsRefine
<1>4. p = "server" => Seen(t)
  <2> SUFFICES ASSUME p = "server", NEW j \in DOMAIN Stream(p), IsRefine(p, j, t) PROVE FALSE
    BY <1>2 DEF Seen
  <2>1. Stream(p) \in Seq(Messages)
    BY <1>2, StreamsTyped
  <2>2. j \in Nat \ {0}
    BY <2>1, SequenceFacts
  <2>3. 1 > j
    BY <1>2, <1>3 DEF Inv, Roots
  <2> QED  BY <2>2, <2>3
<1>5. /\ s \in Sessions /\ s.tree_is_done = o.tree_is_done /\ s.role = o.role /\ s.tree = o.tree
      /\ s.authenticated = o.authenticated /\ s.live = o.live /\ s.crashed = o.crashed
      /\ s.requested = o.requested
      /\ s.received = o.received /\ s.certs = o.certs /\ s.ancestry = o.ancestry
      /\ s.held = o.held /\ s.error = o.error /\ s.valve = o.valve /\ s.analyzed = o.analyzed
      /\ s.sent_goodbye = o.sent_goodbye
  BY <1>2 DEF Sessions
<1> HIDE DEF s
<1>6. /\ d \in Sessions /\ d.tree_is_done = s.tree_is_done \cup {t} /\ d.role = s.role
      /\ d.tree = s.tree /\ d.authenticated = s.authenticated /\ d.live = s.live
      /\ d.crashed = s.crashed /\ d.requested = s.requested
      /\ d.received = s.received /\ d.certs = s.certs /\ d.ancestry = s.ancestry
      /\ d.held = s.held /\ d.error = s.error /\ d.valve = s.valve /\ d.analyzed = s.analyzed
      /\ d.sent_goodbye = s.sent_goodbye
  BY <1>2, <1>5 DEF Sessions
<1> HIDE DEF d
<1>7. /\ echo \in Seq(Messages) /\ \A i \in DOMAIN echo : echo[i] = Done(t)
  <2>1. Done(t) \in Messages
    BY <1>2 DEF Done, Messages
  <2> QED  BY <2>1
<1> HIDE DEF echo
<1>8. /\ a \in Sessions /\ asks \in Seq(Messages)
      /\ Related(a, d) /\ a.received = d.received
      /\ a.held \subseteq d.held \cup d.certs \cup d.ancestry /\ d.requested \subseteq a.requested
      /\ \A i \in DOMAIN asks :
           \E x \in Contents : asks[i] = [cmd |-> "send_data", item |-> x] /\ d.role # "source"
  BY <1>2, <1>6, AnalyzedLeft
<1>9. /\ a.sent_goodbye = d.sent_goodbye
      /\ \A i \in DOMAIN asks : asks[i].item \in a.requested
  BY <1>6, AnalyzedExact
<1>10. ASSUME NEW D, D = db[p].items, NEW T, Entered(d, D, T)
       PROVE  /\ Entered(a, D, T) /\ AnalysisMade(a)
              /\ Satisfied(d) /\ d.analyzed => Satisfied(a)
  BY <1>2, <1>6, <1>10, AnalysisBooks
<1> HIDE DEF a, asks
<1>11. /\ z \in Sessions /\ z.held = a.held /\ z.requested = a.requested
       /\ Related(z, a) /\ z.received = a.received /\ Apart(z, a)
  BY <1>8, EpochsNotedLeft, PartsApart
<1>12. ASSUME NEW D, NEW T, Entered(a, D, T), AnalysisMade(a)
       PROVE  Booked(z, D, T) /\ (Satisfied(a) => Satisfied(z))
  BY <1>8, <1>12, NotedBooks
<1> HIDE DEF z
<1>13. Done(t).cmd = "done" /\ Done(t).type = t
  BY DEF Done
<1>14. CASE Reply(p, s, db[p].epoch, echo)
  <2>1. Conserved(p, s)
    BY <1>2, <1>5, <1>o DEF Conserved
  <2>2. ASSUME Account, ~s.error, ~s.crashed
        PROVE  Booked(s, db[p].items, sess[Other(p)].tree) /\ (Satisfied(o) => Satisfied(s))
    <3>1. SameBooks(s, o)
      BY <1>5 DEF SameBooks
    <3> QED  BY <1>5, <1>o, <2>2, <3>1, SameServed DEF Sound
  <2>3. Account => Handled(p, s, echo)
    BY <1>2, <1>3, <1>4, <1>5, <1>7, <1>13, <1>o, <2>1, <2>2 DEF Handled
  <2> QED  BY <1>2, <1>5, <1>7, <1>14, <2>1, <2>3 DEF Served
<1>15. CASE Reply(p, z, db[p].epoch, echo \o asks)
  <2>o. PICK out : out = echo \o asks
    OBVIOUS
  <2>1. ASSUME NEW i \in DOMAIN asks
        PROVE  asks[i].cmd = "send_data" /\ asks[i].item \notin Certs /\ asks[i].item \in z.requested
    <3>1. \A y \in Contents : y \notin Certs
      BY SessionConstants
    <3> QED  BY <1>8, <1>9, <1>11, <3>1
  <2>2. /\ out \in Seq(Messages)
        /\ \A i \in DOMAIN out :
             \/ out[i] = Done(t)
             \/ \E j \in DOMAIN asks : out[i] = asks[j]
    <3>1. echo \o asks \in Seq(Messages) /\ \A i \in DOMAIN echo : (echo \o asks)[i] = echo[i]
      BY <1>7, <1>8, ConcatAt
    <3>2. \A i \in DOMAIN (echo \o asks) :
             \/ i \in DOMAIN echo
             \/ i > Len(echo) /\ i - Len(echo) \in DOMAIN asks
                  /\ (echo \o asks)[i] = asks[i - Len(echo)]
      BY <1>7, <1>8, ConcatAt
    <3> QED  BY <1>7, <2>o, <3>1, <3>2
  <2>3. /\ z.role = o.role /\ z.tree = o.tree /\ z.authenticated = o.authenticated /\ z.live = o.live
        /\ z.crashed = o.crashed /\ z.tree_is_done = o.tree_is_done \cup {t} /\ z.error = o.error
        /\ z.sent_goodbye = o.sent_goodbye /\ z.received = o.received
        /\ o.requested \subseteq z.requested
        /\ z.held \subseteq o.held \cup o.certs \cup o.ancestry
    BY <1>5, <1>6, <1>8, <1>9, <1>11 DEF Related, Apart
  <2>4. Conserved(p, z)
    BY <1>2, <1>o, <2>3 DEF Conserved
  <2>5. ASSUME Account, ~z.error, ~z.crashed
        PROVE  Booked(z, db[p].items, sess[Other(p)].tree) /\ (Satisfied(o) => Satisfied(z))
    <3>D. PICK D : D = db[p].items
      OBVIOUS
    <3>T. PICK T : T = sess[Other(p)].tree
      OBVIOUS
    <3>1. Entered(o, D, T) /\ AnalysisMade(o)
      BY <1>o, <2>3, <2>5, <3>D, <3>T DEF Account, Books, Booked, Sound
    <3>2. Entered(d, D, T)
      BY <1>5, <1>6, <3>1, EnteredKept
    <3>3. Entered(a, D, T) /\ AnalysisMade(a) /\ (Satisfied(d) /\ d.analyzed => Satisfied(a))
      BY <1>10, <3>2, <3>D
    <3>4. Booked(z, D, T) /\ (Satisfied(a) => Satisfied(z))
      BY <1>12, <3>3
    <3>5. Satisfied(o) => Satisfied(d) /\ d.analyzed
      BY <1>2, <1>5, <1>6, <3>1 DEF Satisfied, AnalysisMade, Types
    <3> QED  BY <3>3, <3>4, <3>5, <3>D, <3>T
  <2>6. ASSUME NEW i \in DOMAIN out
        PROVE  /\ out[i].cmd \in {"done", "send_data"}
               /\ out[i].cmd = "done" => out[i].type = t
               /\ out[i].cmd = "send_data" =>
                    out[i].item \notin Certs /\ out[i].item \in z.requested
    BY <1>13, <2>1, <2>2
  <2>7. Account => Handled(p, z, out)
    BY <1>2, <1>3, <1>4, <1>o, <2>3, <2>4, <2>5, <2>6 DEF Handled
  <2> QED  BY <1>2, <1>11, <1>15, <2>2, <2>4, <2>7, <2>o DEF Served
<1> QED  BY <1>1, <1>14, <1>15

LEMMA RefineServed ==
  ASSUME Inv, NEW p \in Peers, ProcessRefine(p)
  PROVE  Served(p)
<1>1. PICK t \in Types, theirs \in SUBSET Things, ours \in SUBSET Things, n \in Sessions, out \in Seq(Messages) :
        RefineLeft(p, t, theirs, ours, n, out)
  BY RefineLeaves
<1>o. PICK o : o = sess[p]
  OBVIOUS
<1>c. PICK c : c = sess["client"]
  OBVIOUS
<1>2. /\ Reply(p, n, db[p].epoch, out)
      /\ inbuf[p] # <<>> /\ o \in Sessions /\ o.live /\ db[p].epoch \in Epochs \cup {NoEpoch}
      /\ Stream(p)[1].cmd = "refine" /\ 1 \in DOMAIN Stream(p) /\ IsRefine(p, 1, t)
      /\ p = "server" /\ ~o.error
      /\ o.role = "source" => o.held = {}
  BY <1>1, <1>o DEF RefineLeft
<1>3. /\ \A x \in theirs : x \in c.tree[t] /\ TypeOf(x) = t
      /\ \A x \in ours : x \in o.tree[t] /\ TypeOf(x) = t
      /\ \A x \in c.tree[t] : x \in theirs \/ x \in o.tree[t]
      /\ \A x \in o.tree[t] : x \in ours \/ x \in c.tree[t]
  BY <1>1, <1>o, <1>c DEF RefineLeft
<1>4. /\ n.requested = o.requested \cup IF o.role = "source" THEN {} ELSE theirs \ (o.requested \cup o.received)
      /\ n.tree_is_done = o.tree_is_done
      /\ n.live = o.live /\ n.crashed = o.crashed /\ n.role = o.role
      /\ n.authenticated = o.authenticated /\ n.tree = o.tree /\ n.valve = o.valve
      /\ n.received = o.received /\ n.held = o.held /\ n.certs = o.certs
      /\ n.ancestry = o.ancestry /\ n.error = o.error
      /\ n.analyzed = o.analyzed /\ n.sent_goodbye = o.sent_goodbye
  BY <1>1, <1>o DEF RefineLeft
<1>5. /\ \A i \in DOMAIN out :
           \/ \E x \in theirs : out[i] = [cmd |-> "send_data", item |-> x] /\ o.role # "source"
           \/ \E x \in ours : out[i] = [cmd |-> "data", item |-> x] /\ o.role # "sink"
      /\ o.role # "sink" => \A x \in ours : \E i \in DOMAIN out : out[i] = [cmd |-> "data", item |-> x]
  BY <1>1, <1>o DEF RefineLeft
<1>6. TypeOK /\ Opposed /\ Authentication /\ t \notin o.tree_is_done
  BY <1>2, <1>o DEF Inv, Roots
<1>7. ~Satisfied(o)
  BY <1>6 DEF Satisfied
<1>8. \A x \in theirs \cup ours :
        /\ x \in Certs => t = "cert"
        /\ x \in Epochs => t = "epoch"
        /\ x \notin Revisions /\ x \notin Contents
  <2> SUFFICES ASSUME NEW x \in theirs \cup ours
               PROVE  /\ x \in Certs => t = "cert"
                      /\ x \in Epochs => t = "epoch"
                      /\ x \notin Revisions /\ x \notin Contents
    OBVIOUS
  <2>1. x \in Things /\ TypeOf(x) = t /\ t \in {"epoch", "key", "cert"}
    BY <1>3 DEF Types
  <2> QED  BY <2>1, KindOf
<1>9. Conserved(p, n)
  BY <1>2, <1>4, <1>o DEF Conserved
<1>10. Left(p, n, db[p].epoch)
  BY <1>2, <1>6, ReplyLeft
<1>11. PICK sent : Leaving(p, out, sent) /\ Flow(p, 1, sent)
  BY <1>2, <1>6, ReplyFlow
<1>12. Other(p) = "client" /\ sess'["client"] = c /\ sess'[p].tree = o.tree /\ sess'[p].role = o.role
       /\ sess'[p].requested = n.requested /\ sess'[p].received = o.received
  BY <1>2, <1>4, <1>10, <1>c, <1>o DEF Left, Other
<1>13. Asked(t)'
  <2> SUFFICES ASSUME IsSink("server")', NEW x \in c.tree[t]
               PROVE  x \in o.tree[t] \cup n.requested \cup o.received
    BY <1>2, <1>12 DEF Asked
  <2>1. o.role # "source"
    BY <1>2, <1>12 DEF IsSink
  <2> QED  BY <1>3, <1>4, <2>1
<1>14. Given(t)'
  <2> SUFFICES ASSUME IsSink("client")', NEW x \in o.tree[t], ~Has(x, t)'
               PROVE  \E j \in DOMAIN Stream("client")' : DataFor("client", j, x)'
    BY <1>2, <1>12 DEF Given
  <2>1. x \in ours
    BY <1>3, <1>12 DEF Has
  <2>2. o.role # "sink"
    <3>1. c.role # "source"
      BY <1>12 DEF IsSink
    <3>2. c.role = "source" <=> sess[Other("client")].role = "sink"
      BY <1>6, <1>c, <1>1 DEF Opposed, Peers, Authentication, RefineLeft
    <3> QED  BY <1>2, <1>o, <3>1, <3>2 DEF Other
  <2>3. PICK i \in DOMAIN out : out[i] = [cmd |-> "data", item |-> x]
    BY <1>5, <2>1, <2>2
  <2>4. i \in DOMAIN sent /\ sent[i] = out[i]
    BY <1>2, <1>11, <1>o DEF Leaving
  <2>5. \E j \in DOMAIN Stream("client")' : Stream("client")'[j] = [cmd |-> "data", item |-> x]
    BY <1>11, <1>12, <2>3, <2>4 DEF Flow
  <2> QED  BY <2>5 DEF DataFor
<1>15. ASSUME NEW u, IsRefine(p, 1, u) PROVE u = t
  BY <1>2, <1>15 DEF IsRefine
<1>16. ASSUME Account, ~n.error, ~n.crashed
       PROVE  Booked(n, db[p].items, c.tree)
  <2>D. PICK D : D = db[p].items
    OBVIOUS
  <2>T. PICK T : T = c.tree
    OBVIOUS
  <2>w. PICK w : w = IF o.role = "source" THEN {} ELSE theirs \ (o.requested \cup o.received)
    OBVIOUS
  <2>1. Entered(o, D, T) /\ AnalysisMade(o) /\ ValveOpened(o)
    BY <1>2, <1>4, <1>12, <1>16, <1>o, <1>c, <2>D, <2>T DEF Account, Books, Booked, Sound
  <2>2. /\ n.requested = o.requested \cup w /\ w \cap (o.requested \cup o.received) = {}
        /\ o.role = "source" => w = {}
        /\ w \cap Revisions = {} /\ w \cap Certs \subseteq T["cert"]
    <3>1. w \subseteq theirs
      BY <2>w
    <3>2. \A x \in theirs : x \in T[t]
      BY <1>3, <2>T
    <3> QED  BY <1>4, <1>8, <2>w, <3>1, <3>2
  <2>3. /\ n.requested \cap n.received = {}
        /\ n.role = "source" => n.requested = {} /\ n.received = {}
        /\ n.requested \cap Revisions \cap D = {}
        /\ (n.requested \cup n.received) \cap Certs \subseteq T["cert"]
        /\ (n.requested \cup n.received) \cap Revisions \subseteq On(T)
        /\ \A c1 \in n.certs : CertOn[c1] \in D \cup n.requested \cup n.received
    BY <1>4, <2>1, <2>2 DEF Entered
  <2>4. n.analyzed =>
          /\ "cert" \in n.tree_is_done /\ n.requested \cap Revisions = {}
          /\ n.certs \cup n.ancestry \subseteq D \cup n.held
          /\ \A r \in n.ancestry : Names[r] \cap Contents \subseteq D \cup n.requested \cup n.received
    BY <1>4, <2>1, <2>2 DEF Entered
  <2>5. Entered(n, D, T)
    BY <1>4, <2>1, <2>3, <2>4 DEF Entered
  <2>6. AnalysisMade(n)
    BY <1>4, <2>1, <2>2 DEF AnalysisMade
  <2>7. ValveOpened(n)
    BY <1>4, <2>1, <2>2 DEF ValveOpened
  <2> QED  BY <2>5, <2>6, <2>7, <2>D, <2>T DEF Booked
<1>17. \A i \in DOMAIN out :
         /\ out[i].cmd = "data" =>
              /\ out[i].item \in Certs => out[i].item \in o.tree["cert"]
              /\ out[i].item \notin Revisions \cup Contents
         /\ out[i].cmd = "send_data" =>
              /\ out[i].item \in Certs => out[i].item \in c.tree["cert"]
              /\ out[i].item \notin Revisions \cup Contents
         /\ out[i].cmd # "done"
  BY <1>3, <1>5, <1>8
<1>18. Account => Handled(p, n, out)
  <2> SUFFICES ASSUME Account PROVE Handled(p, n, out)
    OBVIOUS
  <2>1. \A u \in {"key", "cert"} : IsRefine(p, 1, u) /\ Going(p)' => Asked(u)' /\ Given(u)'
    <3> SUFFICES ASSUME NEW u \in {"key", "cert"}, IsRefine(p, 1, u) PROVE Asked(u)' /\ Given(u)'
      OBVIOUS
    <3>1. u = t
      BY <1>15
    <3> QED  BY <1>13, <1>14, <3>1
  <2> QED  BY <1>2, <1>4, <1>7, <1>9, <1>12, <1>16, <1>17, <1>o, <1>c, <2>1 DEF Handled
<1> QED  BY <1>1, <1>2, <1>9, <1>18 DEF Served

-----------------------------------------------------------------------------
(* Before the client has its confirmation the books are empty.             *)
LEMMA EmptyBooks ==
  ASSUME Books,
         \A r \in Peers :
           /\ sess[r].tree_is_done = {} /\ sess'[r].tree_is_done = {} /\ sess'[r].held = {}
           /\ sess'[r].certs = {} /\ sess'[r].ancestry = {} /\ sess'[r].requested = {}
           /\ sess'[r].received = {} /\ ~sess'[r].analyzed
           /\ Sound(r)' /\ sess'[r].sent_goodbye => Sound(r) /\ sess[r].sent_goodbye
  PROVE  Books'
<1> SUFFICES ASSUME NEW r \in Peers, Sound(r)'
             PROVE  /\ Booked(sess'[r], db'[r].items, sess'[Other(r)].tree)
                    /\ ~sess'[r].sent_goodbye
  BY DEF Books
<1>1. Booked(sess'[r], db'[r].items, sess'[Other(r)].tree)
  <2> DEFINE n == sess'[r]
             D == db'[r].items
             T == sess'[Other(r)].tree
  <2>1. /\ n.tree_is_done = {} /\ n.held = {} /\ n.certs = {} /\ n.ancestry = {}
        /\ n.requested = {} /\ n.received = {} /\ ~n.analyzed
    OBVIOUS
  <2> HIDE DEF n, D, T
  <2>2. Entered(n, D, T)
    BY <2>1 DEF Entered
  <2>3. AnalysisMade(n) /\ ValveOpened(n)
    BY <2>1 DEF AnalysisMade, ValveOpened
  <2> QED  BY <2>2, <2>3 DEF Booked, n, D, T
<1>2. ~sess'[r].sent_goodbye
  <2> SUFFICES ASSUME sess'[r].sent_goodbye PROVE FALSE
    OBVIOUS
  <2>1. Sound(r) /\ sess[r].sent_goodbye
    OBVIOUS
  <2>2. sess[r].tree_is_done = Types
    BY <2>1 DEF Books, Balanced, Satisfied
  <2> QED  BY <2>2 DEF Types
<1> QED  BY <1>1, <1>2

LEMMA QuietBooks ==
  ASSUME Inv, Inv', Books, Planted', ~sess["client"].authenticated, ~sess'["client"].authenticated,
         \A r \in Peers : Sound(r)' /\ sess'[r].sent_goodbye => Sound(r) /\ sess[r].sent_goodbye
  PROVE  Books' /\ Wares' /\ Arriving'
<1>1. /\ \A r \in Peers : \A i \in DOMAIN Stream(r)' : ~Exchanged(Stream(r)'[i])
      /\ \A r \in Peers :
           /\ sess'[r].tree_is_done = {} /\ sess'[r].held = {}
           /\ sess'[r].certs = {} /\ sess'[r].ancestry = {}
      /\ \A r \in Peers : sess[r].tree_is_done = {}
  BY DEF Inv, Authentication
<1>2. \A r \in Peers : sess'[r].requested = {} /\ sess'[r].received = {} /\ ~sess'[r].analyzed
  BY DEF Planted
<1>3. Books'
  BY <1>1, <1>2, EmptyBooks
<1>4. Wares'
  <2> SUFFICES ASSUME NEW r \in Peers, NEW i \in DOMAIN Stream(r)', NEW m, m = Stream(r)'[i]
               PROVE  Ware(r, m)'
    BY Zenon DEF Wares
  <2>1. m.cmd # "data" /\ m.cmd # "send_data"
    BY <1>1 DEF Exchanged
  <2> QED  BY <2>1 DEF Ware
<1>5. Arriving'
  <2>1. \A t : ~Seen(t)'
    BY DEF Seen
  <2>2. \A t : t \notin sess'["client"].tree_is_done
    BY <1>1 DEF Peers
  <2>3. \A t, i : ~IsDone("client", i, t)'
    <3>1. \A i \in DOMAIN Stream("client")' : Stream("client")'[i].cmd # "done"
      BY <1>1 DEF Exchanged, Peers
    <3> QED  BY <3>1 DEF IsDone
  <2>4. \A t : GivenFirst(t)'
    BY <2>2, <2>3 DEF GivenFirst
  <2> QED  BY <2>1, <2>4 DEF Arriving
<1> QED  BY <1>3, <1>4, <1>5

LEMMA StutterUneventful ==
  ASSUME Inv, UNCHANGED vars
  PROVE  \E p \in Peers : Uneventful(p)
<1>1. /\ conf' = conf /\ db' = db /\ disk' = disk /\ sess' = sess
      /\ net' = net /\ inbuf' = inbuf /\ foreign' = foreign
  BY DEF vars
<1>2. PICK p \in Peers : TRUE
  BY DEF Peers
<1>3. \A r \in Peers : Stream(r)' = Stream(r)
  BY <1>1 DEF Stream
<1>4. Flow(p, 0, <<>>)
  BY <1>3, SameFlow DEF Inv
<1>5. \A i \in DOMAIN Stream(p) : ~(i <= 0)
  BY <1>4 DEF Flow
<1>6. Idle(p, 0)
  BY <1>1, <1>4, <1>5 DEF Idle, Unhandled
<1> QED  BY <1>1, <1>6 DEF Uneventful

LEMMA IdleMoved ==
  ASSUME Inv, NEW p \in Peers, NEW k, Idle(p, k), sess["client"].authenticated
  PROVE  Moved(p, k, <<>>)
<1> DEFINE q == Other(p)
<1>0. q \in Peers /\ q # p /\ Peers = {p, q}
  BY TwoPeers
<1>1. /\ Flow(p, k, <<>>) /\ k \in Nat /\ conf' = conf /\ \A r \in Peers : Unhandled(r)
      /\ sess'[q] = sess[q] /\ (sess'[p].live => sess[p].live)
      /\ k > 0 => ~Going(p)'
      /\ DOMAIN <<>> = {}
  BY DEF Idle, Flow
<1>2. "client" \in Peers /\ "server" \in Peers
  BY DEF Peers
<1> HIDE DEF q
<1>3. Settled
  BY <1>1, <1>2 DEF Settled, Unhandled, Inv, Authentication
<1>4. Going(p)' => Going(p)
  BY <1>1 DEF Going, Unhandled
<1>5. /\ sess'[p].received = sess[p].received /\ sess'[p].requested = sess[p].requested
      /\ sess'[p].tree_is_done = sess[p].tree_is_done
  BY <1>1 DEF Unhandled
<1>6. Going(p)' => \A j \in DOMAIN Stream(p) : ~(j <= k)
  <2> SUFFICES ASSUME Going(p)', NEW j \in DOMAIN Stream(p) PROVE ~(j <= k)
    OBVIOUS
  <2>1. k = 0 /\ j \in Nat \ {0}
    BY <1>1 DEF Flow
  <2> QED  BY <2>1
<1>7. ASSUME NEW t, Seen(t)', Going("server")' PROVE Seen(t)
  <2> SUFFICES ASSUME NEW i \in DOMAIN Stream("server"), IsRefine("server", i, t)
               PROVE  FALSE
    BY DEF Seen
  <2>1. CASE p = "server"
    <3>1. k = 0
      BY <1>1, <1>7, <2>1
    <3>2. i \in Nat /\ i > k /\ i - k = i
      BY <1>1, <2>1, <3>1 DEF Flow
    <3>3. i \in DOMAIN Stream(p)'
      <4>1. \A j \in DOMAIN Stream(p) : j > k => j - k \in DOMAIN Stream(p)'
        BY <1>1 DEF Flow
      <4> QED  BY <2>1, <3>2, <4>1
    <3>4. i + k = i /\ Stream(p)'[i] = Stream(p)[i + k]
      BY <1>1, <3>1, <3>2, <3>3 DEF Flow
    <3>5. IsRefine("server", i, t)'
      BY <2>1, <3>3, <3>4 DEF IsRefine
    <3> QED  BY <1>7, <2>1, <3>3, <3>5 DEF Seen
  <2>2. CASE q = "server"
    <3>1. i \in DOMAIN Stream(q)' /\ Stream(q)'[i] = Stream(q)[i]
      BY <1>1, <2>2 DEF Flow, q
    <3>2. IsRefine("server", i, t)'
      BY <2>2, <3>1 DEF IsRefine
    <3> QED  BY <1>7, <2>2, <3>1, <3>2 DEF Seen
  <2> QED  BY <1>0, <1>2, <2>1, <2>2
<1> QED  BY <1>1, <1>3, <1>4, <1>5, <1>6, <1>7 DEF Moved, q

LEMMA UneventfulStep ==
  ASSUME Inv, Inv', SourceKeeps, NEW p \in Peers, Uneventful(p)
  PROVE  SourceKeeps' /\ (Tidy /\ Account => Account')
<1>q. PICK q : q = Other(p)
  OBVIOUS
<1>0. q \in Peers /\ q # p /\ Peers = {p, q}
  BY <1>q, TwoPeers
<1>k. PICK k : Idle(p, k)
  BY DEF Uneventful
<1>1. /\ foreign \subseteq foreign' /\ foreign' \subseteq conf.foreign
      /\ \A r \in Peers :
           /\ sess'[r].analyzed = sess[r].analyzed /\ sess'[r].sent_goodbye = sess[r].sent_goodbye
           /\ sess'[r].crashed => sess[r].crashed \/ ~sess'[r].live
           /\ ~sess'[r].crashed =>
                ~sess[r].crashed /\ db[r].items \subseteq db'[r].items /\ db'[r].epoch = db[r].epoch
           /\ db'[r].items \subseteq db[r].items \cup foreign' /\ disk[r].items \subseteq disk'[r].items
  BY DEF Uneventful, SourceKeeps
<1>2. /\ conf' = conf /\ Flow(p, k, <<>>) /\ \A r \in Peers : Unhandled(r)
      /\ \A r \in Peers : sess'[r].live => sess[r].live
  <2>1. /\ conf' = conf /\ Flow(p, k, <<>>) /\ \A r \in Peers : Unhandled(r)
        /\ sess'[q] = sess[q]
    BY <1>k, <1>q DEF Idle
  <2>2. sess'[p].live => sess[p].live
    BY <1>k DEF Idle
  <2> QED  BY <1>0, <2>1, <2>2
<1>3. \A r \in Peers :
        /\ sess'[r].role = sess[r].role /\ sess'[r].tree = sess[r].tree
        /\ sess'[r].authenticated = sess[r].authenticated /\ sess'[r].valve = sess[r].valve
        /\ sess'[r].tree_is_done = sess[r].tree_is_done
        /\ sess'[r].requested = sess[r].requested /\ sess'[r].received = sess[r].received
        /\ sess'[r].certs = sess[r].certs /\ sess'[r].ancestry = sess[r].ancestry
        /\ sess'[r].held = sess[r].held /\ sess'[r].error = sess[r].error
  BY <1>2 DEF Unhandled
<1>4. SourceKeeps'
  BY <1>1, <1>2, <1>3 DEF SourceKeeps
<1>5. ASSUME Tidy, Account PROVE Account'
  <2>1. Planted /\ Books /\ Wares /\ Arriving
    BY <1>5 DEF Account
  <2>2. "client" \in Peers /\ "server" \in Peers
    BY DEF Peers
  <2>3. \A r \in Peers :
          /\ ~sess'[r].crashed => sess'[r].tree["key"] \cup sess'[r].tree["cert"] \subseteq db'[r].items
          /\ Ancestral(sess'[r].tree)
          /\ conf'.items[r] \subseteq disk'[r].items
          /\ sess'[r].crashed => ~sess'[r].live
    BY <1>1, <1>2, <1>3, <2>1 DEF Planted
  <2>4. \A r \in Peers : Whole(r) => Whole(r)'
    BY <1>2, <1>3 DEF Whole
  <2>5. \A i \in DOMAIN Stream("server")' : \E j \in DOMAIN Stream("server") :
          Stream("server")'[i] = Stream("server")[j]
    <3>1. \A i \in DOMAIN Stream(p)' : i + k \in DOMAIN Stream(p) /\ Stream(p)'[i] = Stream(p)[i + k]
      BY <1>2 DEF Flow
    <3>2. \A i \in DOMAIN Stream(q)' : i \in DOMAIN Stream(q) /\ Stream(q)'[i] = Stream(q)[i]
      BY <1>2, <1>q DEF Flow
    <3> QED  BY <1>0, <2>2, <3>1, <3>2
  <2>6. Planted'
    <3>1. \A i \in DOMAIN Stream("server")' :
            Stream("server")'[i].cmd \in {"auth", "anonymous"} => Whole("client")'
      BY <2>1, <2>2, <2>4, <2>5 DEF Planted
    <3>2. sess'["server"].authenticated => \A r \in Peers : Whole(r)'
      BY <1>3, <2>1, <2>2, <2>4 DEF Planted
    <3>3. ~sess'["client"].authenticated => \A r \in Peers :
            sess'[r].requested = {} /\ sess'[r].received = {} /\ ~sess'[r].analyzed
      BY <1>1, <1>3, <2>1, <2>2 DEF Planted
    <3> QED  BY <2>3, <3>1, <3>2, <3>3 DEF Planted
  <2>7. CASE sess["client"].authenticated
    <3>1. Moved(p, k, <<>>)
      BY <1>k, <2>7, IdleMoved
    <3>2. Wares' /\ Arriving'
      BY <2>1, <3>1, MovedWares, MovedArriving
    <3>3. Books'
      <4> SUFFICES ASSUME NEW r \in Peers, Sound(r)'
                   PROVE  /\ Booked(sess'[r], db'[r].items, sess'[Other(r)].tree)
                          /\ sess'[r].sent_goodbye =>
                               Balanced(sess'[r], db'[r].items, db'[r].epoch, sess'[Other(r)].tree)
        BY DEF Books
      <4>D. PICK D : D = db[r].items
        OBVIOUS
      <4>W. PICK W : W = db'[r].items
        OBVIOUS
      <4>T. PICK T : T = sess[Other(r)].tree
        OBVIOUS
      <4>s. PICK s : s = sess[r]
        OBVIOUS
      <4>n. PICK n : n = sess'[r]
        OBVIOUS
      <4>1. sess'[Other(r)].tree = T
        BY <1>3, <4>T, TwoPeers
      <4>2. Sound(r)
        BY <1>1, <1>3 DEF Sound
      <4>3. /\ Booked(s, D, T)
            /\ s.sent_goodbye => Balanced(s, D, db[r].epoch, T)
        BY <2>1, <4>2, <4>D, <4>T, <4>s DEF Books
      <4>4. SameBooks(n, s) /\ n.held = s.held /\ n.sent_goodbye = s.sent_goodbye
        BY <1>1, <1>3, <4>n, <4>s DEF SameBooks
      <4>5. D \subseteq W
        BY <1>1, <4>D, <4>W DEF Sound
      <4>6. (W \ D) \cap Revisions = {}
        <5>1. W \subseteq D \cup foreign' /\ foreign' \cap Revisions = {}
          BY <1>1, <1>5, <4>D, <4>W DEF Tidy
        <5> QED  BY <5>1
      <4>7. Booked(n, W, T)
        BY <4>3, <4>4, <4>5, <4>6, BookedGrows
      <4>8. n.sent_goodbye => Balanced(n, W, db[r].epoch, T)
        <5> SUFFICES ASSUME n.sent_goodbye PROVE Balanced(n, W, db[r].epoch, T)
          OBVIOUS
        <5>1. Balanced(s, D, db[r].epoch, T)
          BY <4>3, <4>4
        <5>2. /\ n.role = s.role /\ n.tree_is_done = s.tree_is_done /\ n.requested = s.requested
              /\ n.certs = s.certs /\ n.ancestry = s.ancestry /\ n.held = s.held
          BY <4>4 DEF SameBooks
        <5> QED  BY <4>5, <5>1, <5>2 DEF Balanced, Satisfied
      <4>9. db'[r].epoch = db[r].epoch
        BY <1>1 DEF Sound
      <4> QED  BY <4>1, <4>7, <4>8, <4>9, <4>W, <4>n
    <3> QED  BY <2>6, <3>2, <3>3 DEF Account
  <2>8. CASE ~sess["client"].authenticated
    <3>1. ~sess'["client"].authenticated
      BY <1>3, <2>2, <2>8
    <3>2. \A r \in Peers : Sound(r)' /\ sess'[r].sent_goodbye => Sound(r) /\ sess[r].sent_goodbye
      BY <1>1, <1>3 DEF Sound
    <3>3. Books' /\ Wares' /\ Arriving'
      BY <2>1, <2>6, <2>8, <3>1, <3>2, QuietBooks
    <3> QED  BY <2>6, <3>3 DEF Account
  <2> QED  BY <2>7, <2>8
<1> QED  BY <1>4, <1>5

LEMMA ReplyQuiet ==
  ASSUME Inv, Inv', SourceKeeps, NEW p \in Peers, inbuf[p] # <<>>, ~sess["client"].authenticated,
         NEW s \in Sessions, NEW epoch \in Epochs \cup {NoEpoch}, NEW out \in Seq(Messages),
         Reply(p, s, epoch, out),
         s.live = sess[p].live, s.crashed = sess[p].crashed, s.held = {}, s.tree_is_done = {},
         s.requested = sess[p].requested, s.received = sess[p].received,
         s.analyzed = sess[p].analyzed,
         ~s.error => ~sess[p].error /\ s.sent_goodbye = sess[p].sent_goodbye,
         ~s.authenticated \/ s.role = "source" => ~sess[p].authenticated \/ sess[p].role = "source",
         p = "client" => ~s.authenticated /\ s.tree = sess[p].tree,
         \A i \in DOMAIN out : out[i].cmd \in {"error", "confirm"},
         Tidy /\ Account =>
           /\ ~s.crashed => s.tree["key"] \cup s.tree["cert"] \subseteq db[p].items
           /\ Ancestral(s.tree)
           /\ s.authenticated =>
                /\ Whole("client")
                /\ Certs \cap conf.items[p] \subseteq s.tree["cert"]
                /\ {KeyOf[c] : c \in Certs \cap conf.items[p]} \cap conf.items[p] \subseteq s.tree["key"]
  PROVE  SourceKeeps' /\ (Tidy /\ Account => Account')
<1>q. PICK q : q = Other(p)
  OBVIOUS
<1>0. /\ q \in Peers /\ q # p /\ Peers = {p, q} /\ "client" \in Peers /\ "server" \in Peers
      /\ (p = "client" /\ q = "server") \/ (p = "server" /\ q = "client")
  BY <1>q, TwoPeers DEF Peers, Other
<1>1. SourceKeeps'
  BY ReplySource
<1> SUFFICES ASSUME Tidy, Account PROVE Account'
  BY <1>1
<1>2. TypeOK /\ Authentication /\ Committed /\ Committed' /\ Planted /\ Books
  BY DEF Inv, Account
<1>3. Left(p, s, epoch)
  BY <1>2, ReplyLeft
<1>4. PICK sent : Leaving(p, out, sent) /\ Flow(p, 1, sent)
  BY <1>2, ReplyFlow
<1>5. /\ sess'[p].sent_goodbye <=> s.sent_goodbye \/ Satisfied(s)
      /\ disk'[q] = disk[q] /\ disk'[p] \in {disk[p], db'[p]}
  BY <1>2, <1>q, ReplyExact
<1>6. /\ conf' = conf /\ sess'[q] = sess[q] /\ db'[q] = db[q]
      /\ sess'[p].live = s.live /\ sess'[p].crashed = s.crashed /\ sess'[p].tree = s.tree
      /\ sess'[p].authenticated = s.authenticated /\ sess'[p].requested = s.requested
      /\ sess'[p].received = s.received /\ sess'[p].analyzed = s.analyzed
      /\ sess'[p].error = s.error
      /\ db'[p].items = IF s.valve THEN Written(db[p].items, s.held) ELSE db[p].items
  BY <1>3, <1>q DEF Left
<1>7. ~Satisfied(s)
  BY DEF Satisfied, Types
<1>8. db[p].items \subseteq db'[p].items
  <2> DEFINE D == db[p].items
             h == s.held
  <2>1. D \in SUBSET Items /\ h \in SUBSET Items
    BY <1>2 DEF TypeOK, Databases, Sessions
  <2>2. db'[p].items = IF s.valve THEN Written(D, h) ELSE D
    BY <1>6
  <2> HIDE DEF D, h
  <2>3. D \subseteq Written(D, h)
    BY <2>1, WrittenClosed
  <2> QED  BY <2>2, <2>3 DEF D
<1>9. ~sess'["client"].authenticated
  BY <1>0, <1>6
<1>10. \A r \in Peers :
         /\ ~sess'[r].crashed => sess'[r].tree["key"] \cup sess'[r].tree["cert"] \subseteq db'[r].items
         /\ Ancestral(sess'[r].tree)
         /\ conf'.items[r] \subseteq disk'[r].items
         /\ sess'[r].crashed => ~sess'[r].live
         /\ sess'[r].requested = {} /\ sess'[r].received = {} /\ ~sess'[r].analyzed
  <2>1. disk[p].items \subseteq disk'[p].items
    BY <1>2, <1>5, <1>8 DEF Committed
  <2>2. ASSUME NEW r \in Peers, r = p
        PROVE /\ ~sess'[r].crashed => sess'[r].tree["key"] \cup sess'[r].tree["cert"] \subseteq db'[r].items
              /\ Ancestral(sess'[r].tree)
              /\ conf'.items[r] \subseteq disk'[r].items
              /\ sess'[r].crashed => ~sess'[r].live
              /\ sess'[r].requested = {} /\ sess'[r].received = {} /\ ~sess'[r].analyzed
    BY <1>2, <1>6, <1>8, <2>1, <2>2 DEF Planted
  <2>3. ASSUME NEW r \in Peers, r = q
        PROVE /\ ~sess'[r].crashed => sess'[r].tree["key"] \cup sess'[r].tree["cert"] \subseteq db'[r].items
              /\ Ancestral(sess'[r].tree)
              /\ conf'.items[r] \subseteq disk'[r].items
              /\ sess'[r].crashed => ~sess'[r].live
              /\ sess'[r].requested = {} /\ sess'[r].received = {} /\ ~sess'[r].analyzed
    BY <1>2, <1>5, <1>6, <2>3 DEF Planted
  <2> QED  BY <1>0, <2>2, <2>3
<1>11. sess'["server"].authenticated => \A r \in Peers : Whole(r)'
  <2>1. CASE p = "client"
    BY <1>0, <1>2, <1>6, <2>1 DEF Planted, Whole
  <2>2. CASE p = "server"
    <3> SUFFICES ASSUME s.authenticated PROVE Whole(p)' /\ Whole(q)'
      BY <1>0, <1>6, <2>2
    <3>1. Whole(p)'
      BY <1>6 DEF Whole
    <3>2. Whole(q)'
      BY <1>0, <1>6, <2>2 DEF Whole
    <3> QED  BY <3>1, <3>2
  <2> QED  BY <1>0, <2>1, <2>2
<1>12. \A i \in DOMAIN Stream("server")' :
         Stream("server")'[i].cmd \in {"auth", "anonymous"} => Whole("client")'
  <2> SUFFICES ASSUME NEW i \in DOMAIN Stream("server")', NEW m, m = Stream("server")'[i],
                      m.cmd \in {"auth", "anonymous"}
               PROVE  Whole("client")'
    OBVIOUS
  <2>1. Whole("client") => Whole("client")'
    <3>1. sess'["client"].tree = sess["client"].tree /\ conf' = conf
      BY <1>0, <1>6
    <3> QED  BY <3>1 DEF Whole
  <2>2. \/ \E j \in DOMAIN Stream("server") : m = Stream("server")[j]
        \/ \E j \in DOMAIN sent : m = sent[j]
    <3>1. \A a \in DOMAIN Stream(p)' : a + 1 \in DOMAIN Stream(p) /\ Stream(p)'[a] = Stream(p)[a + 1]
      BY <1>4 DEF Flow
    <3>2. \A a \in DOMAIN Stream(q)' :
            \/ a \in DOMAIN Stream(q) /\ Stream(q)'[a] = Stream(q)[a]
            \/ \E j \in DOMAIN sent : Stream(q)'[a] = sent[j]
      BY <1>4, <1>q DEF Flow
    <3> QED  BY <1>0, <2>1, <3>1, <3>2
  <2>3. \A j \in DOMAIN sent : sent[j].cmd \in {"error", "confirm", "bye"}
    BY <1>4, SimpleCommands DEF Leaving
  <2> QED  BY <1>2, <2>1, <2>2, <2>3 DEF Planted
<1>13. Planted'
  BY <1>10, <1>11, <1>12 DEF Planted
<1>14. \A r \in Peers : Sound(r)' /\ sess'[r].sent_goodbye => Sound(r) /\ sess[r].sent_goodbye
  BY <1>0, <1>5, <1>6, <1>7 DEF Sound
<1>15. Books' /\ Wares' /\ Arriving'
  BY <1>2, <1>9, <1>13, <1>14, QuietBooks
<1> QED  BY <1>13, <1>15 DEF Account

(* A tree of a database that only other sessions have written to.          *)
LEMMA TreePlanted ==
  ASSUME Inv, Tidy, SourceKeeps, Planted, NEW p \in Peers, ~sess[p].authenticated,
         NEW D \in Databases, db[p].items \subseteq D.items, D.items \subseteq db[p].items \cup {ServerKey}
  PROVE  /\ Ancestral(Tree(D)) /\ Tree(D)["key"] \cup Tree(D)["cert"] \subseteq D.items
         /\ Certs \cap conf.items[p] \subseteq Tree(D)["cert"]
         /\ {KeyOf[c] : c \in Certs \cap conf.items[p]} \cap conf.items[p] \subseteq Tree(D)["key"]
<1> DEFINE T == Tree(D)
<1>1. T["key"] = {KeyOf[c] : c \in Certs \cap D.items} \cap D.items /\ T["cert"] = Certs \cap D.items
  BY DEF Tree
<1> HIDE DEF T
<1>2. conf.items[p] \subseteq D.items
  BY DEF Planted, Inv, Committed
<1>3. /\ Certs \cap conf.items[p] \subseteq T["cert"]
      /\ {KeyOf[c] : c \in Certs \cap conf.items[p]} \cap conf.items[p] \subseteq T["key"]
  BY <1>1, <1>2
<1>4. T["key"] \cup T["cert"] \subseteq D.items
  BY <1>1
<1>5. Ancestral(T)
  <2> SUFFICES ASSUME NEW c \in T["cert"], NEW r \in Names[CertOn[c]] \cap Revisions
               PROVE  r \in On(T)
    BY DEF Ancestral
  <2>1. c \in Certs /\ c \in db[p].items /\ CertOn[c] \in Revisions
    BY <1>1, SessionConstants
  <2>2. Closure(db[p].items)
    BY DEF Inv, DatabaseClosed
  <2>3. Needs(c) = {CertOn[c]} /\ Needs(CertOn[c]) = Names[CertOn[c]]
    BY <2>1, SessionConstants DEF Needs
  <2>4. r \in db[p].items
    BY <2>1, <2>2, <2>3 DEF Closure
  <2>5. r \in conf.items[p]
    <3>1. db[p].items \subseteq conf.items[p] \cup foreign \cup {ServerKey} /\ foreign \cap Revisions = {}
      BY DEF SourceKeeps, Tidy
    <3>2. ServerKey \notin Revisions
      BY SessionConstants
    <3> QED  BY <2>4, <3>1, <3>2
  <2>6. PICK d \in Certs \cap conf.items[p] : CertOn[d] = r
    BY <2>5 DEF Tidy
  <2> QED  BY <1>3, <2>6 DEF On
<1> QED  BY <1>3, <1>4, <1>5 DEF T

LEMMA ByeAccount ==
  ASSUME Inv, Inv', SourceKeeps, NEW p \in Peers, ProcessBye(p), ~sess["client"].authenticated
  PROVE  SourceKeeps' /\ (Tidy /\ Account => Account')
<1>o. PICK o : o = sess[p]
  OBVIOUS
<1> DEFINE s == [o EXCEPT !.received_goodbye = TRUE]
<1>1. Processing(p, "bye") /\ Reply(p, s, db[p].epoch, <<>>)
  BY <1>o DEF ProcessBye
<1>2. inbuf[p] # <<>> /\ o \in Sessions /\ db[p].epoch \in Epochs \cup {NoEpoch}
  BY <1>1, <1>o, Handling
<1>3. /\ s \in Sessions /\ s.live = o.live /\ s.crashed = o.crashed /\ s.held = o.held
      /\ s.tree_is_done = o.tree_is_done /\ s.requested = o.requested /\ s.received = o.received
      /\ s.analyzed = o.analyzed /\ s.error = o.error /\ s.sent_goodbye = o.sent_goodbye
      /\ s.authenticated = o.authenticated /\ s.role = o.role /\ s.tree = o.tree
  BY <1>2 DEF Sessions
<1> HIDE DEF s
<1>4. o.held = {} /\ o.tree_is_done = {} /\ (p = "client" => ~o.authenticated)
  BY <1>o DEF Inv, Authentication
<1>5. Tidy /\ Account =>
        /\ ~s.crashed => s.tree["key"] \cup s.tree["cert"] \subseteq db[p].items
        /\ Ancestral(s.tree)
        /\ s.authenticated =>
             /\ Whole("client")
             /\ Certs \cap conf.items[p] \subseteq s.tree["cert"]
             /\ {KeyOf[c] : c \in Certs \cap conf.items[p]} \cap conf.items[p] \subseteq s.tree["key"]
  <2> SUFFICES ASSUME Planted
               PROVE  /\ ~s.crashed => s.tree["key"] \cup s.tree["cert"] \subseteq db[p].items
                      /\ Ancestral(s.tree)
                      /\ s.authenticated =>
                           /\ Whole("client")
                           /\ Certs \cap conf.items[p] \subseteq s.tree["cert"]
                           /\ {KeyOf[c] : c \in Certs \cap conf.items[p]} \cap conf.items[p] \subseteq s.tree["key"]
    BY DEF Account
  <2>1. s.authenticated => Whole("client") /\ Whole(p)
    BY <1>3, <1>4, <1>o DEF Planted, Peers
  <2> QED  BY <1>3, <1>o, <2>1 DEF Planted, Whole
<1>6. <<>> \in Seq(Messages) /\ DOMAIN <<>> = {}
  OBVIOUS
<1> QED  BY <1>1, <1>2, <1>3, <1>4, <1>5, <1>6, <1>o, ReplyQuiet

LEMMA AuthAccount ==
  ASSUME Inv, Inv', SourceKeeps, ProcessAuth
  PROVE  SourceKeeps' /\ (Tidy /\ Account => Account')
<1>p. PICK p : p = "server"
  OBVIOUS
<1>o. PICK o : o = sess[p]
  OBVIOUS
<1> DEFINE T == Tree(db[p])
           n == [o EXCEPT !.tree = T, !.authenticated = TRUE, !.role = OppositeRole]
           e == [o EXCEPT !.error = TRUE, !.sent_goodbye = TRUE]
           ep == Rebuilt(db[p]).epoch
<1>0. p \in Peers
  BY <1>p DEF Peers
<1>1. /\ Processing(p, "anonymous") \/ Processing(p, "auth")
      /\ ~o.authenticated
      /\ \/ Close(p)
         \/ Reply(p, e, db[p].epoch, <<Simple("error")>>)
         \/ Reply(p, n, ep, <<Simple("confirm")>>)
  BY <1>p, <1>o DEF ProcessAuth, ReplyError
<1>2. /\ inbuf[p] # <<>> /\ o \in Sessions /\ db[p].epoch \in Epochs \cup {NoEpoch}
      /\ Stream(p)[1].cmd \in {"auth", "anonymous"} /\ 1 \in DOMAIN Stream(p)
  BY <1>0, <1>1, <1>o, Handling
<1>3. /\ TypeOK /\ Authentication /\ db[p] \in Databases
  BY <1>0 DEF Inv, TypeOK
<1>4. /\ ~sess["client"].authenticated /\ o.held = {} /\ o.tree_is_done = {}
  BY <1>0, <1>1, <1>3, <1>p, <1>o DEF Authentication
<1>5. CASE Close(p)
  BY <1>0, <1>5, CloseStep, UneventfulStep
<1>6. CASE Reply(p, e, db[p].epoch, <<Simple("error")>>)
  <2>1. /\ e \in Sessions /\ e.live = o.live /\ e.crashed = o.crashed /\ e.held = o.held
        /\ e.tree_is_done = o.tree_is_done /\ e.requested = o.requested /\ e.received = o.received
        /\ e.analyzed = o.analyzed /\ e.error = TRUE
        /\ e.authenticated = o.authenticated /\ e.role = o.role /\ e.tree = o.tree
    BY <1>2 DEF Sessions
  <2> DEFINE out == <<Simple("error")>>
  <2>2. out \in Seq(Messages) /\ \A i \in DOMAIN out : out[i].cmd = "error"
    BY SimpleCommands
  <2> HIDE DEF e, out
  <2>3. Tidy /\ Account =>
          /\ ~e.crashed => e.tree["key"] \cup e.tree["cert"] \subseteq db[p].items
          /\ Ancestral(e.tree)
    BY <1>0, <1>o, <2>1 DEF Account, Planted
  <2>4. Reply(p, e, db[p].epoch, out) /\ \A i \in DOMAIN out : out[i].cmd \in {"error", "confirm"}
    BY <1>6, <2>2 DEF out
  <2>5. p # "client" /\ e.held = {} /\ e.tree_is_done = {} /\ ~e.authenticated /\ ~sess[p].authenticated
    BY <1>1, <1>4, <1>o, <1>p, <2>1
  <2> QED  BY <1>0, <1>2, <1>4, <1>o, <2>1, <2>2, <2>3, <2>4, <2>5, ReplyQuiet
<1>7. CASE Reply(p, n, ep, <<Simple("confirm")>>)
  <2>1. T \in [Types -> SUBSET Things] /\ Rebuilt(db[p]) \in Databases
    BY <1>3, BuiltTree
  <2>r. PICK role : role = OppositeRole
    OBVIOUS
  <2>2. role \in {"source", "sink", "both"}
    <3>1. conf.role["client"] \in {"source", "sink", "both"} /\ sess["server"].role \in {"source", "sink", "both"}
      <4>1. conf.role \in [Peers -> {"source", "sink", "both"}]
        BY <1>3, SituationsTyped DEF TypeOK
      <4> QED  BY <1>2, <1>o, <1>p, <4>1 DEF Sessions, Peers
    <3> QED  BY <2>r, <3>1 DEF OppositeRole
  <2>3. n = [o EXCEPT !.tree = T, !.authenticated = TRUE, !.role = role]
    BY <2>r
  <2> HIDE DEF T, n
  <2>4. /\ n \in Sessions /\ n.live = o.live /\ n.crashed = o.crashed /\ n.held = o.held
        /\ n.tree_is_done = o.tree_is_done /\ n.requested = o.requested /\ n.received = o.received
        /\ n.analyzed = o.analyzed /\ n.error = o.error /\ n.sent_goodbye = o.sent_goodbye
        /\ n.authenticated = TRUE /\ n.tree = T
    BY <1>2, <2>1, <2>2, <2>3 DEF Sessions
  <2> DEFINE out == <<Simple("confirm")>>
  <2>5. out \in Seq(Messages) /\ \A i \in DOMAIN out : out[i].cmd = "confirm"
    BY SimpleCommands
  <2>6. ep \in Epochs \cup {NoEpoch}
    BY <2>1 DEF Databases
  <2> HIDE DEF out
  <2>7. Tidy /\ Account =>
          /\ n.tree["key"] \cup n.tree["cert"] \subseteq db[p].items
          /\ Ancestral(n.tree) /\ Whole("client")
          /\ Certs \cap conf.items[p] \subseteq n.tree["cert"]
          /\ {KeyOf[c] : c \in Certs \cap conf.items[p]} \cap conf.items[p] \subseteq n.tree["key"]
    <3> SUFFICES ASSUME Tidy, Planted
                 PROVE  /\ T["key"] \cup T["cert"] \subseteq db[p].items
                        /\ Ancestral(T) /\ Whole("client")
                        /\ Certs \cap conf.items[p] \subseteq T["cert"]
                        /\ {KeyOf[c] : c \in Certs \cap conf.items[p]} \cap conf.items[p] \subseteq T["key"]
      BY <2>4 DEF Account
    <3>1. Whole("client")
      BY <1>2, <1>p DEF Planted
    <3>2. /\ db[p].items \subseteq db[p].items
          /\ db[p].items \subseteq db[p].items \cup {ServerKey}
          /\ ~sess[p].authenticated
      BY <1>1, <1>o
    <3> QED  BY <1>0, <1>3, <3>1, <3>2, TreePlanted DEF T
  <2>8. Reply(p, n, ep, out) /\ \A i \in DOMAIN out : out[i].cmd \in {"error", "confirm"}
    BY <1>7, <2>5 DEF out
  <2>9. p # "client" /\ n.held = {} /\ n.tree_is_done = {} /\ ~sess[p].authenticated
    BY <1>1, <1>4, <1>o, <1>p, <2>4
  <2> HIDE DEF ep
  <2> QED  BY <1>0, <1>2, <1>4, <1>o, <2>4, <2>5, <2>6, <2>7, <2>8, <2>9, ReplyQuiet
<1> QED  BY <1>1, <1>5, <1>6, <1>7

LEMMA HelloAccount ==
  ASSUME Inv, Inv', SourceKeeps, ProcessHello
  PROVE  SourceKeeps' /\ (Tidy /\ Account => Account')
<1>p. PICK p : p = "client"
  OBVIOUS
<1>q. PICK q : q = "server"
  OBVIOUS
<1>o. PICK o : o = sess[p]
  OBVIOUS
<1>D. PICK D : D = [db[p] EXCEPT !.items = @ \cup {ServerKey}]
  OBVIOUS
<1>m. PICK m : m = Simple(IF conf.anonymous THEN "anonymous" ELSE "auth")
  OBVIOUS
<1> DEFINE n == [o EXCEPT !.tree = Tree(D)]
<1>0. p \in Peers /\ q = Other(p) /\ q \in Peers /\ p # q /\ Peers = {p, q}
  BY <1>p, <1>q DEF Peers, Other
<1>1. /\ Processing(p, "hello") /\ ~o.authenticated
      /\ \/ Close(p)
         \/ /\ db' = [db EXCEPT ![p] = Rebuilt(D)]
            /\ sess' = [sess EXCEPT ![p].tree = Tree(D)]
            /\ net' = [net EXCEPT ![q] = Append(@, m)]
            /\ inbuf' = [inbuf EXCEPT ![p] = Tail(@)]
            /\ conf' = conf /\ disk' = disk /\ foreign' = foreign
  BY <1>0, <1>p, <1>q, <1>o, <1>D, <1>m DEF ProcessHello
<1>2. CASE Close(p)
  BY <1>0, <1>2, CloseStep, UneventfulStep
<1>3. ASSUME /\ db' = [db EXCEPT ![p] = Rebuilt(D)]
             /\ sess' = [sess EXCEPT ![p].tree = Tree(D)]
             /\ net' = [net EXCEPT ![q] = Append(@, m)]
             /\ inbuf' = [inbuf EXCEPT ![p] = Tail(@)]
             /\ conf' = conf /\ disk' = disk /\ foreign' = foreign
      PROVE  SourceKeeps' /\ (Tidy /\ Account => Account')
  <2>1. TypeOK /\ Authentication
    BY DEF Inv
  <2>2. /\ inbuf[p] # <<>> /\ o \in Sessions /\ sess \in [Peers -> Sessions]
        /\ db \in [Peers -> Databases] /\ db[p] \in Databases /\ net \in [Peers -> Seq(Messages)]
    BY <1>0, <1>1, <1>o, <2>1, Handling DEF TypeOK
  <2>3. D \in Databases /\ D.items = db[p].items \cup {ServerKey}
    BY <1>D, <2>2, SessionConstants DEF Databases, Items
  <2>4. Rebuilt(D).items = D.items
    BY <2>3, BuiltTree
  <2>5. /\ n.tree = Tree(D) /\ n.live = o.live /\ n.crashed = o.crashed /\ n.role = o.role
        /\ n.authenticated = o.authenticated /\ n.received = o.received /\ n.error = o.error
        /\ n.requested = o.requested /\ n.analyzed = o.analyzed /\ n.sent_goodbye = o.sent_goodbye
    BY <2>2 DEF Sessions
  <2>6. sess' = [sess EXCEPT ![p] = n]
    BY <1>3, <1>o
  <2> HIDE DEF n
  <2>7. /\ sess'[p] = n /\ sess'[q] = sess[q] /\ db'[p].items = db[p].items \cup {ServerKey}
        /\ db'[q] = db[q]
    BY <1>0, <1>3, <2>2, <2>3, <2>4, <2>6
  <2>8. SourceKeeps'
    <3> SUFFICES ASSUME NEW r \in Peers, ~sess'[r].authenticated \/ sess'[r].role = "source"
                 PROVE  db'[r].items \subseteq conf'.items[r] \cup foreign' \cup {ServerKey}
      BY <1>3 DEF SourceKeeps
    <3>1. CASE r = p
      BY <1>1, <1>3, <1>o, <2>7, <3>1 DEF SourceKeeps
    <3>2. CASE r = q
      BY <1>3, <2>7, <3>2 DEF SourceKeeps
    <3> QED  BY <1>0, <3>1, <3>2
  <2>9. ASSUME Tidy, Account PROVE Account'
    <3>1. Planted /\ Books
      BY <2>9 DEF Account
    <3>2. /\ Ancestral(Tree(D)) /\ Tree(D)["key"] \cup Tree(D)["cert"] \subseteq D.items
          /\ Certs \cap conf.items[p] \subseteq Tree(D)["cert"]
          /\ {KeyOf[c] : c \in Certs \cap conf.items[p]} \cap conf.items[p] \subseteq Tree(D)["key"]
      BY <1>0, <1>1, <1>o, <2>3, <2>9, <3>1, TreePlanted
    <3>3. Whole(p)'
      BY <1>3, <2>5, <2>7, <3>2 DEF Whole
    <3>4. ~sess'["server"].authenticated \/ Whole(q)'
      BY <1>0, <1>3, <1>q, <2>7, <3>1 DEF Planted, Whole
    <3>5. ASSUME NEW r \in Peers
          PROVE  /\ ~sess'[r].crashed => sess'[r].tree["key"] \cup sess'[r].tree["cert"] \subseteq db'[r].items
                 /\ Ancestral(sess'[r].tree)
                 /\ conf'.items[r] \subseteq disk'[r].items
                 /\ sess'[r].crashed => ~sess'[r].live
                 /\ sess'[r].requested = {} /\ sess'[r].received = {} /\ ~sess'[r].analyzed
      <4>1. CASE r = p
        BY <1>1, <1>3, <1>o, <1>p, <2>3, <2>5, <2>7, <3>1, <3>2, <4>1 DEF Planted
      <4>2. CASE r = q
        BY <1>1, <1>3, <1>o, <1>p, <2>7, <3>1, <4>2 DEF Planted
      <4> QED  BY <1>0, <4>1, <4>2
    <3>6. Planted'
      BY <1>0, <1>p, <3>3, <3>4, <3>5 DEF Planted
    <3>7. ~sess["client"].authenticated /\ ~sess'["client"].authenticated
      BY <1>1, <1>o, <1>p, <2>5, <2>7
    <3>8. \A r \in Peers : Sound(r)' /\ sess'[r].sent_goodbye => Sound(r) /\ sess[r].sent_goodbye
      BY <1>0, <1>o, <2>5, <2>7 DEF Sound
    <3>9. Books' /\ Wares' /\ Arriving'
      BY <3>1, <3>6, <3>7, <3>8, QuietBooks
    <3> QED  BY <3>6, <3>9 DEF Account
  <2> QED  BY <2>8, <2>9
<1> QED  BY <1>1, <1>2, <1>3

LEMMA ConfirmAccount ==
  ASSUME Inv, Inv', SourceKeeps, ProcessConfirm
  PROVE  SourceKeeps' /\ (Tidy /\ Account => Account')
<1>p. PICK p : p = "client"
  OBVIOUS
<1>q. PICK q : q = "server"
  OBVIOUS
<1>o. PICK o : o = sess[p]
  OBVIOUS
<1> DEFINE s == [o EXCEPT !.authenticated = TRUE]
<1>0. p \in Peers /\ q = Other(p) /\ q \in Peers /\ p # q /\ Peers = {p, q}
  BY <1>p, <1>q DEF Peers, Other
<1>1. Processing(p, "confirm") /\ ~o.authenticated
  BY <1>p, <1>o DEF ProcessConfirm
<1>2. /\ inbuf[p] # <<>> /\ o \in Sessions /\ db[p].epoch \in Epochs \cup {NoEpoch}
      /\ Stream(p)[1].cmd = "confirm" /\ 1 \in DOMAIN Stream(p)
  BY <1>0, <1>1, <1>o, Handling
<1>3. PICK out \in Seq(Messages) : Reply(p, s, db[p].epoch, out)
  BY <1>p, <1>o, ConfirmStep
<1>4. PICK sent : Confirmed(p, sent)
  BY <1>p, ConfirmStep
<1>5. /\ s \in Sessions /\ s.live = o.live /\ s.crashed = o.crashed /\ s.held = o.held
      /\ s.tree_is_done = o.tree_is_done /\ s.requested = o.requested /\ s.received = o.received
      /\ s.certs = o.certs /\ s.ancestry = o.ancestry /\ s.valve = o.valve
      /\ s.analyzed = o.analyzed /\ s.error = o.error /\ s.sent_goodbye = o.sent_goodbye
      /\ s.role = o.role /\ s.tree = o.tree
  BY <1>2 DEF Sessions
<1> HIDE DEF s
<1>6. /\ TypeOK /\ Committed
      /\ \A r \in Peers :
           /\ sess[r].tree_is_done = {} /\ sess[r].held = {} /\ sess[r].certs = {}
           /\ sess[r].ancestry = {} /\ ~sess[r].valve
      /\ sess["server"].authenticated
  BY <1>0, <1>1, <1>2, <1>p, <1>o DEF Inv, Authentication
<1>7. Left(p, s, db[p].epoch)
  BY <1>0, <1>2, <1>3, <1>5, <1>6, ReplyLeft
<1>8. /\ sess'[p].sent_goodbye <=> s.sent_goodbye \/ Satisfied(s)
      /\ disk'[q] = disk[q] /\ disk'[p] \in {disk[p], db'[p]}
  BY <1>0, <1>2, <1>3, <1>5, <1>6, ReplyExact
<1>9. /\ conf' = conf /\ sess'[q] = sess[q] /\ db'[q] = db[q] /\ db'[p].items = db[p].items
      /\ sess'[p].live = s.live /\ sess'[p].crashed = s.crashed /\ sess'[p].tree = s.tree
      /\ sess'[p].tree_is_done = s.tree_is_done /\ sess'[p].held \subseteq s.held
      /\ sess'[p].certs = s.certs /\ sess'[p].ancestry = s.ancestry
      /\ sess'[p].requested = s.requested /\ sess'[p].received = s.received
      /\ sess'[p].analyzed = s.analyzed /\ sess'[p].error = s.error
  BY <1>0, <1>5, <1>6, <1>7, <1>o DEF Left
<1>10. ~Satisfied(s)
  BY <1>0, <1>5, <1>6, <1>o DEF Satisfied, Types
<1>11. SourceKeeps'
  <2>1. s.held = {} /\ ~sess[p].authenticated
    BY <1>0, <1>1, <1>5, <1>6, <1>o
  <2> QED  BY <1>0, <1>2, <1>3, <1>5, <2>1, ReplySource
<1> SUFFICES ASSUME Tidy, Account PROVE Account'
  BY <1>11
<1>12. Planted /\ Books
  BY DEF Account
<1>13. \A r \in Peers : sess[r].requested = {} /\ sess[r].received = {} /\ ~sess[r].analyzed
  BY <1>1, <1>12, <1>o, <1>p DEF Planted
<1>14. ASSUME NEW r \in Peers
       PROVE  /\ sess'[r].tree = sess[r].tree /\ sess'[r].error = sess[r].error
              /\ sess'[r].live = sess[r].live /\ sess'[r].crashed = sess[r].crashed
              /\ sess'[r].tree_is_done = {} /\ sess'[r].held = {}
              /\ sess'[r].certs = {} /\ sess'[r].ancestry = {} /\ sess'[r].requested = {}
              /\ sess'[r].received = {} /\ ~sess'[r].analyzed
              /\ (sess'[r].sent_goodbye => sess[r].sent_goodbye)
              /\ db'[r].items = db[r].items /\ disk[r].items \subseteq disk'[r].items
  <2>1. CASE r = p
    BY <1>5, <1>6, <1>8, <1>9, <1>10, <1>13, <1>o, <2>1 DEF Committed
  <2>2. CASE r = q
    BY <1>6, <1>8, <1>9, <1>13, <2>2
  <2> QED  BY <1>0, <2>1, <2>2
<1>15. Planted'
  <2>1. \A r \in Peers : Whole(r)'
    BY <1>6, <1>9, <1>12, <1>14 DEF Planted, Whole
  <2>2. \A r \in Peers :
          /\ ~sess'[r].crashed => sess'[r].tree["key"] \cup sess'[r].tree["cert"] \subseteq db'[r].items
          /\ Ancestral(sess'[r].tree)
          /\ conf'.items[r] \subseteq disk'[r].items
          /\ sess'[r].crashed => ~sess'[r].live
          /\ sess'[r].requested = {} /\ sess'[r].received = {} /\ ~sess'[r].analyzed
    BY <1>9, <1>12, <1>14 DEF Planted
  <2> QED  BY <1>0, <1>p, <2>1, <2>2 DEF Planted
<1>16. Books'
  BY <1>6, <1>12, <1>14, EmptyBooks DEF Sound
<1>17. /\ Flow(p, 1, sent)
       /\ \A i \in DOMAIN sent :
            (i \in 1..6 /\ sent[i] = Opening(o.tree)[i]) \/ sent[i].cmd = "bye"
       /\ \A i \in 1..6 : i \in DOMAIN sent /\ sent[i] = Opening(o.tree)[i]
  BY <1>4, <1>o DEF Confirmed
<1>18. /\ \A i \in 1..6 : Opening(o.tree)[i].cmd \in {"refine", "done"}
       /\ \A t \in {"key", "cert"} : \E i \in 1..6 :
            Opening(o.tree)[i].cmd = "refine" /\ Opening(o.tree)[i].type = t
  <2>1. /\ Opening(o.tree)[1] = Refine("epoch", o.tree) /\ Opening(o.tree)[2] = Done("epoch")
        /\ Opening(o.tree)[3] = Refine("key", o.tree) /\ Opening(o.tree)[4] = Done("key")
        /\ Opening(o.tree)[5] = Refine("cert", o.tree) /\ Opening(o.tree)[6] = Done("cert")
    BY DEF Opening
  <2>2. \A t : Refine(t, o.tree).cmd = "refine" /\ Refine(t, o.tree).type = t /\ Done(t).cmd = "done"
    BY DEF Refine, Done
  <2>3. \A i \in 1..6 : i = 1 \/ i = 2 \/ i = 3 \/ i = 4 \/ i = 5 \/ i = 6
    OBVIOUS
  <2>4. 3 \in 1..6 /\ 5 \in 1..6
    OBVIOUS
  <2> QED  BY <2>1, <2>2, <2>3, <2>4
<1>19. \A r \in Peers : \A i \in DOMAIN Stream(r) : ~Exchanged(Stream(r)[i])
  BY <1>1, <1>o, <1>p DEF Inv, Authentication
<1>20. /\ \A i \in DOMAIN Stream(p)' : ~Exchanged(Stream(p)'[i])
       /\ \A i \in DOMAIN Stream(q)' : Stream(q)'[i].cmd \notin {"data", "send_data"}
  <2>1. \A i \in DOMAIN Stream(p)' : i + 1 \in DOMAIN Stream(p) /\ Stream(p)'[i] = Stream(p)[i + 1]
    BY <1>17 DEF Flow
  <2>2. \A i \in DOMAIN Stream(q)' :
          \/ i \in DOMAIN Stream(q) /\ Stream(q)'[i] = Stream(q)[i]
          \/ \E j \in DOMAIN sent : Stream(q)'[i] = sent[j]
    BY <1>0, <1>17 DEF Flow
  <2>3. \A j \in DOMAIN sent : sent[j].cmd \in {"refine", "done", "bye"}
    BY <1>17, <1>18
  <2>4. \A i \in DOMAIN Stream(q) : Stream(q)[i].cmd \notin {"data", "send_data"}
    BY <1>0, <1>19 DEF Exchanged
  <2> QED  BY <1>0, <1>19, <2>1, <2>2, <2>3, <2>4
<1>21. Wares'
  <2> SUFFICES ASSUME NEW r \in Peers, NEW i \in DOMAIN Stream(r)', NEW m, m = Stream(r)'[i]
               PROVE  Ware(r, m)'
    BY Zenon DEF Wares
  <2>1. m.cmd # "data" /\ m.cmd # "send_data"
    BY <1>0, <1>20 DEF Exchanged
  <2> QED  BY <2>1 DEF Ware
<1>22. ASSUME NEW t \in {"key", "cert"} PROVE ~Seen(t)'
  <2>1. PICK i \in 1..6 : Opening(o.tree)[i].cmd = "refine" /\ Opening(o.tree)[i].type = t
    BY <1>18
  <2>2. i \in DOMAIN sent /\ sent[i] = Opening(o.tree)[i]
    BY <1>17
  <2>3. \E j \in DOMAIN Stream(q)' : Stream(q)'[j] = sent[i]
    BY <1>0, <1>17, <2>2 DEF Flow
  <2>4. \E j : IsRefine(q, j, t)'
    BY <2>1, <2>2, <2>3 DEF IsRefine
  <2> QED  BY <1>q, <2>4 DEF Seen, IsRefine
<1>23. \A t : GivenFirst(t)'
  <2>1. \A t : t \notin sess'["client"].tree_is_done
    BY <1>0, <1>14, <1>p
  <2>2. \A t, i : ~IsDone(p, i, t)'
    BY <1>20 DEF IsDone, Exchanged
  <2> QED  BY <1>p, <2>1, <2>2 DEF GivenFirst
<1>24. Arriving'
  BY <1>22, <1>23 DEF Arriving
<1> QED  BY <1>15, <1>16, <1>21, <1>24 DEF Account

LEMMA SettingStays ==
  ASSUME [Next]_vars
  PROVE  conf' = conf
<1>1. \A p, s, epoch, out : Reply(p, s, epoch, out) => conf' = conf
  BY DEF Reply
<1>2. \A p : Close(p) => conf' = conf
  BY DEF Close
<1>3. \A p : ReplyError(p) => conf' = conf
  BY <1>1 DEF ReplyError
<1>4. ASSUME NEW p \in Peers, Process(p) PROVE conf' = conf
  <2>1. ProcessHello => conf' = conf
    BY <1>2 DEF ProcessHello
  <2>2. ProcessConfirm => conf' = conf
    BY <1>1 DEF ProcessConfirm
  <2>3. ProcessAuth => conf' = conf
    BY <1>1, <1>2, <1>3 DEF ProcessAuth
  <2>4. ProcessRefine(p) \/ ProcessDone(p) \/ ProcessSendData(p) => conf' = conf
    BY <1>1 DEF ProcessRefine, ProcessDone, ProcessSendData
  <2>5. ProcessEpoch(p) \/ ProcessKeyOrContent(p) \/ ProcessCert(p) => conf' = conf
    BY <1>1 DEF ProcessEpoch, ProcessKeyOrContent, ProcessCert
  <2>6. ProcessRevision(p) \/ ProcessBye(p) \/ ProcessError(p) => conf' = conf
    BY <1>1, <1>2 DEF ProcessRevision, ProcessBye, ProcessError
  <2> QED  BY <1>4, <2>1, <2>2, <2>3, <2>4, <2>5, <2>6 DEF Process
<1>5. \A p : Read(p) \/ Hangup(p) \/ EndOfFile(p) \/ ConnectionLost(p) \/ Crash(p) => conf' = conf
  BY <1>2 DEF Read, Hangup, EndOfFile, ConnectionLost, Crash
<1>6. \A x : OtherSessionWrites(x) => conf' = conf
  BY DEF OtherSessionWrites
<1>7. UNCHANGED vars => conf' = conf
  BY DEF vars
<1> QED  BY <1>4, <1>5, <1>6, <1>7 DEF Next, Step

LEMMA AccountNext ==
  ASSUME Inv, SourceKeeps, [Next]_vars
  PROVE  SourceKeeps' /\ (Tidy /\ Account => Account')
<1>0. Inv'
  BY InvNext
<1>1. CASE UNCHANGED vars
  BY <1>0, <1>1, StutterUneventful, UneventfulStep
<1>2. ASSUME NEW p \in Peers, Process(p) PROVE SourceKeeps' /\ (Tidy /\ Account => Account')
  <2>1. CASE p = "client" /\ (ProcessHello \/ ProcessConfirm)
    BY <1>0, <2>1, HelloAccount, ConfirmAccount
  <2>2. CASE p = "server" /\ ProcessAuth
    BY <1>0, <2>2, AuthAccount
  <2>3. CASE ProcessRefine(p) \/ ProcessDone(p) \/ ProcessSendData(p)
    <3>1. Served(p)
      BY <2>3, RefineServed, DoneServed, SendDataServed
    <3>2. PICK cmd \in {"refine", "done", "send_data"} : Processing(p, cmd)
      BY <2>3 DEF ProcessRefine, ProcessDone, ProcessSendData
    <3>3. inbuf[p] # <<>> /\ sess[p].live /\ sess["client"].authenticated
      BY <3>2, Handling
    <3> QED  BY <1>0, <3>1, <3>3, ServedStep
  <2>4. CASE ProcessEpoch(p) \/ ProcessKeyOrContent(p) \/ ProcessCert(p) \/ ProcessRevision(p)
    <3>1. Served(p)
      BY <2>4, EpochServed, KeyOrContentServed, CertServed, RevisionServed
    <3>2. Processing(p, "data")
      BY <2>4 DEF ProcessEpoch, ProcessKeyOrContent, ProcessCert, ProcessRevision, ProcessData
    <3>3. inbuf[p] # <<>> /\ sess[p].live /\ sess["client"].authenticated
      BY <3>2, Handling
    <3> QED  BY <1>0, <3>1, <3>3, ServedStep
  <2>5. CASE ProcessBye(p)
    <3>1. CASE ~sess["client"].authenticated
      BY <1>0, <2>5, <3>1, ByeAccount
    <3>2. CASE sess["client"].authenticated
      <4>1. Served(p)
        BY <2>5, ByeServed
      <4>2. inbuf[p] # <<>> /\ sess[p].live
        BY <2>5, Handling DEF ProcessBye
      <4> QED  BY <1>0, <3>2, <4>1, <4>2, ServedStep
    <3> QED  BY <3>1, <3>2
  <2>6. CASE ProcessError(p)
    BY <1>0, <2>6, CloseStep, UneventfulStep DEF ProcessError
  <2> QED  BY <1>2, <2>1, <2>2, <2>3, <2>4, <2>5, <2>6 DEF Process
<1>3. ASSUME NEW p \in Peers, Hangup(p) \/ EndOfFile(p) \/ ConnectionLost(p) \/ Read(p) \/ Crash(p)
      PROVE  SourceKeeps' /\ (Tidy /\ Account => Account')
  <2>1. Uneventful(p)
    BY <1>3, CloseStep, ReadStep, CrashStep DEF Hangup, EndOfFile, ConnectionLost
  <2> QED  BY <1>0, <2>1, UneventfulStep
<1>4. ASSUME NEW x \in Items, OtherSessionWrites(x)
      PROVE  SourceKeeps' /\ (Tidy /\ Account => Account')
  BY <1>0, <1>4, WritesStep, UneventfulStep
<1> QED  BY <1>1, <1>2, <1>3, <1>4 DEF Next, Step

LEMMA AccountInit ==
  ASSUME Init
  PROVE  SourceKeeps /\ Account
<1>1. /\ db = [p \in Peers |-> [items |-> conf.items[p], epoch |-> conf.epoch[p]]]
      /\ disk = db /\ foreign = {}
      /\ sess = [p \in Peers |-> NewSession(conf.role[p])]
      /\ net = [client |-> <<Simple("hello")>>, server |-> <<>>]
      /\ inbuf = [p \in Peers |-> <<>>]
  BY DEF Init
<1>2. ASSUME NEW p \in Peers
      PROVE  LET s == sess[p]
             IN  /\ ~s.authenticated /\ ~s.sent_goodbye /\ ~s.crashed /\ ~s.analyzed
                 /\ s.tree_is_done = {} /\ s.requested = {} /\ s.received = {}
                 /\ s.held = {} /\ s.certs = {} /\ s.ancestry = {}
                 /\ \A t \in Types : s.tree[t] = {}
  BY <1>1 DEF NewSession
<1>3. ASSUME NEW p \in Peers, NEW i \in DOMAIN Stream(p)
      PROVE  Stream(p)[i].cmd = "hello"
  <2>1. <<>> \o <<>> = <<>> /\ <<>> \o <<Simple("hello")>> = <<Simple("hello")>>
    <3>1. <<Simple("hello")>> \in Seq(Messages)
      BY SimpleCommands
    <3> QED  BY <3>1, ConcatEmptySeq
  <2>2. Stream(p) \in {<<>>, <<Simple("hello")>>}
    BY <1>1, <2>1 DEF Stream, Peers
  <2>3. \A j \in DOMAIN <<Simple("hello")>> : <<Simple("hello")>>[j] = Simple("hello")
    OBVIOUS
  <2>4. Simple("hello").cmd = "hello"
    BY SimpleCommands
  <2> QED  BY <2>2, <2>3, <2>4
<1>4. "client" \in Peers /\ "server" \in Peers /\ {"epoch", "key", "cert"} \subseteq Types
  BY DEF Peers, Types
<1>5. SourceKeeps
  BY <1>1 DEF SourceKeeps
<1>6. Planted
  <2>1. \A p \in Peers : conf.items[p] \subseteq disk[p].items
    BY <1>1
  <2>2. \A p \in Peers : Ancestral(sess[p].tree)
    BY <1>2, <1>4 DEF Ancestral
  <2> QED  BY <1>2, <1>3, <1>4, <2>1, <2>2 DEF Planted
<1>7. Books
  <2> SUFFICES ASSUME NEW p \in Peers, NEW n, n = sess[p], NEW D, NEW T
               PROVE  Booked(n, D, T)
    BY <1>2 DEF Books
  <2>1. Entered(n, D, T)
    BY <1>2 DEF Entered
  <2> QED  BY <1>2, <2>1 DEF Booked, AnalysisMade, ValveOpened
<1>8. Wares
  BY <1>3 DEF Wares, Ware
<1>9. Arriving
  <2>1. \A t : ~Seen(t)
    BY <1>2, <1>4 DEF Seen
  <2>2. \A t : \A i \in DOMAIN Stream("client") : ~IsDone("client", i, t)
    BY <1>3, <1>4 DEF IsDone
  <2> QED  BY <1>2, <1>4, <2>1, <2>2 DEF Arriving, GivenFirst
<1> QED  BY <1>5, <1>6, <1>7, <1>8, <1>9 DEF Account

(* A side that is not authenticated or only a source keeps its database as *)
(* it was, but for what other sessions write and the server's key.         *)
THEOREM SourcesOnlyGive == Spec => []SourceKeeps
<1>1. Init => SourceKeeps
  BY AccountInit
<1>2. Inv /\ SourceKeeps /\ [Next]_vars => SourceKeeps'
  BY AccountNext
<1> QED  BY <1>1, <1>2, Invariant, PTL DEF Spec

LEMMA AccountsKept == Spec => [](Tidy => Account)
<1> DEFINE Kept == Tidy => Account
<1>1. Init => Kept
  BY AccountInit
<1>2. Inv /\ SourceKeeps /\ Kept /\ [Next]_vars => Kept'
  <2> SUFFICES ASSUME Inv, SourceKeeps, Kept, [Next]_vars, Tidy' PROVE Account'
    OBVIOUS
  <2>1. Tidy
    BY SettingStays DEF Tidy
  <2> QED  BY <2>1, AccountNext
<1> QED  BY <1>1, <1>2, Invariant, SourcesOnlyGive, PTL DEF Spec

(* A goodbye that is not part of an error is never said too early.         *)
THEOREM GoodbyeIsHonest == Spec => [](Tidy => GoodbyeMeansDone)
<1>1. Account => GoodbyeMeansDone
  <2> SUFFICES ASSUME Account, NEW p \in Peers,
                      sess[p].sent_goodbye /\ ~sess[p].error /\ ~sess[p].crashed
               PROVE  /\ sess[p].requested = {} /\ sess[p].held = {}
                      /\ sess[p].certs \cup sess[p].ancestry \subseteq db[p].items
    BY DEF GoodbyeMeansDone
  <2>1. Balanced(sess[p], db[p].items, db[p].epoch, sess[Other(p)].tree)
    BY DEF Account, Books, Sound
  <2> QED  BY <2>1 DEF Balanced, Satisfied
<1> QED  BY <1>1, AccountsKept, PTL

(* The post-state of a netsync: a sink that ended with goodbyes has all    *)
(* that its source started with, and the epoch.                            *)
THEOREM PostStateHolds == Spec => [](Coherent => PostState)
<1>1. Inv /\ SourceKeeps /\ Account /\ Coherent => PostState
  <2> SUFFICES ASSUME Inv, SourceKeeps, Account, Coherent PROVE PostState
    OBVIOUS
  <2>1. ASSUME NEW p \in Peers, sess[p].authenticated /\ sess[p].role = "source"
        PROVE  db[p].items \subseteq conf.items[p] \cup foreign \cup {ServerKey}
    BY <2>1 DEF SourceKeeps
  <2>2. ASSUME NEW p \in Peers, ~sess[p].live, ~sess[p].crashed, Over(p), IsSink(p)
        PROVE  /\ conf.items[Other(p)] \subseteq db[p].items
               /\ sess[Other(p)].tree["epoch"] \subseteq {db[p].epoch}
    <3>o. PICK o \in Peers : o = Other(p)
      BY TwoPeers
    <3>1. Balanced(sess[p], db[p].items, db[p].epoch, sess[o].tree)
      BY <2>2, <3>o DEF Account, Books, Sound, Over
    <3>2. /\ sess[o].tree["key"] \cup sess[o].tree["cert"] \subseteq db[p].items
          /\ sess[o].tree["epoch"] \subseteq {db[p].epoch}
      BY <2>2, <3>1 DEF Balanced, IsSink
    <3>3. sess["server"].authenticated
      <4>1. sess[p].tree_is_done # {}
        BY <3>1 DEF Balanced, Satisfied, Types
      <4> QED  BY <4>1 DEF Inv, Authentication
    <3>4. Whole(o)
      BY <3>3 DEF Account, Planted
    <3>5. Certs \cap conf.items[o] \subseteq db[p].items
      BY <3>2, <3>4 DEF Whole
    <3>6. Keys \cap conf.items[o] \subseteq db[p].items
      BY <3>2, <3>4 DEF Whole, Coherent
    <3>7. Closure(db[p].items)
      BY DEF Inv, DatabaseClosed
    <3>8. Revisions \cap conf.items[o] \subseteq db[p].items
      <4> SUFFICES ASSUME NEW r \in Revisions \cap conf.items[o] PROVE r \in db[p].items
        OBVIOUS
      <4>1. PICK c \in Certs \cap conf.items[o] : CertOn[c] = r
        BY DEF Coherent, Tidy
      <4>2. Needs(c) = {r}
        BY <4>1, SessionConstants DEF Needs
      <4> QED  BY <3>5, <3>7, <4>1, <4>2 DEF Closure
    <3>9. Contents \cap conf.items[o] \subseteq db[p].items
      <4> SUFFICES ASSUME NEW x \in Contents \cap conf.items[o] PROVE x \in db[p].items
        OBVIOUS
      <4>1. PICK r \in Revisions \cap conf.items[o] : x \in Names[r]
        BY DEF Coherent
      <4>2. r \in db[p].items /\ Needs(r) = Names[r]
        BY <3>8, <4>1 DEF Needs
      <4> QED  BY <3>7, <4>1, <4>2 DEF Closure
    <3>10. conf.items[o] \subseteq Keys \cup Certs \cup Revisions \cup Contents
      BY SituationsTyped DEF Inv, TypeOK, Items
    <3> QED  BY <3>2, <3>5, <3>6, <3>8, <3>9, <3>10, <3>o
  <2> QED  BY <2>1, <2>2 DEF PostState
<1>2. Coherent => Tidy
  BY DEF Coherent
<1> QED  BY <1>1, <1>2, Invariant, SourcesOnlyGive, AccountsKept, PTL
=============================================================================
