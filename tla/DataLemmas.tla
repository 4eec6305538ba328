----------------------------- MODULE DataLemmas -----------------------------
(***************************************************************************)
(* Facts about numbers, sequences and functions defined by recursion that  *)
(* the proofs about several components use.                                *)
(***************************************************************************)
EXTENDS Integers, Sequences, FiniteSets, SequencesExt, SequenceTheorems, FiniteSetTheorems,
        WellFoundedInduction, TLAPS

(* The elements of a sequence.                                             *)
Elems(s) == {s[i] : i \in DOMAIN s}

-----------------------------------------------------------------------------
(* Induction, stated of sets of numbers.                                   *)

(* Every set of natural numbers has a least element.                       *)
LEMMA LeastNat ==
  ASSUME NEW T \in SUBSET Nat, T # {}
  PROVE  \E x \in T : \A y \in T : x <= y
<1> DEFINE R == {ss \in Nat \X Nat : ss[1] < ss[2]}
<1>1. IsWellFoundedOn(R, Nat)
  BY NatLessThanWellFounded, Zenon DEF OpToRel
<1>2. PICK x \in T : \A y \in T : ~(<<y, x>> \in R)
  <2> HIDE DEF R
  <2> QED  BY <1>1, WFMin
<1>3. ASSUME NEW y \in T PROVE x <= y
  <2>1. x \in Nat /\ y \in Nat
    OBVIOUS
  <2>2. ASSUME y < x PROVE <<y, x>> \in R
    <3>1. <<y, x>> \in Nat \X Nat /\ <<y, x>>[1] = y /\ <<y, x>>[2] = x
      BY <2>1
    <3>2. <<y, x>>[1] < <<y, x>>[2]
      BY <2>2, <3>1
    <3> QED  BY <3>1, <3>2, Zenon
  <2> QED  BY <2>1, <2>2, <1>2
<1> QED  BY <1>3

(* A set that holds 0, and the successor of each of its members, holds     *)
(* every natural number.                                                   *)
LEMMA SetInduction ==
  ASSUME NEW T, 0 \in T, \A n \in Nat : n \in T => n + 1 \in T
  PROVE  Nat \subseteq T
<1> DEFINE U == Nat \ T
<1> SUFFICES ASSUME U # {} PROVE FALSE
  OBVIOUS
<1>1. U \in SUBSET Nat
  OBVIOUS
<1>2. PICK x \in U : \A y \in U : x <= y
  <2> HIDE DEF U
  <2> QED  BY <1>1, LeastNat
<1>3. x - 1 \in Nat /\ x - 1 \in T
  BY <1>2
<1> QED  BY <1>2, <1>3

(* The same up to a bound.                                                 *)
LEMMA IntervalInduction ==
  ASSUME NEW N \in Nat, NEW T, 0 \in T, \A n \in 1..N : n - 1 \in T => n \in T
  PROVE  0..N \subseteq T
<1> DEFINE R == {n \in Nat : n <= N => n \in T}
<1>1. 0 \in R
  OBVIOUS
<1>2. ASSUME NEW n \in Nat, n \in R PROVE n + 1 \in R
  <2>1. CASE n + 1 <= N
    <3>1. n \in T /\ n + 1 \in 1..N /\ (n + 1) - 1 = n
      BY <1>2, <2>1
    <3> QED  BY <3>1
  <2>2. CASE ~(n + 1 <= N)
    BY <2>2
  <2> QED  BY <2>1, <2>2
<1>3. Nat \subseteq R
  <2> HIDE DEF R
  <2> QED  BY <1>1, <1>2, SetInduction
<1> QED  BY <1>3

-----------------------------------------------------------------------------
(* Sequences and their elements.                                           *)

LEMMA ElemsConcat ==
  ASSUME NEW S, NEW s \in Seq(S), NEW t \in Seq(S)
  PROVE  s \o t \in Seq(S) /\ Elems(s \o t) = Elems(s) \cup Elems(t)
<1>1. /\ s \o t \in Seq(S) /\ Len(s \o t) = Len(s) + Len(t)
      /\ \A i \in 1 .. Len(s) + Len(t) :
           (s \o t)[i] = IF i <= Len(s) THEN s[i] ELSE t[i - Len(s)]
  BY ConcatProperties
<1>2. Len(s) \in Nat /\ Len(t) \in Nat /\ DOMAIN s = 1..Len(s) /\ DOMAIN t = 1..Len(t)
      /\ DOMAIN (s \o t) = 1..Len(s \o t)
  BY <1>1, LenProperties
<1>3. Elems(s \o t) \subseteq Elems(s) \cup Elems(t)
  BY <1>1, <1>2 DEF Elems
<1>4. ASSUME NEW i \in DOMAIN s PROVE s[i] \in Elems(s \o t)
  BY <1>1, <1>2 DEF Elems
<1>5. ASSUME NEW i \in DOMAIN t PROVE t[i] \in Elems(s \o t)
  <2>1. i + Len(s) \in DOMAIN (s \o t) /\ (s \o t)[i + Len(s)] = t[i]
    BY <1>1, <1>2
  <2> QED  BY <2>1 DEF Elems
<1> QED  BY <1>1, <1>3, <1>4, <1>5 DEF Elems

LEMMA ElemsAppend ==
  ASSUME NEW S, NEW s \in Seq(S), NEW x \in S
  PROVE  /\ Append(s, x) \in Seq(S) /\ Append(s, x) # <<>>
         /\ Elems(Append(s, x)) = Elems(s) \cup {x}
         /\ s # <<>> => Head(Append(s, x)) = Head(s)
<1> DEFINE t == Append(s, x)
           n == Len(s)
<1>1. /\ t \in Seq(S) /\ n \in Nat /\ Len(t) = n + 1 /\ DOMAIN s = 1..n /\ DOMAIN t = 1..(n + 1)
      /\ \A i \in 1..n : t[i] = s[i]
      /\ t[n + 1] = x
  BY AppendProperties, LenProperties
<1>2. s # <<>> => n # 0
  BY EmptySeq
<1> HIDE DEF n, t
<1>3. t # <<>>
  BY <1>1, EmptySeq
<1>4. \A i \in 1..(n + 1) : i \in 1..n \/ i = n + 1
  BY <1>1
<1>5. Elems(t) \subseteq Elems(s) \cup {x}
  BY <1>1, <1>4 DEF Elems
<1>6. Elems(s) \subseteq Elems(t)
  <2>1. \A i \in 1..n : i \in DOMAIN t /\ t[i] = s[i]
    BY <1>1
  <2> QED  BY <1>1, <2>1 DEF Elems
<1>7. x \in Elems(t)
  <2>1. n + 1 \in DOMAIN t /\ t[n + 1] = x
    BY <1>1
  <2> QED  BY <2>1 DEF Elems
<1>8. s # <<>> => Head(t) = Head(s)
  <2>1. s # <<>> => 1 \in 1..n
    BY <1>1, <1>2
  <2>2. Head(t) = t[1] /\ Head(s) = s[1]
    OBVIOUS
  <2> QED  BY <1>1, <2>1, <2>2
<1> QED  BY <1>1, <1>3, <1>5, <1>6, <1>7, <1>8 DEF t

LEMMA ElemsTail ==
  ASSUME NEW S, NEW s \in Seq(S), s # <<>>
  PROVE  /\ Tail(s) \in Seq(S) /\ Head(s) \in S /\ 1 \in DOMAIN s /\ s[1] = Head(s)
         /\ \A i \in DOMAIN s : i = 1 \/ i - 1 \in DOMAIN Tail(s)
         /\ \A i \in DOMAIN Tail(s) :
              i \in Nat \ {0} /\ i + 1 \in DOMAIN s /\ Tail(s)[i] = s[i+1]
         /\ Elems(s) \subseteq {Head(s)} \cup Elems(Tail(s))
         /\ Elems(Tail(s)) \subseteq Elems(s) /\ Head(s) \in Elems(s)
<1>1. /\ Tail(s) \in Seq(S) /\ Head(s) \in S /\ Len(Tail(s)) = Len(s) - 1
      /\ \A i \in 1 .. Len(Tail(s)) : Tail(s)[i] = s[i+1]
  BY HeadTailProperties
<1>2. Len(s) \in Nat \ {0} /\ DOMAIN s = 1..Len(s) /\ DOMAIN Tail(s) = 1..Len(Tail(s))
  BY <1>1, EmptySeq, LenProperties
<1>3. Head(s) = s[1]
  OBVIOUS
<1>4. \A i \in DOMAIN s : i = 1 \/ i - 1 \in DOMAIN Tail(s)
  BY <1>1, <1>2
<1>5. \A i \in DOMAIN Tail(s) : i \in Nat \ {0} /\ i + 1 \in DOMAIN s /\ Tail(s)[i] = s[i+1]
  BY <1>1, <1>2
<1>6. ASSUME NEW i \in DOMAIN s PROVE s[i] \in {Head(s)} \cup Elems(Tail(s))
  <2>1. CASE i # 1
    <3>1. i - 1 \in DOMAIN Tail(s) /\ Tail(s)[i-1] = s[(i-1)+1] /\ (i-1)+1 = i
      BY <1>2, <1>4, <1>5, <2>1
    <3> QED  BY <3>1 DEF Elems
  <2> QED  BY <1>3, <2>1
<1>7. Elems(Tail(s)) \subseteq Elems(s)
  BY <1>5 DEF Elems
<1>8. 1 \in DOMAIN s
  BY <1>2
<1> QED  BY <1>1, <1>3, <1>4, <1>5, <1>6, <1>7, <1>8 DEF Elems

LEMMA ConcatAt ==
  ASSUME NEW S, NEW s \in Seq(S), NEW t \in Seq(S)
  PROVE  /\ s \o t \in Seq(S) /\ Len(s \o t) = Len(s) + Len(t)
         /\ Len(s) \in Nat /\ DOMAIN s = 1..Len(s)
         /\ \A i \in DOMAIN s : i \in DOMAIN (s \o t) /\ (s \o t)[i] = s[i]
         /\ \A i \in DOMAIN (s \o t) :
              \/ i \in DOMAIN s
              \/ i > Len(s) /\ i - Len(s) \in DOMAIN t /\ (s \o t)[i] = t[i - Len(s)]
         /\ \A i \in DOMAIN t :
              i + Len(s) \in DOMAIN (s \o t) /\ (s \o t)[i + Len(s)] = t[i]
         /\ Elems(s \o t) = Elems(s) \cup Elems(t)
<1>1. /\ s \o t \in Seq(S) /\ Len(s \o t) = Len(s) + Len(t)
      /\ \A i \in 1 .. Len(s) + Len(t) :
           (s \o t)[i] = IF i <= Len(s) THEN s[i] ELSE t[i - Len(s)]
  BY ConcatProperties
<1>2. Len(s) \in Nat /\ Len(t) \in Nat /\ DOMAIN s = 1..Len(s) /\ DOMAIN t = 1..Len(t)
      /\ DOMAIN (s \o t) = 1..Len(s \o t)
  BY <1>1, LenProperties
<1>3. Elems(s \o t) = Elems(s) \cup Elems(t)
  BY ElemsConcat
<1>4. \A i \in DOMAIN s : i \in DOMAIN (s \o t) /\ (s \o t)[i] = s[i]
  BY <1>1, <1>2
<1>5. \A i \in DOMAIN (s \o t) :
        \/ i \in DOMAIN s
        \/ i > Len(s) /\ i - Len(s) \in DOMAIN t /\ (s \o t)[i] = t[i - Len(s)]
  BY <1>1, <1>2
<1>6. \A i \in DOMAIN t : i + Len(s) \in DOMAIN (s \o t) /\ (s \o t)[i + Len(s)] = t[i]
  BY <1>1, <1>2
<1> QED  BY <1>1, <1>2, <1>3, <1>4, <1>5, <1>6

LEMMA TailConcat ==
  ASSUME NEW S, NEW s \in Seq(S), NEW t \in Seq(S), s # <<>>
  PROVE  s \o t # <<>> /\ Head(s \o t) = Head(s) /\ Tail(s \o t) = Tail(s) \o t
<1>1. /\ s \o t \in Seq(S) /\ Len(s \o t) = Len(s) + Len(t)
      /\ \A i \in 1 .. Len(s) + Len(t) :
           (s \o t)[i] = IF i <= Len(s) THEN s[i] ELSE t[i - Len(s)]
  BY ConcatProperties
<1>2. Len(s) \in Nat \ {0} /\ Len(t) \in Nat
  BY EmptySeq, LenProperties
<1>3. s \o t # <<>>
  BY <1>1, <1>2
<1>4. Head(s \o t) = Head(s)
  BY <1>1, <1>2, <1>3
<1>5. /\ Tail(s \o t) \in Seq(S) /\ Len(Tail(s \o t)) = Len(s) + Len(t) - 1
      /\ \A i \in 1 .. Len(Tail(s \o t)) : Tail(s \o t)[i] = (s \o t)[i+1]
  <2> DEFINE u == s \o t
  <2>1. u \in Seq(S) /\ u # <<>> /\ Len(u) = Len(s) + Len(t)
    BY <1>1, <1>3
  <2> HIDE DEF u
  <2>2. /\ Tail(u) \in Seq(S) /\ Len(Tail(u)) = Len(s) + Len(t) - 1
        /\ \A i \in 1 .. Len(Tail(u)) : Tail(u)[i] = u[i+1]
    BY <2>1, HeadTailProperties
  <2> QED  BY <2>2 DEF u
<1>6. /\ Tail(s) \in Seq(S) /\ Len(Tail(s)) = Len(s) - 1
      /\ \A i \in 1 .. Len(Tail(s)) : Tail(s)[i] = s[i+1]
  BY HeadTailProperties
<1>7. /\ Tail(s) \o t \in Seq(S) /\ Len(Tail(s) \o t) = Len(s) - 1 + Len(t)
      /\ \A i \in 1 .. Len(s) - 1 + Len(t) :
           (Tail(s) \o t)[i] = IF i <= Len(s) - 1 THEN s[i+1] ELSE t[i - (Len(s) - 1)]
  <2> DEFINE u == Tail(s)
  <2>1. u \in Seq(S) /\ Len(u) = Len(s) - 1 /\ \A i \in 1 .. Len(u) : u[i] = s[i+1]
    BY <1>6
  <2> HIDE DEF u
  <2>2. /\ u \o t \in Seq(S) /\ Len(u \o t) = Len(u) + Len(t)
        /\ \A i \in 1 .. Len(u) + Len(t) :
             (u \o t)[i] = IF i <= Len(u) THEN u[i] ELSE t[i - Len(u)]
    BY <2>1, ConcatProperties
  <2>3. \A i \in 1 .. Len(s) - 1 + Len(t) :
             (u \o t)[i] = IF i <= Len(s) - 1 THEN s[i+1] ELSE t[i - (Len(s) - 1)]
    BY <1>2, <2>1, <2>2
  <2> QED  BY <2>1, <2>2, <2>3 DEF u
<1>8. \A i \in 1 .. Len(s) - 1 + Len(t) : Tail(s \o t)[i] = (Tail(s) \o t)[i]
  <2> SUFFICES ASSUME NEW i \in 1 .. Len(s) - 1 + Len(t)
               PROVE  Tail(s \o t)[i] = (Tail(s) \o t)[i]
    OBVIOUS
  <2>1. Tail(s \o t)[i] = (s \o t)[i+1]
    BY <1>2, <1>5
  <2>2. (s \o t)[i+1] = IF i + 1 <= Len(s) THEN s[i+1] ELSE t[i + 1 - Len(s)]
    BY <1>1, <1>2
  <2>3. i + 1 - Len(s) = i - (Len(s) - 1) /\ (i + 1 <= Len(s) <=> i <= Len(s) - 1)
    BY <1>2
  <2> QED  BY <1>7, <2>1, <2>2, <2>3
<1> DEFINE a == Tail(s \o t)
           b == Tail(s) \o t
<1>9. a \in Seq(S) /\ b \in Seq(S) /\ Len(a) = Len(b) /\ \A i \in 1..Len(a) : a[i] = b[i]
  BY <1>2, <1>5, <1>7, <1>8
<1>10. a = b
  <2> HIDE DEF a, b
  <2> QED  BY <1>9, SeqEqual
<1> QED  BY <1>3, <1>4, <1>10

(* A function that appends the n-th of N sequences to its value at n-1     *)
(* exists, and its value at N holds what the N sequences hold.             *)
Appending(u, N, parts) == u = [n \in 0..N |-> IF n = 0 THEN <<>> ELSE u[n-1] \o parts[n]]

LEMMA AppendingExists ==
  ASSUME NEW S, NEW N \in Nat, NEW parts \in [1..N -> Seq(S)]
  PROVE  \E u : Appending(u, N, parts)
<1> DEFINE T == {m \in Nat : m <= N => \E u : Appending(u, m, parts)}
<1>1. 0 \in T
  <2>1. Appending([n \in 0..0 |-> <<>>], 0, parts)
    BY DEF Appending
  <2> QED  BY <2>1
<1>2. ASSUME NEW m \in Nat, m \in T PROVE m + 1 \in T
  <2>1. SUFFICES ASSUME m + 1 <= N PROVE \E u : Appending(u, m + 1, parts)
    OBVIOUS
  <2>2. PICK u : Appending(u, m, parts)
    BY <1>2, <2>1
  <2>3. u = [n \in 0..m |-> IF n = 0 THEN <<>> ELSE u[n-1] \o parts[n]]
    BY <2>2 DEF Appending
  <2> DEFINE v == [n \in 0..(m+1) |-> IF n = m + 1 THEN u[m] \o parts[m+1] ELSE u[n]]
  <2>4. v = [n \in 0..(m+1) |-> IF n = 0 THEN <<>> ELSE v[n-1] \o parts[n]]
    <3>1. ASSUME NEW n \in 0..m PROVE v[n] = u[n]
      OBVIOUS
    <3>2. ASSUME NEW n \in 0..(m+1)
          PROVE  v[n] = IF n = 0 THEN <<>> ELSE v[n-1] \o parts[n]
      <4>1. CASE n = m + 1
        <5>0. v[m+1] = u[m] \o parts[m+1]
          <6>1. m + 1 \in 0..(m+1)
            OBVIOUS
          <6> QED  BY <6>1, Zenon
        <5>1. n # 0 /\ n - 1 = m /\ m \in 0..m /\ v[n] = u[m] \o parts[n]
          <6> HIDE DEF v
          <6> QED  BY <4>1, <5>0
        <5>2. v[n-1] = u[m]
          BY <5>1, <3>1
        <5> QED  BY <5>1, <5>2
      <4>2. CASE n # m + 1
        <5>1. n \in 0..m /\ v[n] = u[n]
          BY <4>2
        <5>2. u[n] = IF n = 0 THEN <<>> ELSE u[n-1] \o parts[n]
          BY <2>3, <5>1
        <5>3. n # 0 => v[n-1] = u[n-1]
          BY <5>1, <3>1
        <5> QED  BY <5>1, <5>2, <5>3
      <4> QED  BY <4>1, <4>2
    <3> HIDE DEF v
    <3> DEFINE w == [n \in 0..(m+1) |-> IF n = 0 THEN <<>> ELSE v[n-1] \o parts[n]]
    <3>3. v = [n \in 0..(m+1) |-> v[n]]
      BY DEF v
    <3>4. w = [n \in 0..(m+1) |-> v[n]]
      BY <3>2
    <3> QED  BY <3>3, <3>4
  <2> HIDE DEF v
  <2> QED  BY <2>4 DEF Appending
<1>3. Nat \subseteq T
  <2> HIDE DEF T
  <2> QED  BY <1>1, <1>2, SetInduction
<1> QED  BY <1>3

LEMMA AppendingElems ==
  ASSUME NEW S, NEW N \in Nat, NEW parts \in [1..N -> Seq(S)], NEW u, Appending(u, N, parts)
  PROVE  u[N] \in Seq(S) /\ Elems(u[N]) = UNION {Elems(parts[n]) : n \in 1..N}
<1> DEFINE T == {m \in Nat : m <= N =>
                   u[m] \in Seq(S) /\ Elems(u[m]) = UNION {Elems(parts[n]) : n \in 1..m}}
<1>0. u = [n \in 0..N |-> IF n = 0 THEN <<>> ELSE u[n-1] \o parts[n]]
  BY DEF Appending
<1>1. 0 \in T
  <2>1. u[0] = <<>>
    BY <1>0
  <2>2. <<>> \in Seq(S) /\ Elems(<<>>) = {}
    BY DEF Elems
  <2>3. {Elems(parts[n]) : n \in 1..0} = {}
    OBVIOUS
  <2> QED  BY <2>1, <2>2, <2>3
<1>2. ASSUME NEW m \in Nat, m \in T PROVE m + 1 \in T
  <2>1. SUFFICES ASSUME m + 1 <= N
                 PROVE  /\ u[m+1] \in Seq(S)
                        /\ Elems(u[m+1]) = UNION {Elems(parts[n]) : n \in 1..(m+1)}
    OBVIOUS
  <2>2. u[m] \in Seq(S) /\ Elems(u[m]) = UNION {Elems(parts[n]) : n \in 1..m}
    BY <1>2, <2>1
  <2>3. u[m+1] = u[m] \o parts[m+1] /\ parts[m+1] \in Seq(S)
    <3>1. m + 1 \in 0..N /\ m + 1 # 0 /\ (m + 1) - 1 = m /\ m + 1 \in 1..N
      BY <2>1
    <3> QED  BY <1>0, <3>1
  <2>4. u[m+1] \in Seq(S) /\ Elems(u[m+1]) = Elems(u[m]) \cup Elems(parts[m+1])
    BY <2>2, <2>3, ElemsConcat
  <2>5. 1..(m+1) = (1..m) \cup {m+1}
    OBVIOUS
  <2>6. UNION {Elems(parts[n]) : n \in 1..(m+1)}
          = (UNION {Elems(parts[n]) : n \in 1..m}) \cup Elems(parts[m+1])
    BY <2>5, Zenon
  <2> QED  BY <2>2, <2>4, <2>6
<1>3. Nat \subseteq T
  <2> HIDE DEF T
  <2> QED  BY <1>1, <1>2, SetInduction
<1>4. N \in T
  BY <1>3
<1> QED  BY <1>4

(* A function that starts from D and applies the functions G[1], G[2] and  *)
(* so on, one after the other, exists.                                     *)
Turns(u, N, D, G) == u = [n \in 0..N |-> IF n = 0 THEN D ELSE G[n][u[n-1]]]

LEMMA TurnsExist ==
  ASSUME NEW U, NEW D \in U, NEW N \in Nat, NEW G \in [1..N -> [U -> U]]
  PROVE  \E u \in [0..N -> U] : Turns(u, N, D, G)
<1> DEFINE T == {m \in Nat : m <= N => \E u \in [0..m -> U] : Turns(u, m, D, G)}
<1>1. 0 \in T
  <2>1. [n \in 0..0 |-> D] \in [0..0 -> U] /\ Turns([n \in 0..0 |-> D], 0, D, G)
    BY DEF Turns
  <2> QED  BY <2>1
<1>2. ASSUME NEW m \in Nat, m \in T PROVE m + 1 \in T
  <2>0. SUFFICES ASSUME m + 1 <= N PROVE \E u \in [0..(m+1) -> U] : Turns(u, m + 1, D, G)
    OBVIOUS
  <2>1. PICK u \in [0..m -> U] : u = [n \in 0..m |-> IF n = 0 THEN D ELSE G[n][u[n-1]]]
    BY <1>2, <2>0 DEF Turns
  <2> DEFINE v == [n \in 0..(m+1) |-> IF n = m + 1 THEN G[m+1][u[m]] ELSE u[n]]
  <2>2. \A n \in 0..m : v[n] = u[n] /\ u[n] \in U
    OBVIOUS
  <2>3. v[m+1] = G[m+1][u[m]] /\ G[m+1][u[m]] \in U
    <3>1. m + 1 \in 0..(m+1) /\ m \in 0..m /\ m + 1 \in 1..N
      BY <2>0
    <3> QED  BY <3>1, Zenon
  <2>4. v \in [0..(m+1) -> U]
    <3>1. \A n \in 0..(m+1) : v[n] \in U
      <4> SUFFICES ASSUME NEW n \in 0..(m+1) PROVE v[n] \in U
        OBVIOUS
      <4>1. n = m + 1 \/ n \in 0..m
        OBVIOUS
      <4> HIDE DEF v
      <4> QED  BY <2>2, <2>3, <4>1
    <3>2. v = [n \in 0..(m+1) |-> v[n]]
      OBVIOUS
    <3> HIDE DEF v
    <3> QED  BY <3>1, <3>2
  <2>5. ASSUME NEW n \in 0..(m+1) PROVE v[n] = IF n = 0 THEN D ELSE G[n][v[n-1]]
    <3>1. CASE n = m + 1
      <4>1. n # 0 /\ n - 1 = m /\ m \in 0..m
        BY <3>1
      <4> HIDE DEF v
      <4> QED  BY <2>2, <2>3, <3>1, <4>1
    <3>2. CASE n # m + 1
      <4>1. n \in 0..m /\ (n # 0 => n - 1 \in 0..m)
        BY <3>2
      <4>2. u[n] = IF n = 0 THEN D ELSE G[n][u[n-1]]
        BY <2>1, <4>1
      <4> HIDE DEF v
      <4> QED  BY <2>2, <4>1, <4>2
    <3> QED  BY <3>1, <3>2
  <2>6. v = [n \in 0..(m+1) |-> IF n = 0 THEN D ELSE G[n][v[n-1]]]
    <3>1. v = [n \in 0..(m+1) |-> v[n]]
      OBVIOUS
    <3> HIDE DEF v
    <3>2. [n \in 0..(m+1) |-> v[n]] = [n \in 0..(m+1) |-> IF n = 0 THEN D ELSE G[n][v[n-1]]]
      BY <2>5
    <3> QED  BY <3>1, <3>2
  <2> HIDE DEF v
  <2>7. Turns(v, m + 1, D, G)
    BY <2>6 DEF Turns
  <2> QED  BY <2>4, <2>7
<1>3. Nat \subseteq T
  <2> HIDE DEF T
  <2> QED  BY <1>1, <1>2, SetInduction
<1> QED  BY <1>3

(* The same for one function that is applied again and again.              *)
Iterating(u, N, D, F) == u = [n \in 0..N |-> IF n = 0 THEN D ELSE F[u[n-1]]]

LEMMA IteratingExists ==
  ASSUME NEW U, NEW D \in U, NEW F \in [U -> U], NEW N \in Nat
  PROVE  \E u \in [0..N -> U] : Iterating(u, N, D, F)
<1> DEFINE G == [n \in 1..N |-> F]
<1>1. G \in [1..N -> [U -> U]]
  OBVIOUS
<1>2. PICK u \in [0..N -> U] : Turns(u, N, D, G)
  <2> HIDE DEF G
  <2> QED  BY <1>1, TurnsExist
<1>3. \A n \in 0..N : n # 0 => G[n] = F
  OBVIOUS
<1> HIDE DEF G
<1>4. [n \in 0..N |-> IF n = 0 THEN D ELSE G[n][u[n-1]]]
        = [n \in 0..N |-> IF n = 0 THEN D ELSE F[u[n-1]]]
  BY <1>3
<1> QED  BY <1>2, <1>4 DEF Turns, Iterating
-----------------------------------------------------------------------------
(* Sequences without duplicates, and the orders of a set.                  *)

NoDuplicates(s) == \A i, j \in DOMAIN s : i # j => s[i] # s[j]

LEMMA EmptyMap ==
  /\ DOMAIN <<>> = {} /\ \A S : <<>> \in [DOMAIN <<>> -> S]
  /\ Elems(<<>>) = {} /\ NoDuplicates(<<>>)
<1>1. DOMAIN <<>> = {} /\ \A S : <<>> \in [{} -> S]
  OBVIOUS
<1> QED  BY <1>1 DEF Elems, NoDuplicates

(* The members of a sequence without its last element.                     *)
LEMMA WithoutLast ==
  ASSUME NEW S, NEW s \in Seq(S), s # <<>>
  PROVE  /\ Len(s) \in Nat \ {0} /\ s[Len(s)] \in S
         /\ SubSeq(s, 1, Len(s) - 1) \in Seq(S)
         /\ Len(SubSeq(s, 1, Len(s) - 1)) = Len(s) - 1
         /\ \A i \in 1 .. Len(s) - 1 : SubSeq(s, 1, Len(s) - 1)[i] = s[i]
         /\ Elems(s) = Elems(SubSeq(s, 1, Len(s) - 1)) \cup {s[Len(s)]}
         /\ s[Len(s)] \in Elems(s)
<1>1. Len(s) \in Nat \ {0} /\ DOMAIN s = 1..Len(s) /\ \A i \in 1..Len(s) : s[i] \in S
  BY EmptySeq, LenProperties, ElementOfSeq
<1> DEFINE n == Len(s) - 1
           t == SubSeq(s, 1, Len(s) - 1)
<1>2. n \in Nat /\ Len(s) = n + 1 /\ \A i \in 1..n : i \in 1..Len(s)
  BY <1>1
<1>3. t \in Seq(S) /\ Len(t) = n /\ \A i \in 1..n : t[i] = s[i]
  <2>1. 1 \in Int /\ n \in Int /\ \A i \in 1..n : s[i] \in S
    BY <1>1, <1>2
  <2>2. /\ SubSeq(s, 1, n) \in Seq(S)
        /\ Len(SubSeq(s, 1, n)) = IF 1 <= n THEN n - 1 + 1 ELSE 0
        /\ \A i \in 1 .. n - 1 + 1 : SubSeq(s, 1, n)[i] = s[1 + i - 1]
    BY <2>1, SubSeqProperties
  <2> QED  BY <1>2, <2>2
<1>4. DOMAIN t = 1..n
  BY <1>3, LenProperties
<1> HIDE DEF t
<1>5. Elems(s) = Elems(t) \cup {s[Len(s)]}
  <2>1. ASSUME NEW i \in 1..Len(s) PROVE s[i] \in Elems(t) \cup {s[Len(s)]}
    <3>1. i \in 1..n \/ i = Len(s)
      <4> DEFINE k == Len(s)
      <4>1. n \in Nat /\ k = n + 1 /\ i \in 1..k
        BY <1>2, <2>1
      <4> HIDE DEF n, k
      <4>2. i \in 1..n \/ i = k
        BY <4>1
      <4> QED  BY <4>2 DEF k
    <3>2. \A j \in 1..n : s[j] \in Elems(t)
      BY <1>3, <1>4 DEF Elems
    <3> QED  BY <3>1, <3>2
  <2>2. \A x \in Elems(t) : x \in Elems(s)
    BY <1>1, <1>2, <1>3, <1>4 DEF Elems
  <2>3. s[Len(s)] \in Elems(s)
    BY <1>1, <1>2 DEF Elems
  <2> QED  BY <1>1, <2>1, <2>2, <2>3 DEF Elems
<1>6. s[Len(s)] \in S
  BY <1>1
<1> QED  BY <1>1, <1>2, <1>3, <1>5, <1>6 DEF t, Elems

(* What is left without the first element.                                 *)
LEMMA DistinctTail ==
  ASSUME NEW S, NEW s \in Seq(S), s # <<>>, NoDuplicates(s)
  PROVE  NoDuplicates(Tail(s)) /\ Head(s) \notin Elems(Tail(s))
<1>1. /\ 1 \in DOMAIN s /\ s[1] = Head(s)
      /\ \A i \in DOMAIN Tail(s) : i \in Nat \ {0} /\ i + 1 \in DOMAIN s /\ Tail(s)[i] = s[i+1]
  BY ElemsTail
<1>2. NoDuplicates(Tail(s))
  <2> SUFFICES ASSUME NEW i \in DOMAIN Tail(s), NEW j \in DOMAIN Tail(s), i # j
               PROVE  Tail(s)[i] # Tail(s)[j]
    BY DEF NoDuplicates
  <2>1. i + 1 \in DOMAIN s /\ j + 1 \in DOMAIN s /\ i + 1 # j + 1
    BY <1>1
  <2>2. s[i + 1] # s[j + 1]
    BY <2>1 DEF NoDuplicates
  <2> QED  BY <1>1, <2>2
<1>3. Head(s) \notin Elems(Tail(s))
  <2> SUFFICES ASSUME NEW i \in DOMAIN Tail(s) PROVE Tail(s)[i] # Head(s)
    BY DEF Elems
  <2>1. i + 1 \in DOMAIN s /\ i + 1 # 1
    BY <1>1
  <2>2. s[i + 1] # s[1]
    BY <1>1, <2>1 DEF NoDuplicates
  <2> QED  BY <1>1, <2>2
<1> QED  BY <1>2, <1>3

LEMMA DistinctConcat ==
  ASSUME NEW S, NEW s \in Seq(S), NEW t \in Seq(S), NoDuplicates(s), NoDuplicates(t),
         Elems(s) \cap Elems(t) = {}
  PROVE  NoDuplicates(s \o t)
<1> DEFINE u == s \o t
<1>1. /\ Len(s) \in Nat /\ DOMAIN s = 1..Len(s)
      /\ \A i \in DOMAIN s : u[i] = s[i]
      /\ \A i \in DOMAIN u : i \in DOMAIN s
           \/ (i > Len(s) /\ i - Len(s) \in DOMAIN t /\ u[i] = t[i - Len(s)])
      /\ \A i \in DOMAIN u : i \in Nat
  <2>1. u \in Seq(S)
    BY ConcatAt
  <2>2. \A i \in DOMAIN u : i \in Nat
    BY <2>1, LenProperties
  <2> QED  BY <2>2, ConcatAt
<1> HIDE DEF u
<1> SUFFICES ASSUME NEW i \in DOMAIN u, NEW j \in DOMAIN u, i # j PROVE u[i] # u[j]
  BY DEF NoDuplicates, u
<1>2. CASE i \in DOMAIN s /\ j \in DOMAIN s
  BY <1>1, <1>2 DEF NoDuplicates
<1>3. \A m \in DOMAIN u : u[m] \in IF m \in DOMAIN s THEN Elems(s) ELSE Elems(t)
  BY <1>1 DEF Elems
<1>4. CASE i \in DOMAIN s /\ j \notin DOMAIN s
  BY <1>3, <1>4
<1>5. CASE i \notin DOMAIN s /\ j \in DOMAIN s
  BY <1>3, <1>5
<1>6. CASE i \notin DOMAIN s /\ j \notin DOMAIN s
  <2>1. /\ i - Len(s) \in DOMAIN t /\ j - Len(s) \in DOMAIN t /\ i \in Nat /\ j \in Nat
        /\ u[i] = t[i - Len(s)] /\ u[j] = t[j - Len(s)]
    BY <1>1, <1>6
  <2>2. i - Len(s) # j - Len(s)
    BY <1>1, <2>1
  <2> QED  BY <2>1, <2>2 DEF NoDuplicates
<1> QED  BY <1>2, <1>4, <1>5, <1>6

(* The image of a finite set, and of one on which a function is one-one.   *)
LEMMA ImageFinite ==
  ASSUME NEW S, IsFiniteSet(S), NEW f
  PROVE  /\ IsFiniteSet({f[x] : x \in S})
         /\ (\A x, y \in S : f[x] = f[y] => x = y) => Cardinality({f[x] : x \in S}) = Cardinality(S)
<1> DEFINE T == {f[x] : x \in S}
           h == [x \in S |-> f[x]]
<1>1. h \in [S -> T] /\ \A t \in T : \E x \in S : h[x] = t
  OBVIOUS
<1>2. (\A x, y \in S : f[x] = f[y] => x = y) => \A x, y \in S : h[x] = h[y] => x = y
  OBVIOUS
<1> HIDE DEF h, T
<1>3. h \in Surjection(S, T)
  BY <1>1 DEF Surjection
<1>4. IsFiniteSet(T)
  BY <1>3, FS_Surjection
<1>5. ASSUME \A x, y \in S : h[x] = h[y] => x = y PROVE Cardinality(T) = Cardinality(S)
  <2>1. h \in Injection(S, T)
    BY <1>1, <1>5 DEF Injection, IsInjective
  <2> QED  BY <1>3, <2>1, FS_Surjection
<1> QED  BY <1>2, <1>4, <1>5 DEF T

(* A sequence without duplicates is as long as the set of its elements.    *)
LEMMA LengthOf ==
  ASSUME NEW S, NEW s \in Seq(S), NoDuplicates(s)
  PROVE  Len(s) = Cardinality(Elems(s)) /\ Range(s) = Elems(s)
<1> DEFINE n == Len(s)
           E == Elems(s)
<1>1. n \in Nat /\ DOMAIN s = 1..n /\ s \in [1..n -> S]
  BY LenProperties
<1>2. s \in [1..n -> E]
  BY <1>1 DEF Elems
<1>3. \A i, j \in 1..n : s[i] = s[j] => i = j
  BY <1>1 DEF NoDuplicates
<1>4. \A x \in E : \E i \in 1..n : s[i] = x
  BY <1>1 DEF Elems
<1> HIDE DEF n, E
<1>5. s \in Bijection(1..n, E)
  BY <1>2, <1>3, <1>4 DEF Bijection, Injection, Surjection, IsInjective
<1>6. IsFiniteSet(1..n) /\ Cardinality(1..n) = n
  BY <1>1, FS_Interval
<1>7. Cardinality(E) = n
  BY <1>5, <1>6, FS_Bijection DEF ExistsBijection
<1>8. Range(s) = Elems(s)
  BY DEF Range, Elems
<1> QED  BY <1>7, <1>8 DEF n, E

(* SetToSeqs gives the orders of a finite set.                             *)
LEMMA SetOrders ==
  ASSUME NEW S, IsFiniteSet(S), NEW cs \in SetToSeqs(S)
  PROVE  /\ cs \in Seq(S) /\ Elems(cs) = S /\ NoDuplicates(cs)
<1> DEFINE n == Cardinality(S)
<1>1. n \in Nat /\ cs \in [1..n -> S] /\ IsInjective(cs)
  <2>1. n \in Nat
    BY FS_CardinalityType
  <2>2. cs \in [1..n -> S] /\ \A i, j \in 1..n : i # j => cs[i] # cs[j]
    BY DEF SetToSeqs
  <2>3. IsInjective(cs)
    BY <2>2 DEF IsInjective
  <2> QED  BY <2>1, <2>2, <2>3
<1>2. cs \in Seq(S) /\ DOMAIN cs = 1..n
  BY <1>1
<1>3. NoDuplicates(cs)
  BY <1>1, <1>2 DEF IsInjective, NoDuplicates
<1>4. IsFiniteSet(1..n) /\ Cardinality(1..n) = n
  BY <1>1, FS_Interval
<1>5. cs \in Injection(1..n, S)
  BY <1>1 DEF Injection
<1>6. cs \in Surjection(1..n, S)
  BY <1>1, <1>4, <1>5, FS_Injection
<1> HIDE DEF n
<1>7. Elems(cs) = S
  BY <1>1, <1>2, <1>6 DEF Surjection, Elems
<1> QED  BY <1>2, <1>3, <1>7

(* SetToSeq lists the elements of a finite set.                            *)
LEMMA SetSequence ==
  ASSUME NEW S, IsFiniteSet(S)
  PROVE  /\ SetToSeq(S) \in [1..Cardinality(S) -> S] /\ Cardinality(S) \in Nat
         /\ \A x \in S : \E i \in 1..Cardinality(S) : SetToSeq(S)[i] = x
<1> DEFINE n == Cardinality(S)
<1>1. n \in Nat /\ ExistsBijection(1..n, S)
  BY FS_CardinalityType
<1>2. \E f \in [1..n -> S] : IsInjective(f)
  BY <1>1 DEF ExistsBijection, Bijection, Injection
<1>3. SetToSeq(S) \in [1..n -> S] /\ IsInjective(SetToSeq(S))
  BY <1>2 DEF SetToSeq
<1>4. SetToSeq(S) \in Injection(1..n, S)
  BY <1>3 DEF Injection
<1>5. IsFiniteSet(1..n) /\ Cardinality(1..n) = n
  BY <1>1, FS_Interval
<1>6. SetToSeq(S) \in Surjection(1..n, S)
  BY <1>4, <1>5, FS_Injection
<1> QED  BY <1>1, <1>3, <1>6 DEF Surjection
=============================================================================
