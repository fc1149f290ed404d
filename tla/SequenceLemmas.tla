--------------------------- MODULE SequenceLemmas ---------------------------
(****************************************************************************)
(* Facts about sequences that the proofs of several components cite.  The   *)
(* library states induction for an operator; for a set it follows from the  *)
(* well-foundedness of the numbers, and a property is the set where it      *)
(* holds.                                                                   *)
(****************************************************************************)
EXTENDS Integers, Sequences, SequencesExt, SequenceTheorems, WellFoundedInduction, TLAPS

LEMMA SetInduction ==
    ASSUME NEW T, 0 \in T, \A n \in Nat : n \in T => n + 1 \in T
    PROVE  \A n \in Nat : n \in T
<1>1. SUFFICES ASSUME Nat \ T # {} PROVE FALSE
  OBVIOUS
<1>2. \E x \in Nat \ T : \A y \in Nat \ T : <<y, x>> \notin OpToRel(<, Nat)
  <2>1. IsWellFoundedOn(OpToRel(<, Nat), Nat)
    BY NatLessThanWellFounded
  <2> QED
    BY <1>1, <2>1, WFMin
<1>3. PICK x \in Nat \ T : \A y \in Nat \ T : <<y, x>> \notin OpToRel(<, Nat)
  BY <1>2
<1>4. \A y \in Nat \ T : ~(y < x)
  BY <1>3 DEF OpToRel
<1>5. x # 0 /\ x - 1 \in Nat /\ x - 1 \notin Nat \ T
  BY <1>4
<1> QED
  BY <1>5

(* The same from all smaller numbers.                                       *)
LEMMA StrongInduction ==
    ASSUME NEW T, \A n \in Nat : (\A m \in Nat : m < n => m \in T) => n \in T
    PROVE  \A n \in Nat : n \in T
<1> DEFINE U == {n \in Nat : \A m \in 0 .. n : m \in T}
<1>1. 0 \in U
  OBVIOUS
<1>2. ASSUME NEW n \in Nat, n \in U PROVE n + 1 \in U
  <2>1. \A m \in Nat : m < n + 1 => m \in T
    BY <1>2
  <2>2. n + 1 \in T
    BY <2>1
  <2> QED
    BY <1>2, <2>2
<1> HIDE DEF U
<1>3. \A n \in Nat : n \in U
  BY <1>1, <1>2, SetInduction
<1>4. \A n \in Nat : n \in 0 .. n
  OBVIOUS
<1> QED
  BY <1>3, <1>4 DEF U

----------------------------------------------------------------------------
(* The items of a sequence that an operation leaves or adds.                *)

(* What a receive takes off a queue and what it leaves.                     *)
LEMMA TailItems ==
    ASSUME NEW S, NEW q \in Seq(S), q # <<>>
    PROVE  /\ Head(q) = q[1] /\ Head(q) \in S
           /\ Tail(q) \in Seq(S)
           /\ Len(q) \in Nat \ {0} /\ Len(Tail(q)) = Len(q) - 1
           /\ \A i \in 1..Len(Tail(q)) : Tail(q)[i] = q[i + 1] /\ i + 1 \in 1..Len(q)
           /\ Len(q) = 1 => Tail(q) = <<>>
<1>1. Head(q) \in S /\ Tail(q) \in Seq(S) /\ Len(q) \in Nat \ {0} /\ Len(Tail(q)) = Len(q) - 1
  BY HeadTailProperties, EmptySeq, LenProperties
<1>2. Head(q) = q[1]
  OBVIOUS
<1>3. \A i \in 1..Len(Tail(q)) : Tail(q)[i] = q[i + 1]
  BY <1>1, HeadTailProperties
<1>4. \A i \in 1..Len(Tail(q)) : i + 1 \in 1..Len(q)
  BY <1>1
<1>5. ASSUME Len(q) = 1 PROVE Tail(q) = <<>>
  <2>1. Len(Tail(q)) = 0
    BY <1>1, <1>5
  <2> QED
    BY <1>1, <2>1, EmptySeq
<1> QED
  BY <1>1, <1>2, <1>3, <1>4, <1>5

(* What a send puts into it.                                                *)
LEMMA AppendItems ==
    ASSUME NEW S, NEW q \in Seq(S), NEW e \in S
    PROVE  /\ Append(q, e) \in Seq(S) /\ Append(q, e) # <<>>
           /\ Len(q) \in Nat /\ Len(Append(q, e)) = Len(q) + 1
           /\ Append(q, e)[Len(q) + 1] = e
           /\ \A i \in 1..Len(q) : Append(q, e)[i] = q[i]
BY AppendProperties, LenProperties

(* What a broken socket leaves of it.                                       *)
LEMMA PrefixItems ==
    ASSUME NEW S, NEW q \in Seq(S), NEW n \in 0..Len(q)
    PROVE  /\ SubSeq(q, 1, n) \in Seq(S) /\ Len(SubSeq(q, 1, n)) = n
           /\ \A i \in 1..n : SubSeq(q, 1, n)[i] = q[i] /\ i \in 1..Len(q)
           /\ n = 0 => SubSeq(q, 1, n) = <<>>
           /\ q = <<>> => SubSeq(q, 1, n) = <<>>
<1>1. Len(q) \in Nat /\ n \in Nat
  BY LenProperties
<1>2. \A i \in 1..n : i \in 1..Len(q) /\ q[i] \in S
  BY <1>1, LenProperties, ElementOfSeq
<1>3. SubSeq(q, 1, n) = [i \in 1..n |-> q[i]]
  BY <1>1, <1>2
<1>4. SubSeq(q, 1, n) \in Seq(S) /\ Len(SubSeq(q, 1, n)) = n
  BY <1>1, <1>2, <1>3
<1>5. n = 0 => SubSeq(q, 1, n) = <<>>
  BY <1>4, EmptySeq
<1>6. q = <<>> => n = 0
  BY <1>1, EmptySeq
<1> QED
  BY <1>2, <1>3, <1>4, <1>5, <1>6

(* Two sequences one behind the other.                                      *)
LEMMA ConcatItems ==
    ASSUME NEW S, NEW s \in Seq(S), NEW t \in Seq(S)
    PROVE  /\ s \o t \in Seq(S)
           /\ Len(s) \in Nat /\ Len(t) \in Nat /\ Len(s \o t) = Len(s) + Len(t)
           /\ \A i \in 1..Len(s) : (s \o t)[i] = s[i]
           /\ \A i \in 1..Len(t) : (s \o t)[Len(s) + i] = t[i]
           /\ \A i \in 1..Len(s \o t) :
                  \/ i \in 1..Len(s) /\ (s \o t)[i] = s[i]
                  \/ i - Len(s) \in 1..Len(t) /\ (s \o t)[i] = t[i - Len(s)]
<1>1. Len(s) \in Nat /\ Len(t) \in Nat
  BY LenProperties
<1>2. s \o t \in Seq(S) /\ Len(s \o t) = Len(s) + Len(t)
  BY ConcatProperties
<1>3. \A i \in 1..Len(s) + Len(t) : (s \o t)[i] = IF i <= Len(s) THEN s[i] ELSE t[i - Len(s)]
  BY ConcatProperties
<1>4. \A i \in 1..Len(s) : (s \o t)[i] = s[i]
  BY <1>1, <1>3
<1>5. ASSUME NEW i \in 1..Len(t) PROVE (s \o t)[Len(s) + i] = t[i]
  <2>1. Len(s) + i \in 1..Len(s) + Len(t) /\ ~(Len(s) + i <= Len(s)) /\ (Len(s) + i) - Len(s) = i
    BY <1>1
  <2> QED
    BY <1>3, <2>1
<1>6. \A i \in 1..Len(s \o t) :
          \/ i \in 1..Len(s) /\ (s \o t)[i] = s[i]
          \/ i - Len(s) \in 1..Len(t) /\ (s \o t)[i] = t[i - Len(s)]
  BY <1>1, <1>2, <1>3
<1> QED
  BY <1>1, <1>2, <1>4, <1>5, <1>6

LEMMA PrefixOfConcat ==
    ASSUME NEW S, NEW s \in Seq(S), NEW t \in Seq(S)
    PROVE  IsPrefix(s, s \o t)
<1>1. /\ Len(s) \in Nat /\ Len(t) \in Nat /\ Len(s \o t) = Len(s) + Len(t)
      /\ s \o t \in Seq(S) /\ \A i \in 1..Len(s) : (s \o t)[i] = s[i]
  BY ConcatItems
<1>2. Len(s) <= Len(s \o t) /\ Len(s) \in 0..Len(s \o t) /\ Len(s) \in 0..Len(s)
  BY <1>1
<1>3. SubSeq(s, 1, Len(s)) = SubSeq(s \o t, 1, Len(s))
  <2> DEFINE a == SubSeq(s, 1, Len(s))
             b == SubSeq(s \o t, 1, Len(s))
  <2>1. a \in Seq(S) /\ Len(a) = Len(s) /\ \A i \in 1..Len(s) : a[i] = s[i]
    BY <1>2, PrefixItems
  <2>2. b \in Seq(S) /\ Len(b) = Len(s) /\ \A i \in 1..Len(s) : b[i] = (s \o t)[i]
    BY <1>1, <1>2, PrefixItems
  <2> HIDE DEF a, b
  <2>3. \A i \in 1..Len(a) : a[i] = b[i]
    BY <1>1, <2>1, <2>2
  <2> QED
    BY <2>1, <2>2, <2>3, SeqEqual DEF a, b
<1> QED
  BY <1>2, <1>3 DEF IsPrefix

----------------------------------------------------------------------------
(* FlattenSeq joins the items of a sequence from the first to the last.     *)

Joins(f, v) ==
    f = [i \in 1..Len(v) |-> IF i = 1 THEN v[i] ELSE f[i - 1] \o v[i]]

LEMMA JoinItem ==
    ASSUME NEW v, NEW f, Joins(f, v), NEW i \in 1..Len(v)
    PROVE  f[i] = IF i = 1 THEN v[i] ELSE f[i - 1] \o v[i]
BY DEF Joins

LEMMA JoinNext ==
    ASSUME NEW v, Len(v) \in Nat, NEW f, Joins(f, v), NEW n \in Nat \ {0}, n + 1 <= Len(v)
    PROVE  f[n + 1] = f[n] \o v[n + 1]
<1> DEFINE i == n + 1
<1>1. i \in 1..Len(v) /\ i # 1 /\ i - 1 = n
  OBVIOUS
<1> HIDE DEF i
<1>2. f[i] = f[i - 1] \o v[i]
  BY <1>1, JoinItem
<1> QED
  BY <1>1, <1>2 DEF i

LEMMA FlattenIsJoin ==
    ASSUME NEW v, Len(v) # 0, \E f : Joins(f, v)
    PROVE  \E f : Joins(f, v) /\ FlattenSeq(v) = f[Len(v)]
<1> DEFINE g == CHOOSE f : f = [i \in 1..Len(v) |-> IF i = 1 THEN v[i] ELSE f[i - 1] \o v[i]]
<1>1. Joins(g, v)
  BY DEF Joins
<1>2. FlattenSeq(v) = g[Len(v)]
  BY Zenon DEF FlattenSeq
<1> QED
  BY <1>1, <1>2

LEMMA FlattenOfOne ==
    ASSUME NEW S, NEW s \in S
    PROVE  FlattenSeq(<<s>>) = s
<1> DEFINE v == <<s>>
<1>1. Len(v) = 1 /\ v[1] = s
  OBVIOUS
<1> HIDE DEF v
<1>2. Joins([i \in 1..1 |-> s], v)
  BY <1>1 DEF Joins
<1>3. PICK f : Joins(f, v) /\ FlattenSeq(v) = f[Len(v)]
  <2>1. Len(v) # 0 /\ \E f : Joins(f, v)
    BY <1>1, <1>2
  <2> QED
    BY <2>1, FlattenIsJoin
<1>4. f[1] = s
  <2>1. 1 \in 1..Len(v)
    BY <1>1
  <2>2. f[1] = v[1]
    BY <1>3, <2>1, JoinItem
  <2> QED
    BY <1>1, <2>2
<1> QED
  BY <1>1, <1>3, <1>4 DEF v

(* A join of a longer sequence agrees with that of the shorter.             *)
LEMMA JoinsAgree ==
    ASSUME NEW S, NEW v \in Seq(S), NEW s \in S, NEW f, NEW g,
           Joins(f, v), Joins(g, Append(v, s))
    PROVE  \A i \in 1..Len(v) : f[i] = g[i]
<1> DEFINE w == Append(v, s)
<1> DEFINE T == {n \in Nat : n \in 1..Len(v) => f[n] = g[n]}
<1>1. /\ Len(v) \in Nat /\ Len(w) \in Nat /\ Len(w) = Len(v) + 1 /\ Joins(g, w)
      /\ \A i \in 1..Len(v) : w[i] = v[i]
  BY AppendProperties, LenProperties
<1> HIDE DEF w
<1>2. 0 \in T
  OBVIOUS
<1>3. ASSUME NEW n \in Nat, n \in T PROVE n + 1 \in T
  <2>1. SUFFICES ASSUME n + 1 \in 1..Len(v) PROVE f[n + 1] = g[n + 1]
    OBVIOUS
  <2>2. n + 1 \in 1..Len(w) /\ v[n + 1] = w[n + 1] /\ n + 1 <= Len(v) /\ n + 1 <= Len(w)
    BY <1>1, <2>1
  <2>3. CASE n = 0
    <3>1. f[1] = v[1] /\ g[1] = w[1]
      BY <1>1, <2>1, <2>2, <2>3, JoinItem
    <3> QED
      BY <2>2, <2>3, <3>1
  <2>4. CASE n # 0
    <3>1. f[n + 1] = f[n] \o v[n + 1] /\ g[n + 1] = g[n] \o w[n + 1]
      BY ZenonT(60), <1>1, <2>2, <2>4, JoinNext
    <3>2. f[n] = g[n]
      BY <1>1, <1>3, <2>2, <2>4
    <3> QED
      BY <2>2, <3>1, <3>2
  <2> QED
    BY <2>3, <2>4
<1> HIDE DEF T
<1>4. \A n \in Nat : n \in T
  BY <1>2, <1>3, SetInduction
<1>5. \A i \in 1..Len(v) : i \in Nat
  BY <1>1
<1> QED
  BY <1>4, <1>5 DEF T

(* A join of a sequence is one item longer than a join of its front.        *)
LEMMA JoinsAppend ==
    ASSUME NEW S, NEW v \in Seq(S), NEW s \in S, v # <<>>, NEW f, Joins(f, v)
    PROVE  Joins([i \in 1..(Len(v) + 1) |-> IF i = Len(v) + 1 THEN f[Len(v)] \o s ELSE f[i]],
                 Append(v, s))
<1> DEFINE n == Len(v)
           w == Append(v, s)
           g == [i \in 1..(n + 1) |-> IF i = n + 1 THEN f[n] \o s ELSE f[i]]
<1>1. n \in Nat \ {0} /\ Len(w) = n + 1 /\ w[n + 1] = s /\ \A i \in 1..n : w[i] = v[i]
  BY AppendProperties, EmptySeq, LenProperties
<1>2. ASSUME NEW i \in 1..(n + 1)
      PROVE  g[i] = IF i = 1 THEN w[i] ELSE g[i - 1] \o w[i]
  <2>1. CASE i = n + 1
    <3>1. g[i] = f[n] \o s /\ g[i - 1] = f[n] /\ w[i] = s /\ i # 1
      BY <1>1, <2>1
    <3> QED
      BY <3>1
  <2>2. CASE i # n + 1
    <3>1. i \in 1..n /\ (i # 1 => i - 1 \in 1..n)
      BY <1>1, <2>2
    <3>2. f[i] = IF i = 1 THEN v[i] ELSE f[i - 1] \o v[i]
      BY <3>1 DEF Joins
    <3> QED
      BY <1>1, <2>2, <3>1, <3>2
  <2> QED
    BY <2>1, <2>2
<1>3. g = [i \in 1..Len(w) |-> IF i = 1 THEN w[i] ELSE g[i - 1] \o w[i]]
  BY <1>1, <1>2
<1> QED
  BY <1>3 DEF Joins

(* Every sequence has a join: by induction over its length.                 *)
LEMMA JoinsExist ==
    ASSUME NEW S, NEW v \in Seq(S), v # <<>>
    PROVE  \E f : Joins(f, v)
<1> DEFINE T == {n \in Nat : \A w \in Seq(S) : Len(w) = n /\ w # <<>> => \E f : Joins(f, w)}
<1>1. 0 \in T
  BY EmptySeq
<1>2. ASSUME NEW n \in Nat, n \in T PROVE n + 1 \in T
  <2>1. SUFFICES ASSUME NEW w \in Seq(S), Len(w) = n + 1, w # <<>> PROVE \E f : Joins(f, w)
    OBVIOUS
  <2> DEFINE u == SubSeq(w, 1, n)
  <2>2. u \in Seq(S) /\ Len(u) = n /\ w[n + 1] \in S /\ \A i \in 1..n : u[i] = w[i]
    <3>1. \A i \in 1..n : w[i] \in S
      BY <2>1, ElementOfSeq
    <3>2. u = [i \in 1..n |-> w[i]]
      BY <2>1
    <3>3. w[n + 1] \in S
      BY <2>1, ElementOfSeq
    <3> QED
      BY <3>1, <3>2, <3>3
  <2>3. w = Append(u, w[n + 1])
    <3>1. /\ Append(u, w[n + 1]) \in Seq(S) /\ Len(Append(u, w[n + 1])) = n + 1
          /\ \A i \in 1..n : Append(u, w[n + 1])[i] = w[i]
          /\ Append(u, w[n + 1])[n + 1] = w[n + 1]
      BY <2>2, AppendProperties
    <3>2. \A i \in 1..Len(w) : w[i] = Append(u, w[n + 1])[i]
      BY <2>1, <3>1
    <3> HIDE DEF u
    <3> QED
      BY <2>1, <3>1, <3>2, SeqEqual
  <2>4. CASE u = <<>>
    <3>1. n = 0
      BY <2>2, <2>4, EmptySeq
    <3>2. Joins([i \in 1..1 |-> w[1]], w)
      BY <2>1, <3>1 DEF Joins
    <3> QED
      BY <3>2
  <2>5. CASE u # <<>>
    <3>1. PICK f : Joins(f, u)
      BY <1>2, <2>2, <2>5
    <3> QED
      BY <2>2, <2>3, <2>5, <3>1, JoinsAppend
  <2> QED
    BY <2>4, <2>5
<1> HIDE DEF T
<1>3. Len(v) \in Nat /\ Len(v) \in T
  BY <1>1, <1>2, SetInduction, LenProperties
<1> QED
  BY <1>3 DEF T

LEMMA FlattenEmpty == FlattenSeq(<<>>) = <<>>
BY DEF FlattenSeq

LEMMA FlattenAppend ==
    ASSUME NEW S, NEW v \in Seq(Seq(S)), NEW s \in Seq(S)
    PROVE  FlattenSeq(Append(v, s)) = FlattenSeq(v) \o s
<1>1. CASE v = <<>>
  <2>1. Append(v, s) = <<s>> /\ <<>> \o s = s
    BY <1>1, ConcatEmptySeq
  <2> QED
    BY <1>1, <2>1, FlattenOfOne, FlattenEmpty
<1>2. CASE v # <<>>
  <2> DEFINE n == Len(v)
             w == Append(v, s)
  <2>1. /\ n \in Nat \ {0} /\ Len(w) = n + 1 /\ w \in Seq(Seq(S)) /\ w # <<>>
        /\ w[n + 1] = s /\ \A i \in 1..n : v[i] = w[i]
    BY <1>2, AppendProperties, EmptySeq, LenProperties
  <2> HIDE DEF w
  <2>2. PICK f : Joins(f, v) /\ FlattenSeq(v) = f[n]
    BY <1>2, <2>1, JoinsExist, FlattenIsJoin
  <2>3. PICK g : Joins(g, w) /\ FlattenSeq(w) = g[n + 1]
    <3>1. \E g : Joins(g, w)
      BY <2>1, JoinsExist
    <3>2. Len(w) # 0
      BY <2>1
    <3> QED
      BY <2>1, <3>1, <3>2, FlattenIsJoin
  <2>4. f[n] = g[n]
    <3>1. \A i \in 1..n : f[i] = g[i]
      BY <2>2, <2>3, JoinsAgree DEF w
    <3> QED
      BY <2>1, <3>1
  <2>5. g[n + 1] = g[n] \o w[n + 1]
    <3>1. Len(w) \in Nat /\ n + 1 <= Len(w)
      BY <2>1
    <3> QED
      BY <2>1, <2>3, <3>1, JoinNext
  <2> QED
    BY <2>1, <2>2, <2>3, <2>4, <2>5 DEF w
<1> QED
  BY <1>1, <1>2

(* FlattenSeq of sequences over S is one: by induction over its length.     *)
LEMMA FlattenType ==
    ASSUME NEW S, NEW v \in Seq(Seq(S))
    PROVE  FlattenSeq(v) \in Seq(S)
<1>1. CASE v = <<>>
  BY <1>1, FlattenEmpty, EmptySeq
<1>2. CASE v # <<>>
  <2>1. Len(v) \in Nat \ {0} /\ \A i \in 1..Len(v) : v[i] \in Seq(S)
    BY <1>2, EmptySeq, LenProperties, ElementOfSeq
  <2>2. PICK f : Joins(f, v) /\ FlattenSeq(v) = f[Len(v)]
    BY <1>2, <2>1, JoinsExist, FlattenIsJoin
  <2> DEFINE T == {n \in Nat : n \in 1..Len(v) => f[n] \in Seq(S)}
  <2>3. 0 \in T
    OBVIOUS
  <2>4. ASSUME NEW n \in Nat, n \in T PROVE n + 1 \in T
    <3>1. SUFFICES ASSUME n + 1 \in 1..Len(v) PROVE f[n + 1] \in Seq(S)
      OBVIOUS
    <3>2. v[n + 1] \in Seq(S) /\ n + 1 <= Len(v)
      BY <2>1, <3>1
    <3>3. CASE n = 0
      <4>1. f[1] = v[1]
        BY <2>2, <3>1, <3>3, JoinItem
      <4> QED
        BY <3>2, <3>3, <4>1
    <3>4. CASE n # 0
      <4>1. f[n] \in Seq(S)
        BY <2>1, <2>4, <3>2, <3>4
      <4>2. f[n + 1] = f[n] \o v[n + 1]
        BY <2>1, <2>2, <3>2, <3>4, JoinNext
      <4> QED
        BY <3>2, <4>1, <4>2, ConcatProperties
    <3> QED
      BY <3>3, <3>4
  <2> HIDE DEF T
  <2>5. \A n \in Nat : n \in T
    BY <2>3, <2>4, SetInduction
  <2> QED
    BY <2>1, <2>2, <2>5 DEF T
<1> QED
  BY <1>1, <1>2

----------------------------------------------------------------------------
(* Induction over sequences.                                                *)

(* What holds of the empty sequence and survives an item more holds of all. *)
LEMMA SeqInduction ==
    ASSUME NEW S, NEW T, <<>> \in T,
           \A s \in Seq(S), e \in S : s \in T => Append(s, e) \in T
    PROVE  \A s \in Seq(S) : s \in T
<1> DEFINE N == {n \in Nat : \A s \in Seq(S) : Len(s) = n => s \in T}
<1>1. 0 \in N
  BY EmptySeq
<1>2. ASSUME NEW n \in Nat, n \in N PROVE n + 1 \in N
  <2>1. SUFFICES ASSUME NEW s \in Seq(S), Len(s) = n + 1 PROVE s \in T
    OBVIOUS
  <2> DEFINE u == [i \in 1..n |-> s[i]]
  <2>2. s[n + 1] \in S /\ \A i \in 1..n : s[i] \in S
    BY <2>1, ElementOfSeq
  <2>3. u \in Seq(S) /\ Len(u) = n
    BY <2>2
  <2>4. Append(u, s[n + 1]) = s
    <3> DEFINE w == Append(u, s[n + 1])
    <3>1. w \in Seq(S) /\ Len(w) = n + 1 /\ w[n + 1] = s[n + 1] /\ \A i \in 1..n : w[i] = s[i]
      BY <2>2, <2>3, AppendProperties
    <3> HIDE DEF w, u
    <3>2. \A i \in 1..Len(s) : w[i] = s[i]
      BY <2>1, <3>1
    <3> QED
      BY <2>1, <3>1, <3>2, SeqEqual DEF w
  <2>5. u \in T
    BY <1>2, <2>3
  <2> QED
    BY <2>2, <2>3, <2>4, <2>5
<1> HIDE DEF N
<1>3. \A n \in Nat : n \in N
  BY <1>1, <1>2, SetInduction
<1> QED
  BY <1>3, LenProperties DEF N

----------------------------------------------------------------------------
(* Every item of a sequence replaced by the items it stands for.            *)

Expand(g, s) == FlattenSeq([i \in DOMAIN s |-> g[s[i]]])

(* Nothing is replaced by nothing, an item more by its items more.          *)
LEMMA ExpandEmpty == \A g : Expand(g, <<>>) = <<>>
<1>1. \A g : [i \in DOMAIN <<>> |-> g[<<>>[i]]] = <<>>
  OBVIOUS
<1> QED
  BY <1>1, FlattenEmpty DEF Expand

LEMMA ExpandItems ==
    ASSUME NEW S, NEW T, NEW g \in [S -> Seq(T)], NEW s \in Seq(S)
    PROVE  [i \in DOMAIN s |-> g[s[i]]] \in Seq(Seq(T))
<1>1. Len(s) \in Nat /\ DOMAIN s = 1..Len(s) /\ \A i \in 1..Len(s) : s[i] \in S
  BY LenProperties, ElementOfSeq
<1> QED
  BY <1>1

(* The items that stand for those of S are of T.                            *)
LEMMA ExpandType ==
    ASSUME NEW S, NEW T, NEW g \in [S -> Seq(T)], NEW s \in Seq(S)
    PROVE  Expand(g, s) \in Seq(T)
<1> DEFINE v == [i \in DOMAIN s |-> g[s[i]]]
<1>1. v \in Seq(Seq(T))
  BY ExpandItems
<1> HIDE DEF v
<1>2. FlattenSeq(v) \in Seq(T)
  BY <1>1, FlattenType
<1> QED
  BY <1>2 DEF Expand, v

LEMMA ExpandAppend ==
    ASSUME NEW S, NEW T, NEW g \in [S -> Seq(T)], NEW s \in Seq(S), NEW e \in S
    PROVE  Expand(g, Append(s, e)) = Expand(g, s) \o g[e]
<1> DEFINE w == Append(s, e)
           v == [i \in DOMAIN s |-> g[s[i]]]
           u == [i \in DOMAIN w |-> g[w[i]]]
<1>1. /\ Len(s) \in Nat /\ w \in Seq(S) /\ Len(w) = Len(s) + 1 /\ w[Len(s) + 1] = e
      /\ \A i \in 1..Len(s) : w[i] = s[i]
      /\ DOMAIN s = 1..Len(s) /\ DOMAIN w = 1..Len(w)
  BY AppendProperties, LenProperties
<1>2. v \in Seq(Seq(T)) /\ u \in Seq(Seq(T)) /\ g[e] \in Seq(T)
  BY <1>1, ExpandItems
<1>3. Len(v) = Len(s) /\ Len(u) = Len(s) + 1
  BY <1>1
<1> HIDE DEF w
<1>4. (\A i \in 1..Len(s) : u[i] = v[i]) /\ u[Len(s) + 1] = g[e]
  BY <1>1
<1> HIDE DEF u, v
<1>5. u = Append(v, g[e])
  <2> DEFINE x == Append(v, g[e])
  <2>1. /\ x \in Seq(Seq(T)) /\ Len(x) = Len(s) + 1 /\ x[Len(s) + 1] = g[e]
        /\ \A i \in 1..Len(s) : x[i] = v[i]
    BY <1>2, <1>3, AppendProperties
  <2> HIDE DEF x
  <2>2. ASSUME NEW i \in 1..Len(u) PROVE u[i] = x[i]
    <3>1. i \in 1..Len(s) \/ i = Len(s) + 1
      BY <1>1, <1>3
    <3> QED
      BY <1>4, <2>1, <3>1
  <2> QED
    BY <1>2, <1>3, <2>1, <2>2, SeqEqual DEF x
<1>6. FlattenSeq(u) = FlattenSeq(v) \o g[e]
  BY <1>2, <1>5, FlattenAppend
<1> QED
  BY <1>6 DEF Expand, u, v, w

(* An item appended to the second of two.                                   *)
LEMMA ConcatAppend ==
    ASSUME NEW S, NEW s \in Seq(S), NEW t \in Seq(S), NEW e \in S
    PROVE  s \o Append(t, e) = Append(s \o t, e)
OBVIOUS

(* Two sequences one after the other.                                       *)
LEMMA ExpandConcat ==
    ASSUME NEW S, NEW T, NEW g \in [S -> Seq(T)], NEW s \in Seq(S), NEW t \in Seq(S)
    PROVE  Expand(g, s \o t) = Expand(g, s) \o Expand(g, t)
<1> DEFINE H == {x \in Seq(S) : Expand(g, s \o x) = Expand(g, s) \o Expand(g, x)}
<1>1. <<>> \in H
  <2>1. s \o <<>> = s /\ Expand(g, s) \o <<>> = Expand(g, s) /\ <<>> \in Seq(S)
    BY ExpandType, ConcatEmptySeq, EmptySeq
  <2> QED
    BY <2>1, ExpandEmpty
<1>2. ASSUME NEW x \in Seq(S), NEW e \in S, x \in H PROVE Append(x, e) \in H
  <2>1. s \o x \in Seq(S) /\ Append(x, e) \in Seq(S) /\ s \o Append(x, e) = Append(s \o x, e)
    BY ConcatProperties, AppendProperties, ConcatAppend
  <2>2. /\ Expand(g, s \o Append(x, e)) = Expand(g, s \o x) \o g[e]
        /\ Expand(g, Append(x, e)) = Expand(g, x) \o g[e]
    BY <2>1, ExpandAppend
  <2>3. Expand(g, s \o x) = Expand(g, s) \o Expand(g, x)
    BY <1>2
  <2>4. Expand(g, s) \in Seq(T) /\ Expand(g, x) \in Seq(T) /\ g[e] \in Seq(T)
    BY ExpandType
  <2>5. (Expand(g, s) \o Expand(g, x)) \o g[e] = Expand(g, s) \o (Expand(g, x) \o g[e])
    BY SMTT(30), ZenonT(60), <2>4, ConcatAssociative
  <2> QED
    BY <2>1, <2>2, <2>3, <2>5
<1> HIDE DEF H
<1>3. t \in H
  BY <1>1, <1>2, SeqInduction
<1> QED
  BY <1>3 DEF H
=============================================================================
