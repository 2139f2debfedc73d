------------------------------ MODULE PiecesProofs ------------------------------
(***************************************************************************)
(* Theorems about what is cut into pieces and joined again.                *)
(*                                                                         *)
(* TcpConnect, for any messages of any segments, lists or buffers, any     *)
(* room in the send buffer and any number of inputs: what is sent is not   *)
(* lost; it is in order until a Send writes past the queue or a writev     *)
(* takes more than the first segment, and until the latter happens, which  *)
(* repeats bytes, the edge-triggered loop always hears of room for what is *)
(* queued.                                                                 *)
(*                                                                         *)
(* StringUtils, for any strings and delimiters: the two splitters agree,   *)
(* and the pieces, and the parts of a path, make the string again.         *)
(***************************************************************************)
EXTENDS TcpConnect, StringUtils, SequenceTheorems, WellFoundedInduction, TLAPS

-----------------------------------------------------------------------------
(* FlattenSeq joins the segments by a recursive function.  What it is for  *)
(* any number of them is proved by induction, stated here for sets.        *)

\* A nonempty set of natural numbers has a least member.
LEMMA LeastMember ==
  ASSUME NEW T, T \subseteq Nat, T # {}
  PROVE  \E x \in T : \A y \in T : x <= y
<1> DEFINE R == OpToRel(<, Nat)
<1>1. IsWellFoundedOn(R, Nat)
  BY NatLessThanWellFounded
<1>2. \A x, y \in Nat : x < y => <<x, y>> \in R
  BY DEF OpToRel
<1> HIDE DEF R
<1>3. PICK x \in T : \A y \in T : ~ (<<y, x>> \in R)
  BY <1>1, WFMin
<1>4. \A y \in T : y \in Nat /\ ~ (y < x)
  BY <1>2, <1>3
<1>5. x \in Nat
  BY <1>3
<1>6. \A y \in T : x <= y
  BY <1>4, <1>5, SMT
<1> QED
  BY <1>6

\* Induction up to N, for a set: the least number that is not in it cannot be.
LEMMA UpToN ==
  ASSUME NEW N \in Nat, NEW T, 0 \in T,
         \A n \in 0 .. N - 1 : n \in T => n + 1 \in T
  PROVE  \A n \in 0 .. N : n \in T
<1> SUFFICES ASSUME NEW n \in 0 .. N, n \notin T PROVE FALSE
  OBVIOUS
<1> DEFINE U == {k \in 0 .. N : k \notin T}
<1>1. n \in U /\ U \subseteq Nat
  OBVIOUS
<1> HIDE DEF U
<1>2. PICK x \in U : \A y \in U : x <= y
  BY <1>1, LeastMember
<1>3. x \in 0 .. N /\ x \notin T
  BY <1>2 DEF U
<1>4. x # 0
  BY <1>3
<1>5. x - 1 \in 0 .. N - 1 /\ x - 1 \in 0 .. N /\ ~ (x <= x - 1) /\ (x - 1) + 1 = x
  BY <1>3, <1>4, SMT
<1>6. x - 1 \in T
  BY <1>2, <1>5 DEF U
<1>7. (x - 1) + 1 \in T
  BY <1>5, <1>6
<1> QED
  BY <1>3, <1>5, <1>7

\* f joins the first i segments of u, for every i up to n.
Joins(f, u, n) ==
  f = [i \in 1 .. n |-> IF i = 1 THEN u[i] ELSE f[i - 1] \o u[i]]

\* The recursion has a solution, for any number of segments.
LEMMA JoinsExists ==
  ASSUME NEW u, NEW N \in Nat
  PROVE  \E f : Joins(f, u, N)
<1> DEFINE T == {n \in 0 .. N : \E f : Joins(f, u, n)}
<1>1. 0 \in T
  <2>1. Joins([i \in 1 .. 0 |-> 0], u, 0)
    BY DEF Joins
  <2> QED
    BY <2>1
<1>2. ASSUME NEW n \in 0 .. N - 1, n \in T PROVE n + 1 \in T
  <2>1. PICK f : Joins(f, u, n)
    BY <1>2
  <2> DEFINE g == [i \in 1 .. n + 1 |-> IF i = 1 THEN u[i] ELSE f[i - 1] \o u[i]]
  <2>2. ASSUME NEW i \in 1 .. n PROVE g[i] = f[i]
    <3>1. i \in 1 .. n + 1
      OBVIOUS
    <3>2. f[i] = IF i = 1 THEN u[i] ELSE f[i - 1] \o u[i]
      BY <2>1 DEF Joins
    <3> QED
      BY <3>1, <3>2
  <2>3. ASSUME NEW i \in 1 .. n + 1 PROVE g[i] = IF i = 1 THEN u[i] ELSE g[i - 1] \o u[i]
    <3>1. CASE i = 1
      BY <3>1
    <3>2. CASE i # 1
      <4>1. i - 1 \in 1 .. n
        BY <3>2
      <4>2. g[i - 1] = f[i - 1]
        BY <2>2, <4>1
      <4>3. g[i] = f[i - 1] \o u[i]
        BY <3>2
      <4> QED
        BY <3>2, <4>2, <4>3
    <3> QED
      BY <3>1, <3>2
  <2>4. DOMAIN g = 1 .. n + 1 /\ g = [i \in 1 .. n + 1 |-> g[i]]
    OBVIOUS
  <2> HIDE DEF g
  <2>5. Joins(g, u, n + 1)
    BY <2>3, <2>4 DEF Joins
  <2>6. n + 1 \in 0 .. N
    OBVIOUS
  <2> QED
    BY <2>5, <2>6
<1> HIDE DEF T
<1>3. \A n \in 0 .. N : n \in T
  BY <1>1, <1>2, UpToN
<1>4. N \in T
  BY <1>3
<1> QED
  BY <1>4 DEF T

\* What FlattenSeq is made of.
Flattened(u) == CHOOSE f : Joins(f, u, Len(u))

\* FlattenSeq is its last element.
LEMMA FlattenedFacts ==
  ASSUME NEW S, NEW u \in Seq(S)
  PROVE  /\ u # <<>> => FlattenSeq(u) = Flattened(u)[Len(u)] /\ Flattened(u)[1] = u[1]
         /\ \A i \in 2 .. Len(u) : Flattened(u)[i] = Flattened(u)[i - 1] \o u[i]
<1>1. Len(u) \in Nat /\ (u # <<>> => Len(u) # 0)
  BY EmptySeq, LenProperties
<1>2. Joins(Flattened(u), u, Len(u))
  BY <1>1, JoinsExists DEF Flattened
<1> DEFINE f == Flattened(u)
<1>3. u # <<>> => FlattenSeq(u) = Flattened(u)[Len(u)]
  BY <1>1 DEF FlattenSeq, Flattened, Joins
<1> HIDE DEF f
<1>4. f = [i \in 1 .. Len(u) |-> IF i = 1 THEN u[i] ELSE f[i - 1] \o u[i]]
  BY <1>2 DEF Joins, f
<1>5. u # <<>> => f[1] = u[1]
  <2>1. u # <<>> => 1 \in 1 .. Len(u)
    BY <1>1
  <2> QED
    BY <2>1, <1>4
<1>6. ASSUME NEW i \in 2 .. Len(u) PROVE f[i] = f[i - 1] \o u[i]
  <2>1. i \in 1 .. Len(u) /\ i # 1
    BY <1>1
  <2> QED
    BY <2>1, <1>4
<1> QED
  BY <1>3, <1>5, <1>6 DEF f

\* Nothing joined is nothing.
LEMMA FlattenEmpty == FlattenSeq(<<>>) = <<>>
  BY DEF FlattenSeq

\* One segment joined is that segment.
LEMMA FlattenOne ==
  ASSUME NEW S, NEW x \in S
  PROVE  FlattenSeq(<<x>>) = x
<1>1. <<x>> \in Seq(S) /\ <<x>> # <<>> /\ Len(<<x>>) = 1 /\ <<x>>[1] = x
  OBVIOUS
<1> QED
  BY <1>1, FlattenedFacts

\* Bytes joined are bytes.
LEMMA FlattenedType ==
  ASSUME NEW S, NEW u \in Seq(Seq(S)), NEW i \in 1 .. Len(u)
  PROVE  Flattened(u)[i] \in Seq(S)
<1>0. Len(u) \in Nat /\ u # <<>>
  BY LenProperties
<1> DEFINE T == {n \in 0 .. Len(u) : n # 0 => Flattened(u)[n] \in Seq(S)}
<1>1. 0 \in T
  BY <1>0
<1>2. ASSUME NEW n \in 0 .. Len(u) - 1, n \in T PROVE n + 1 \in T
  <2>1. n + 1 \in 1 .. Len(u) /\ u[n + 1] \in Seq(S)
    BY <1>0, ElementOfSeq
  <2>2. CASE n = 0
    <3>1. Flattened(u)[1] = u[1]
      BY <1>0, FlattenedFacts
    <3> QED
      BY <2>1, <2>2, <3>1
  <2>3. CASE n # 0
    <3>1. n + 1 \in 2 .. Len(u) /\ (n + 1) - 1 = n
      BY <1>0, <2>3
    <3>2. Flattened(u)[n + 1] = Flattened(u)[n] \o u[n + 1]
      BY <3>1, FlattenedFacts
    <3>3. Flattened(u)[n] \in Seq(S)
      BY <1>2, <2>3
    <3>4. Flattened(u)[n] \o u[n + 1] \in Seq(S)
      BY <2>1, <3>3, ConcatProperties
    <3>5. n + 1 \in 0 .. Len(u) /\ Flattened(u)[n + 1] \in Seq(S)
      BY <2>1, <3>2, <3>4
    <3> QED
      BY <3>5
  <2> QED
    BY <2>2, <2>3
<1> HIDE DEF T
<1>3. \A n \in 0 .. Len(u) : n \in T
  BY <1>0, <1>1, <1>2, UpToN
<1>4. i \in T
  BY <1>0, <1>3
<1> QED
  BY <1>4 DEF T

\* The same of FlattenSeq.
LEMMA FlattenType ==
  ASSUME NEW S, NEW u \in Seq(Seq(S))
  PROVE  FlattenSeq(u) \in Seq(S)
<1>1. CASE u = <<>>
  BY <1>1, FlattenEmpty, EmptySeq
<1>2. CASE u # <<>>
  <2>1. Len(u) \in 1 .. Len(u)
    BY <1>2, EmptySeq, LenProperties
  <2> QED
    BY <1>2, <2>1, FlattenedFacts, FlattenedType
<1> QED
  BY <1>1, <1>2

Associative(S) == \A x, y, z \in Seq(S) : (x \o y) \o z = x \o (y \o z)

\* As a formula that can be expanded where it is needed.
LEMMA ConcatIsAssociative == ASSUME NEW S PROVE Associative(S)
<1> SUFFICES ASSUME NEW x \in Seq(S), NEW y \in Seq(S), NEW z \in Seq(S)
             PROVE  (x \o y) \o z = x \o (y \o z)
  BY DEF Associative
<1> QED
  BY ConcatAssociative

\* The first segments are joined alike, whatever follows.
LEMMA FlattenedLeft ==
  ASSUME NEW S, NEW u \in Seq(Seq(S)), NEW t \in Seq(Seq(S)), NEW i \in 1 .. Len(u)
  PROVE  Flattened(u \o t)[i] = Flattened(u)[i]
<1>0. /\ Len(u) \in Nat /\ Len(t) \in Nat /\ u # <<>> /\ u \o t \in Seq(Seq(S))
      /\ Len(u \o t) = Len(u) + Len(t) /\ u \o t # <<>>
      /\ \A j \in 1 .. Len(u) : (u \o t)[j] = u[j]
  BY LenProperties, ConcatProperties
<1> DEFINE T == {n \in 0 .. Len(u) : n # 0 => Flattened(u \o t)[n] = Flattened(u)[n]}
<1>1. 0 \in T
  BY <1>0
<1>2. ASSUME NEW n \in 0 .. Len(u) - 1, n \in T PROVE n + 1 \in T
  <2>1. n + 1 \in 1 .. Len(u) /\ n + 1 \in 1 .. Len(u \o t)
    BY <1>0
  <2>2. Flattened(u \o t)[n + 1] = Flattened(u)[n + 1]
    <3>1. CASE n = 0
      <4>1. Flattened(u \o t)[1] = (u \o t)[1] /\ Flattened(u)[1] = u[1]
        BY <1>0, FlattenedFacts
      <4>2. n + 1 = 1 /\ (u \o t)[1] = u[1]
        BY <1>0, <2>1, <3>1
      <4> QED
        BY <4>1, <4>2
    <3>2. CASE n # 0
      <4>1. n + 1 \in 2 .. Len(u) /\ n + 1 \in 2 .. Len(u \o t) /\ (n + 1) - 1 = n
        BY <1>0, <3>2
      <4>2. /\ Flattened(u)[n + 1] = Flattened(u)[n] \o u[n + 1]
            /\ Flattened(u \o t)[n + 1] = Flattened(u \o t)[n] \o (u \o t)[n + 1]
        BY <1>0, <4>1, FlattenedFacts
      <4>3. Flattened(u \o t)[n] = Flattened(u)[n] /\ (u \o t)[n + 1] = u[n + 1]
        BY <1>0, <1>2, <2>1, <3>2
      <4> QED
        BY <4>2, <4>3
    <3> QED
      BY <3>1, <3>2
  <2>3. n + 1 \in 0 .. Len(u)
    BY <1>0
  <2> QED
    BY <2>2, <2>3
<1> HIDE DEF T
<1>3. \A n \in 0 .. Len(u) : n \in T
  BY <1>0, <1>1, <1>2, UpToN
<1>4. i \in T /\ i # 0
  BY <1>0, <1>3
<1> QED
  BY <1>4 DEF T

\* What follows is joined to what came before.
LEMMA FlattenedRight ==
  ASSUME NEW S, NEW u \in Seq(Seq(S)), NEW t \in Seq(Seq(S)), u # <<>>, NEW i \in 1 .. Len(t)
  PROVE  Flattened(u \o t)[Len(u) + i] = Flattened(u)[Len(u)] \o Flattened(t)[i]
<1> DEFINE base == Flattened(u)[Len(u)]
<1>0. /\ Len(u) \in Nat \ {0} /\ Len(t) \in Nat /\ t # <<>> /\ u \o t \in Seq(Seq(S))
      /\ Len(u \o t) = Len(u) + Len(t) /\ u \o t # <<>>
      /\ \A j \in 1 .. Len(t) : (u \o t)[Len(u) + j] = t[j]
  BY LenProperties, ConcatProperties, EmptySeq
<1>a. Flattened(u \o t)[Len(u)] = base /\ base \in Seq(S)
  BY <1>0, FlattenedLeft, FlattenedType
<1>b. \A j \in 1 .. Len(t) : Flattened(u \o t)[Len(u) + j] = Flattened(u \o t)[(Len(u) + j) - 1] \o t[j]
  <2> SUFFICES ASSUME NEW j \in 1 .. Len(t)
               PROVE  Flattened(u \o t)[Len(u) + j] = Flattened(u \o t)[(Len(u) + j) - 1] \o t[j]
    OBVIOUS
  <2>1. Len(u) + j \in 2 .. Len(u \o t) /\ (u \o t)[Len(u) + j] = t[j]
    BY <1>0
  <2>2. \A k \in 2 .. Len(u \o t) : Flattened(u \o t)[k] = Flattened(u \o t)[k - 1] \o (u \o t)[k]
    BY <1>0, FlattenedFacts
  <2> DEFINE k == Len(u) + j
  <2> HIDE DEF k
  <2>3. k \in 2 .. Len(u \o t) /\ (u \o t)[k] = t[j]
    BY <2>1 DEF k
  <2>4. Flattened(u \o t)[k] = Flattened(u \o t)[k - 1] \o t[j]
    BY <2>2, <2>3
  <2> QED
    BY <2>4 DEF k
<1> HIDE DEF base
<1>c. \A n \in 1 .. Len(t) : n + 1 \in 1 .. Len(t) =>
        (base \o Flattened(t)[n]) \o t[n + 1] = base \o (Flattened(t)[n] \o t[n + 1])
  <2> SUFFICES ASSUME NEW n \in 1 .. Len(t), n + 1 \in 1 .. Len(t)
               PROVE  (base \o Flattened(t)[n]) \o t[n + 1] = base \o (Flattened(t)[n] \o t[n + 1])
    OBVIOUS
  <2> DEFINE x == Flattened(t)[n]
             y == t[n + 1]
  <2>1. x \in Seq(S) /\ y \in Seq(S)
    BY FlattenedType, ElementOfSeq
  <2> HIDE DEF x, y
  <2>2. Associative(S) /\ base \in Seq(S)
    BY <1>a, ConcatIsAssociative
  <2>3. (base \o x) \o y = base \o (x \o y)
    BY <2>1, <2>2, Zenon DEF Associative
  <2> QED
    BY <2>3 DEF x, y
<1> DEFINE T == {n \in 0 .. Len(t) : n # 0 => Flattened(u \o t)[Len(u) + n] = base \o Flattened(t)[n]}
<1>1. 0 \in T
  BY <1>0
<1>2. ASSUME NEW n \in 0 .. Len(t) - 1, n \in T PROVE n + 1 \in T
  <2>1. n + 1 \in 1 .. Len(t) /\ (Len(u) + (n + 1)) - 1 = Len(u) + n /\ n + 1 \in 0 .. Len(t)
    BY <1>0
  <2>2. Flattened(u \o t)[Len(u) + (n + 1)] = Flattened(u \o t)[Len(u) + n] \o t[n + 1]
    BY <1>b, <2>1
  <2>3. Flattened(u \o t)[Len(u) + (n + 1)] = base \o Flattened(t)[n + 1]
    <3>1. CASE n = 0
      <4>1. Flattened(t)[1] = t[1]
        BY <1>0, FlattenedFacts
      <4>2. Len(u) + n = Len(u) /\ n + 1 = 1
        BY <1>0, <3>1
      <4> QED
        BY <1>a, <2>2, <4>1, <4>2
    <3>2. CASE n # 0
      <4>1. n + 1 \in 2 .. Len(t) /\ (n + 1) - 1 = n /\ n \in 1 .. Len(t)
        BY <1>0, <3>2
      <4>2. Flattened(t)[n + 1] = Flattened(t)[n] \o t[n + 1]
        BY <1>0, <4>1, FlattenedFacts
      <4>3. Flattened(u \o t)[Len(u) + n] = base \o Flattened(t)[n]
        BY <1>2, <3>2
      <4>4. (base \o Flattened(t)[n]) \o t[n + 1] = base \o (Flattened(t)[n] \o t[n + 1])
        BY <1>c, <2>1, <4>1
      <4> QED
        BY <2>2, <4>2, <4>3, <4>4
    <3> QED
      BY <3>1, <3>2
  <2> QED
    BY <2>1, <2>3
<1> HIDE DEF T
<1>3. \A n \in 0 .. Len(t) : n \in T
  BY <1>0, <1>1, <1>2, UpToN
<1>4. i \in T /\ i # 0
  BY <1>0, <1>3
<1> QED
  BY <1>4 DEF T, base

\* Queueing more segments appends their bytes.
LEMMA FlattenConcat ==
  ASSUME NEW S, NEW u \in Seq(Seq(S)), NEW t \in Seq(Seq(S))
  PROVE  FlattenSeq(u \o t) = FlattenSeq(u) \o FlattenSeq(t)
<1>0. FlattenSeq(u) \in Seq(S) /\ FlattenSeq(t) \in Seq(S)
  BY FlattenType
<1>1. CASE u = <<>>
  <2>1. u \o t = t
    BY <1>1, ConcatEmptySeq
  <2>2. <<>> \o FlattenSeq(t) = FlattenSeq(t)
    BY <1>0, ConcatEmptySeq
  <2> QED
    BY <1>1, <2>1, <2>2, FlattenEmpty
<1>2. CASE t = <<>>
  <2>1. u \o t = u
    BY <1>2, ConcatEmptySeq
  <2>2. FlattenSeq(u) \o <<>> = FlattenSeq(u)
    BY <1>0, ConcatEmptySeq
  <2> QED
    BY <1>2, <2>1, <2>2, FlattenEmpty
<1>3. CASE u # <<>> /\ t # <<>>
  <2>1. /\ Len(t) \in 1 .. Len(t) /\ u \o t \in Seq(Seq(S)) /\ u \o t # <<>>
        /\ Len(u \o t) = Len(u) + Len(t)
    BY <1>3, EmptySeq, LenProperties, ConcatProperties, ConcatEqualIffEmpty
  <2>2. Flattened(u \o t)[Len(u) + Len(t)] = Flattened(u)[Len(u)] \o Flattened(t)[Len(t)]
    BY <1>3, <2>1, FlattenedRight
  <2>3. FlattenSeq(u \o t) = Flattened(u \o t)[Len(u) + Len(t)]
    BY <2>1, FlattenedFacts
  <2>4. FlattenSeq(u) = Flattened(u)[Len(u)] /\ FlattenSeq(t) = Flattened(t)[Len(t)]
    BY <1>3, FlattenedFacts
  <2> QED
    BY <2>2, <2>3, <2>4
<1> QED
  BY <1>1, <1>2, <1>3

-----------------------------------------------------------------------------
(* Sequences and their members.                                            *)

\* The members of a concatenation.
LEMMA ToSetConcat ==
  ASSUME NEW S, NEW u \in Seq(S), NEW t \in Seq(S)
  PROVE  ToSet(u \o t) = ToSet(u) \cup ToSet(t)
<1>1. ToSet(u \o t) = Range(u \o t)
  BY DEF ToSet, Range
<1>2. ToSet(u) = Range(u) /\ ToSet(t) = Range(t)
  BY DEF ToSet, Range
<1> QED
  BY <1>1, <1>2, RangeConcatenation

\* The members of a sequence.
LEMMA ToSetMember ==
  ASSUME NEW S, NEW u \in Seq(S)
  PROVE  /\ \A x : x \in ToSet(u) <=> \E i \in 1 .. Len(u) : x = u[i]
         /\ ToSet(u) \subseteq S
<1>1. DOMAIN u = 1 .. Len(u)
  BY LenProperties
<1>2. \A i \in 1 .. Len(u) : u[i] \in S
  BY ElementOfSeq
<1> QED
  BY <1>1, <1>2 DEF ToSet

\* A sequence cut in two.
LEMMA Cut ==
  ASSUME NEW S, NEW bs \in Seq(S), NEW n \in 0 .. Len(bs)
  PROVE  /\ SubSeq(bs, 1, n) \in Seq(S) /\ SubSeq(bs, n + 1, Len(bs)) \in Seq(S)
         /\ SubSeq(bs, 1, n) \o SubSeq(bs, n + 1, Len(bs)) = bs
         /\ n < Len(bs) => SubSeq(bs, n + 1, Len(bs)) # <<>>
<1>0. Len(bs) \in Nat /\ \A i \in 1 .. Len(bs) : bs[i] \in S
  BY LenProperties, ElementOfSeq
<1>1. n \in Int /\ n + 1 \in Int /\ 1 \in Int /\ Len(bs) \in Int
  BY <1>0
<1>2. \A i \in 1 .. n : bs[i] \in S
  BY <1>0
<1>3. \A i \in n + 1 .. Len(bs) : bs[i] \in S
  BY <1>0
<1>4. SubSeq(bs, 1, n) \in Seq(S)
  BY <1>1, <1>2, SubSeqProperties
<1>5. /\ SubSeq(bs, n + 1, Len(bs)) \in Seq(S)
      /\ Len(SubSeq(bs, n + 1, Len(bs))) = IF n + 1 <= Len(bs) THEN (Len(bs) - (n + 1)) + 1 ELSE 0
  BY <1>1, <1>3, SubSeqProperties
<1>6. SubSeq(bs, 1, n) \o SubSeq(bs, n + 1, Len(bs)) = bs
  <2>1. SubSeq(bs, 1, n) \o SubSeq(bs, n + 1, Len(bs)) = SubSeq(bs, 1, Len(bs))
    <3>1. 1 \in 1 .. Len(bs) + 1 /\ n \in 1 - 1 .. Len(bs) /\ Len(bs) \in n .. Len(bs)
      BY <1>0
    <3> QED
      BY <3>1, ConcatAdjacentSubSeq
  <2> QED
    BY <2>1, SubSeqFull
<1>7. n < Len(bs) => SubSeq(bs, n + 1, Len(bs)) # <<>>
  <2> SUFFICES ASSUME n < Len(bs) PROVE Len(SubSeq(bs, n + 1, Len(bs))) # 0
    BY EmptySeq
  <2> QED
    BY <1>0, <1>5
<1> QED
  BY <1>4, <1>5, <1>6, <1>7

\* A sequence is a prefix of what it is extended to.
LEMMA PrefixOfConcat ==
  ASSUME NEW S, NEW u \in Seq(S), NEW t \in Seq(S)
  PROVE  IsPrefix(u, u \o t)
<1>1. Len(u) \in Nat /\ Len(t) \in Nat /\ Len(u \o t) = Len(u) + Len(t)
  BY LenProperties, ConcatProperties
<1>2. SubSeq(u, 1, Len(u)) = u
  BY SubSeqFull
<1>3. SubSeq(u \o t, 1, Len(u)) = u
  <2>1. CASE u = <<>>
    <3>1. Len(u) = 0
      BY <2>1
    <3>2. SubSeq(u \o t, 1, 0) = <<>>
      BY SubSeqEmpty
    <3> QED
      BY <2>1, <3>1, <3>2
  <2>2. CASE u # <<>>
    <3>1. 1 \in 1 .. Len(u) /\ Len(u) \in 1 .. Len(u)
      BY <1>1, <2>2, EmptySeq
    <3>2. SubSeq(u \o t, 1, Len(u)) = SubSeq(u, 1, Len(u))
      BY <3>1, SubSeqOfConcat1
    <3> QED
      BY <1>2, <3>2
  <2> QED
    BY <2>1, <2>2
<1>4. Len(u) <= Len(u \o t)
  BY <1>1
<1> QED
  BY <1>2, <1>3, <1>4 DEF IsPrefix

\* A sequence is its head and its tail.
LEMMA HeadFirst ==
  ASSUME NEW S, NEW u \in Seq(S), u # <<>>
  PROVE  /\ Head(u) \in S /\ <<Head(u)>> \in Seq(S) /\ Tail(u) \in Seq(S)
         /\ u = <<Head(u)>> \o Tail(u)
         /\ Len(Tail(u)) = Len(u) - 1
<1>1. Len(u) \in Nat \ {0}
  BY EmptySeq
<1>2. /\ Head(u) \in S /\ Tail(u) \in Seq(S) /\ Len(Tail(u)) = Len(u) - 1
      /\ \A i \in 1 .. Len(Tail(u)) : Tail(u)[i] = u[i + 1]
  BY HeadTailProperties
<1>3. <<Head(u)>> \in Seq(S)
  BY <1>2
<1>4. 1 \in 1 .. Len(u) /\ Len(u) \in 1 .. Len(u)
  BY <1>1
<1>5. SubSeq(u, 1, Len(u)) = <<u[1]>> \o SubSeq(u, 1 + 1, Len(u))
  BY <1>4, SubSeqRecursiveFirst
<1>6. SubSeq(u, 1, Len(u)) = u /\ Tail(u) = SubSeq(u, 2, Len(u))
  BY SubSeqFull, TailIsSubSeq
<1>7. Head(u) = u[1] /\ 1 + 1 = 2
  OBVIOUS
<1>8. u = <<Head(u)>> \o Tail(u)
  BY <1>5, <1>6, <1>7
<1> QED
  BY <1>2, <1>3, <1>8

\* The bytes of the first segment come first.
LEMMA FlattenHead ==
  ASSUME NEW S, NEW u \in Seq(Seq(S)), u # <<>>
  PROVE  /\ Head(u) \in Seq(S) /\ FlattenSeq(Tail(u)) \in Seq(S)
         /\ FlattenSeq(u) = Head(u) \o FlattenSeq(Tail(u))
<1>1. /\ Head(u) \in Seq(S) /\ <<Head(u)>> \in Seq(Seq(S)) /\ Tail(u) \in Seq(Seq(S))
      /\ u = <<Head(u)>> \o Tail(u)
  BY HeadFirst
<1>2. FlattenSeq(<<Head(u)>>) = Head(u)
  BY <1>1, FlattenOne
<1>3. FlattenSeq(<<Head(u)>> \o Tail(u)) = FlattenSeq(<<Head(u)>>) \o FlattenSeq(Tail(u))
  BY <1>1, FlattenConcat
<1>4. FlattenSeq(Tail(u)) \in Seq(S)
  BY <1>1, FlattenType
<1> QED
  BY <1>1, <1>2, <1>3, <1>4

\* The smaller of two numbers.
LEMMA MinOfTwo ==
  ASSUME NEW a \in Int, NEW b \in Int
  PROVE  Min({a, b}) = IF a <= b THEN a ELSE b
<1> DEFINE m == IF a <= b THEN a ELSE b
<1>1. m \in {a, b} /\ \A y \in {a, b} : m <= y
  OBVIOUS
<1>2. ASSUME NEW x \in {a, b}, \A y \in {a, b} : x <= y PROVE x = m
  BY <1>2
<1> HIDE DEF m
<1>3. Min({a, b}) = m
  BY <1>1, <1>2 DEF Min
<1> QED
  BY <1>3 DEF m

-----------------------------------------------------------------------------
(* The socket.                                                             *)

\* What a socket may be.
Sockets == [room : 0 .. SendRoom, nospace : BOOLEAN, in : BOOLEAN, eof : BOOLEAN, err : BOOLEAN]

\* A write takes no more than there is, nor than fits, and less than there is only when
\* it fills the buffer.
LEMMA TakenFacts ==
  ASSUME NEW S, NEW bs \in Seq(S), sock \in Sockets
  PROVE  /\ Taken(bs) \in 0 .. Len(bs) /\ Taken(bs) <= sock.room
         /\ Taken(bs) < Len(bs) => Taken(bs) = sock.room
         /\ Taken(bs) = 0 => sock.room = 0 \/ Len(bs) = 0
<1>1. Len(bs) \in Nat /\ sock.room \in Nat
  BY LenProperties, CallersAssumption DEF Sockets
<1>2. Taken(bs) = IF Len(bs) <= sock.room THEN Len(bs) ELSE sock.room
  BY <1>1, MinOfTwo DEF Taken
<1> QED
  BY <1>1, <1>2

\* The socket after it.
LEMMA AfterWriteFacts ==
  ASSUME NEW S, NEW bs \in Seq(S), sock \in Sockets
  PROVE  /\ AfterWrite(bs) \in Sockets
         /\ AfterWrite(bs).room = sock.room - Taken(bs)
         /\ AfterWrite(bs).nospace = (sock.nospace \/ Taken(bs) < Len(bs))
         /\ AfterWrite(bs).in = sock.in /\ AfterWrite(bs).eof = sock.eof
         /\ AfterWrite(bs).err = sock.err
<1>1. sock.room \in 0 .. SendRoom /\ SendRoom \in Nat
  BY CallersAssumption DEF Sockets
<1>2. Taken(bs) \in Nat /\ Taken(bs) <= sock.room
  BY TakenFacts, LenProperties
<1>3. sock.room - Taken(bs) \in 0 .. SendRoom
  BY <1>1, <1>2
<1>4. (sock.nospace \/ Taken(bs) < Len(bs)) \in BOOLEAN
  OBVIOUS
<1> QED
  BY <1>3, <1>4 DEF AfterWrite, Sockets

\* The socket after its events were asked for.
LEMMA PolledFacts ==
  ASSUME NEW u \in Sockets
  PROVE  /\ Polled(u) \in Sockets
         /\ Polled(u).room = u.room
         /\ Polled(u).nospace = (u.nospace \/ u.room = 0)
         /\ Polled(u).in = u.in /\ Polled(u).eof = u.eof /\ Polled(u).err = u.err
<1>1. (u.nospace \/ u.room = 0) \in BOOLEAN
  OBVIOUS
<1> QED
  BY <1>1 DEF Polled, Sockets

\* Segments are bytes, and the messages are made of them.
LEMMA SegmentsFacts ==
  /\ Segments \subseteq Seq(Everything)
  /\ \A q : q \in Seq(Segments) => q \in Seq(Seq(Everything))
  /\ \A u \in Seq(Everything) : u # <<>> => u \in Segments
  /\ \A m \in Messages : Text[m] \in Seq(Segments)
<1>1. Segments \subseteq Seq(Everything) /\ \A u \in Seq(Everything) : u # <<>> => u \in Segments
  BY DEF Segments
<1>2. ASSUME NEW q, q \in Seq(Segments) PROVE q \in Seq(Seq(Everything))
  BY <1>1, <1>2, SeqMonotonic
<1>3. ASSUME NEW m \in Messages PROVE Text[m] \in Seq(Segments)
  <2> DEFINE q == Text[m]
  <2>1. q \in Seq(Seq(Everything)) /\ (m \notin Lists => <<>> \notin ToSet(q))
    BY TextAssumption
  <2>2. m \in Lists => ToSet(q) \subseteq UNION {ToSet(Text[l]) : l \in Lists}
    OBVIOUS
  <2> HIDE DEF q
  <2>3. Len(q) \in Nat /\ q \in [1 .. Len(q) -> Seq(Everything)]
    BY <2>1, LenProperties
  <2>4. ASSUME NEW i \in 1 .. Len(q) PROVE q[i] \in Segments
    <3>1. q[i] \in Seq(Everything) /\ q[i] \in ToSet(q)
      BY <2>1, <2>3, ElementOfSeq DEF ToSet
    <3> QED
      BY <2>1, <2>2, <3>1 DEF Segments
  <2>5. q \in [1 .. Len(q) -> Segments]
    BY <2>3, <2>4
  <2>6. q \in Seq(Segments)
    BY <2>3, <2>5, SeqDef
  <2> QED
    BY <2>6 DEF q
<1> QED
  BY <1>1, <1>2, <1>3

-----------------------------------------------------------------------------
(* What OnWrite keeps of the queue.                                        *)

\* What is queued, as one sequence of bytes.
Queued == FlattenSeq(mIovecList)

\* A write that ends in the first segment: the bytes written and what is left are what
\* was queued.
LEMMA LeftLong ==
  ASSUME mIovecList \in Seq(Segments), mIovecList # <<>>, NEW n \in 1 .. Len(Queued),
         Len(Head(mIovecList)) > n
  PROVE  /\ Left(n) \in Seq(Segments)
         /\ Queued = SubSeq(Queued, 1, n) \o FlattenSeq(Left(n))
<1> DEFINE h == Head(mIovecList)
           rest == Tail(mIovecList)
           last == SubSeq(h, n + 1, Len(h))
<1>1. mIovecList \in Seq(Seq(Everything))
  BY SegmentsFacts
<1>2. /\ h \in Segments /\ rest \in Seq(Segments) /\ rest \in Seq(Seq(Everything))
      /\ Len(rest) = Len(mIovecList) - 1 /\ Len(mIovecList) \in Nat
  BY <1>1, HeadFirst, SegmentsFacts, LenProperties
<1>3. /\ h \in Seq(Everything) /\ FlattenSeq(rest) \in Seq(Everything)
      /\ Queued = h \o FlattenSeq(rest)
  BY <1>1, FlattenHead DEF Queued
<1>4. Left(n) = <<last>> \o rest /\ Len(h) > n
  BY DEF Left
<1> HIDE DEF h, rest
<1>5. Len(h) \in Nat /\ n \in 0 .. Len(h) /\ n < Len(h) /\ n \in 1 .. Len(h) /\ 1 \in 1 .. Len(h)
  <2>1. Len(h) \in Nat /\ n \in Int /\ 1 <= n
    BY <1>3, LenProperties
  <2> QED
    BY <1>4, <2>1
<1>6. /\ SubSeq(h, 1, n) \in Seq(Everything) /\ last \in Seq(Everything)
      /\ SubSeq(h, 1, n) \o last = h /\ last # <<>>
  BY <1>3, <1>5, Cut
<1> HIDE DEF last
<1>7. last \in Segments
  BY <1>6, SegmentsFacts
<1>8. <<last>> \in Seq(Segments) /\ <<last>> \in Seq(Seq(Everything)) /\ Len(<<last>>) = 1
  BY <1>6, <1>7
<1>9. Left(n) \in Seq(Segments)
  BY <1>2, <1>4, <1>8, ConcatProperties
<1>10. FlattenSeq(Left(n)) = last \o FlattenSeq(rest)
  BY <1>2, <1>4, <1>6, <1>8, FlattenConcat, FlattenOne
<1>11. SubSeq(Queued, 1, n) = SubSeq(h, 1, n)
  BY <1>3, <1>5, SubSeqOfConcat1
<1>12. Queued = SubSeq(h, 1, n) \o (last \o FlattenSeq(rest))
  <2>1. Associative(Everything)
    BY ConcatIsAssociative
  <2>2. (SubSeq(h, 1, n) \o last) \o FlattenSeq(rest) = SubSeq(h, 1, n) \o (last \o FlattenSeq(rest))
    BY <1>3, <1>6, <2>1, Zenon DEF Associative
  <2> QED
    BY <1>3, <1>6, <2>2
<1> QED
  BY <1>9, <1>10, <1>11, <1>12

\* A write that takes the first segment or more: what it took of the others is still
\* queued.
LEMMA LeftShort ==
  ASSUME mIovecList \in Seq(Segments), mIovecList # <<>>, NEW n \in 1 .. Len(Queued),
         ~ Len(Head(mIovecList)) > n
  PROVE  /\ Left(n) \in Seq(Segments)
         /\ ToSet(Queued) \subseteq ToSet(SubSeq(Queued, 1, n)) \cup ToSet(FlattenSeq(Left(n)))
         /\ n = Len(Head(mIovecList)) => Queued = SubSeq(Queued, 1, n) \o FlattenSeq(Left(n))
         /\ n > Len(Head(mIovecList)) => Len(Queued) < n + Len(FlattenSeq(Left(n)))
<1> DEFINE h == Head(mIovecList)
           rest == Tail(mIovecList)
<1>1. mIovecList \in Seq(Seq(Everything))
  BY SegmentsFacts
<1>2. rest \in Seq(Segments) /\ rest \in Seq(Seq(Everything))
  BY <1>1, HeadFirst, SegmentsFacts
<1>3. /\ h \in Seq(Everything) /\ FlattenSeq(rest) \in Seq(Everything)
      /\ Queued = h \o FlattenSeq(rest) /\ Queued \in Seq(Everything)
  BY <1>1, FlattenHead, FlattenType DEF Queued
<1>4. Left(n) = rest /\ ~ Len(h) > n
  BY DEF Left
<1> HIDE DEF h, rest
<1>5. Len(h) \in Nat /\ Len(h) <= n /\ Len(Queued) \in Nat /\ n \in 0 .. Len(Queued) /\ n \in Int
  <2>1. Len(h) \in Nat /\ Len(Queued) \in Nat
    BY <1>3, LenProperties
  <2> QED
    BY <1>4, <2>1
<1>6. ToSet(Queued) = ToSet(h) \cup ToSet(FlattenSeq(rest))
  BY <1>3, ToSetConcat
<1>7. ToSet(h) \subseteq ToSet(SubSeq(Queued, 1, n))
  <2>1. ASSUME NEW i \in 1 .. Len(h) PROVE h[i] \in ToSet(SubSeq(Queued, 1, n))
    <3>1. Queued[i] = h[i] /\ i \in 1 .. n
      BY <1>3, <1>5, ConcatProperties
    <3>2. /\ \A j \in 1 .. n : Queued[j] \in Everything
          /\ SubSeq(Queued, 1, n) \in Seq(Everything)
      BY <1>3, <1>5, ElementOfSeq, Cut
    <3>3. /\ Len(SubSeq(Queued, 1, n)) = n
          /\ SubSeq(Queued, 1, n)[i] = Queued[i]
      BY <1>5, <3>1, <3>2
    <3> QED
      BY <3>1, <3>2, <3>3, ToSetMember
  <2> QED
    BY <1>3, <2>1, ToSetMember
<1>8. ASSUME n = Len(h) PROVE Queued = SubSeq(Queued, 1, n) \o FlattenSeq(rest)
  <2>1. n \in 1 .. Len(h) /\ 1 \in 1 .. Len(h)
    BY <1>5, <1>8
  <2>2. SubSeq(Queued, 1, n) = SubSeq(h, 1, n)
    BY <1>3, <2>1, SubSeqOfConcat1
  <2>3. SubSeq(h, 1, n) = h
    BY <1>3, <1>8, SubSeqFull
  <2> QED
    BY <1>3, <2>2, <2>3
<1>9. ASSUME n > Len(h) PROVE Len(Queued) < n + Len(FlattenSeq(rest))
  <2>1. Len(Queued) = Len(h) + Len(FlattenSeq(rest)) /\ Len(FlattenSeq(rest)) \in Nat
    BY <1>3, ConcatProperties, LenProperties
  <2> QED
    BY <1>5, <1>9, <2>1
<1> QED
  BY <1>2, <1>4, <1>6, <1>7, <1>8, <1>9 DEF h

\* What is left after a write of n bytes, wherever it ends.
LEMMA LeftFacts ==
  ASSUME mIovecList \in Seq(Segments), mIovecList # <<>>, NEW n \in 1 .. Len(Queued)
  PROVE  /\ Left(n) \in Seq(Segments)
         /\ ToSet(Queued) \subseteq ToSet(SubSeq(Queued, 1, n)) \cup ToSet(FlattenSeq(Left(n)))
         /\ ~ n > Len(Head(mIovecList)) => Queued = SubSeq(Queued, 1, n) \o FlattenSeq(Left(n))
         /\ n > Len(Head(mIovecList)) => Len(Queued) < n + Len(FlattenSeq(Left(n)))
<1>0. Queued \in Seq(Everything) /\ n \in 0 .. Len(Queued) /\ SubSeq(Queued, 1, n) \in Seq(Everything)
  <2>1. Queued \in Seq(Everything)
    BY SegmentsFacts, FlattenType DEF Queued
  <2>2. n \in 0 .. Len(Queued)
    BY <2>1, LenProperties
  <2> QED
    BY <2>1, <2>2, Cut
<1>a. Len(Head(mIovecList)) \in Nat /\ n \in Nat
  <2>1. Head(mIovecList) \in Seq(Everything)
    BY SegmentsFacts, FlattenHead
  <2> QED
    BY <1>0, <2>1, LenProperties
<1>1. CASE Len(Head(mIovecList)) > n
  <2>1. Left(n) \in Seq(Segments) /\ FlattenSeq(Left(n)) \in Seq(Everything)
    BY <1>1, LeftLong, SegmentsFacts, FlattenType
  <2>2. Queued = SubSeq(Queued, 1, n) \o FlattenSeq(Left(n))
    BY <1>1, LeftLong
  <2>3. ToSet(SubSeq(Queued, 1, n) \o FlattenSeq(Left(n)))
          = ToSet(SubSeq(Queued, 1, n)) \cup ToSet(FlattenSeq(Left(n)))
    <3> DEFINE first == SubSeq(Queued, 1, n)
    <3> DEFINE rest == FlattenSeq(Left(n))
    <3>1. first \in Seq(Everything) /\ rest \in Seq(Everything)
      BY <1>0, <2>1
    <3> HIDE DEF first, rest
    <3>2. ToSet(first \o rest) = ToSet(first) \cup ToSet(rest)
      BY <3>1, ToSetConcat
    <3> QED
      BY <3>2 DEF first, rest
  <2>4. ToSet(Queued) = ToSet(SubSeq(Queued, 1, n)) \cup ToSet(FlattenSeq(Left(n)))
    BY <2>2, <2>3
  <2>5. ~ n > Len(Head(mIovecList))
    BY <1>a, <1>1
  <2> QED
    BY <2>1, <2>2, <2>4, <2>5
<1>2. CASE ~ Len(Head(mIovecList)) > n
  <2>1. ~ n > Len(Head(mIovecList)) => n = Len(Head(mIovecList))
    BY <1>a, <1>2
  <2> QED
    BY <1>2, <2>1, LeftShort
<1> QED
  BY <1>1, <1>2

-----------------------------------------------------------------------------
(* The parts of the handlers.                                              *)

\* The types of what a handler may change, and of the rest.
HandledTypes ==
  /\ mClose \in BOOLEAN /\ writing \in BOOLEAN /\ added \in BOOLEAN /\ ready \in BOOLEAN
  /\ mIovecList \in Seq(Segments) /\ sock \in Sockets
  /\ wire \in Seq(Everything) /\ accepted \in Seq(Everything)
  /\ overtaken \in BOOLEAN /\ repeated \in BOOLEAN
  /\ cb \in Seq({"message", "complete"}) /\ life \in {"alive", "terminated"}
OtherTypes ==
  /\ functions \in Seq(Messages \cup {Close}) /\ inputs \in 0 .. MaxInputs
  /\ pc \in {"wait", "events", "functions"} /\ batch \in SUBSET {"in", "out", "err"}
  /\ sent \in SUBSET Messages

\* TypeOK in two parts.
LEMMA TypesSplit == TypeOK <=> HandledTypes /\ OtherTypes
  BY DEF TypeOK, HandledTypes, OtherTypes, Sockets

\* The loop hears of room: an edge is there, or comes when the peer reads.
Notified == ready \/ (sock.room = 0 /\ sock.nospace)

\* Asking for write events leaves the loop with an edge, or with one to come.
LEMMA EnableWritingFacts ==
  ASSUME HandledTypes, NEW enable \in BOOLEAN, NEW u \in Sockets, EnableWriting(enable, u)
  PROVE  /\ writing' \in BOOLEAN /\ ready' \in BOOLEAN /\ sock' \in Sockets
         /\ sock'.room = u.room /\ sock'.err = u.err
         /\ added /\ enable => writing' /\ Notified'
<1>1. writing \in BOOLEAN /\ ready \in BOOLEAN
  BY DEF HandledTypes
<1>2. CASE added
  <2>1. writing' = enable /\ ready' = (ready \/ Events(u, enable) # {}) /\ sock' = Polled(u)
    BY <1>2 DEF EnableWriting
  <2>2. (ready \/ Events(u, enable) # {}) \in BOOLEAN
    OBVIOUS
  <2>3. /\ Polled(u) \in Sockets /\ Polled(u).room = u.room /\ Polled(u).err = u.err
        /\ Polled(u).nospace = (u.nospace \/ u.room = 0)
    BY PolledFacts
  <2>4. u.room \in Nat
    BY CallersAssumption DEF Sockets
  <2>5. CASE u.room = 0
    BY <2>1, <2>2, <2>3, <2>5 DEF Notified
  <2>6. CASE u.room # 0
    <3>1. u.room > 0
      BY <2>4, <2>6
    <3>2. enable => Events(u, enable) # {}
      BY <3>1 DEF Events
    <3> QED
      BY <2>1, <2>2, <2>3, <3>2 DEF Notified
  <2> QED
    BY <2>5, <2>6
<1>3. CASE ~ added
  <2>1. writing' = writing /\ ready' = ready /\ sock' = u
    BY <1>3 DEF EnableWriting
  <2> QED
    BY <1>1, <1>3, <2>1
<1> QED
  BY <1>2, <1>3

\* What OnClose changes.
LEMMA OnCloseFacts ==
  ASSUME HandledTypes, OnClose
  PROVE  /\ mClose' = TRUE /\ added' \in BOOLEAN /\ life' \in {"alive", "terminated"}
         /\ added' => added
<1>1. added \in BOOLEAN /\ life \in {"alive", "terminated"}
  BY DEF HandledTypes
<1>2. CASE ~ mClose
  BY <1>1, <1>2 DEF OnClose
<1>3. CASE mClose
  BY <1>1, <1>3 DEF OnClose
<1> QED
  BY <1>2, <1>3

\* What the list version of SendInLoop changes.
LEMMA SendListFacts ==
  ASSUME HandledTypes, NEW m \in Messages, SendList(m), repeated' = repeated
  PROVE  /\ HandledTypes' /\ inputs' = inputs
         /\ Queued' = Queued \o FlattenSeq(Text[m]) /\ FlattenSeq(Text[m]) \in Seq(Everything)
         /\ accepted' = accepted \o FlattenSeq(Text[m])
         /\ wire' = wire /\ overtaken' = overtaken /\ added' = added
         /\ Queued' # <<>> /\ added => writing' /\ Notified'
<1>1. /\ mIovecList' = mIovecList \o Text[m] /\ accepted' = accepted \o FlattenSeq(Text[m])
      /\ wire' = wire /\ mClose' = mClose /\ added' = added /\ cb' = cb /\ life' = life
      /\ inputs' = inputs /\ overtaken' = overtaken
  BY DEF SendList
<1>2. /\ Text[m] \in Seq(Segments) /\ Text[m] \in Seq(Seq(Everything))
      /\ mIovecList \in Seq(Seq(Everything)) /\ mIovecList \in Seq(Segments)
  BY SegmentsFacts DEF HandledTypes
<1>3. FlattenSeq(Text[m]) \in Seq(Everything)
  BY <1>2, FlattenType
<1>a. Queued' = FlattenSeq(mIovecList')
  BY DEF Queued
<1>4. Queued' = Queued \o FlattenSeq(Text[m])
  BY <1>1, <1>2, <1>a, FlattenConcat DEF Queued
<1>5. mIovecList' \in Seq(Segments) /\ accepted' \in Seq(Everything)
  <2>1. accepted \in Seq(Everything)
    BY DEF HandledTypes
  <2> QED
    BY <1>1, <1>2, <1>3, <2>1, ConcatProperties
<1>6. /\ writing' \in BOOLEAN /\ ready' \in BOOLEAN /\ sock' \in Sockets
      /\ mIovecList' # <<>> /\ added => writing' /\ Notified'
  <2>1. CASE mIovecList' # <<>>
    <3>1. EnableWriting(TRUE, sock) /\ sock \in Sockets
      BY <2>1 DEF SendList, HandledTypes
    <3> QED
      BY <3>1, EnableWritingFacts
  <2>2. CASE mIovecList' = <<>>
    BY <2>2 DEF SendList, HandledTypes
  <2> QED
    BY <2>1, <2>2
<1>7. HandledTypes'
  BY <1>1, <1>5, <1>6 DEF HandledTypes
<1>8. Queued' # <<>> => mIovecList' # <<>>
  BY <1>a, FlattenEmpty
<1> QED
  BY <1>1, <1>3, <1>4, <1>6, <1>7, <1>8

-----------------------------------------------------------------------------
(* The invariant.  Until a write overtakes or repeats, what was accepted is *)
(* what was written followed by what is queued; until one repeats it is as *)
(* long.  And until then, while bytes are queued, the loop hears of room:  *)
(* an edge is there or comes, or the event is in the batch that it has yet *)
(* to dispatch.  It is needed at every place of the loop, NoStall is about *)
(* one of them.                                                            *)

\* The empty sequence has none.
LEMMA ToSetEmpty == ToSet(<<>>) = {}
  BY DEF ToSet

\* The inductive strengthenings.
InQueueOrder == ~ overtaken /\ ~ repeated => accepted = wire \o Queued

Lengths ==
  /\ repeated => Len(accepted) < Len(wire) + Len(Queued)
  /\ ~ repeated => Len(accepted) = Len(wire) + Len(Queued)

QueueInv == InQueueOrder /\ Lengths

Hears == writing /\ (Notified \/ (pc = "events" /\ "out" \in batch))

Waiting == Queued # <<>> /\ added /\ ~ mClose /\ ~ sock.err /\ ~ repeated

StallInv == Waiting => Hears

\* What was accepted, written and is queued are sequences of bytes.
LEMMA BytesTypes ==
  ASSUME HandledTypes
  PROVE  /\ mIovecList \in Seq(Segments) /\ mIovecList \in Seq(Seq(Everything)) /\ sock \in Sockets
         /\ wire \in Seq(Everything) /\ accepted \in Seq(Everything) /\ Queued \in Seq(Everything)
         /\ Len(wire) \in Nat /\ Len(accepted) \in Nat /\ Len(Queued) \in Nat
<1>1. /\ mIovecList \in Seq(Segments) /\ mIovecList \in Seq(Seq(Everything)) /\ sock \in Sockets
      /\ wire \in Seq(Everything) /\ accepted \in Seq(Everything) /\ Queued \in Seq(Everything)
  BY SegmentsFacts, FlattenType DEF HandledTypes, Queued
<1> QED
  BY <1>1, LenProperties

\* Bytes that are accepted, and either written or queued behind the others, keep all that
\* is said of bytes; and if they were queued, or none were queued before, the order too.
LEMMA TakenOn ==
  ASSUME HandledTypes, NEW first \in Seq(Everything), NEW last \in Seq(Everything),
         wire' = wire \o first, Queued' = Queued \o last,
         accepted' = accepted \o (first \o last), repeated' = repeated,
         overtaken' \in BOOLEAN, ~ overtaken' => ~ overtaken /\ first = <<>>
  PROVE  (NothingLost => NothingLost') /\ (QueueInv => QueueInv')
<1>1. /\ wire \in Seq(Everything) /\ accepted \in Seq(Everything) /\ Queued \in Seq(Everything)
      /\ Len(wire) \in Nat /\ Len(accepted) \in Nat /\ Len(Queued) \in Nat
      /\ Len(first) \in Nat /\ Len(last) \in Nat
  BY BytesTypes, LenProperties
<1>2. /\ Len(wire') = Len(wire) + Len(first) /\ Len(Queued') = Len(Queued) + Len(last)
      /\ Len(accepted') = Len(accepted) + (Len(first) + Len(last))
      /\ first \o last \in Seq(Everything)
  BY <1>1, ConcatProperties
<1>3. NothingLost => NothingLost'
  <2>1. /\ ToSet(wire') = ToSet(wire) \cup ToSet(first)
        /\ ToSet(Queued') = ToSet(Queued) \cup ToSet(last)
        /\ ToSet(accepted') = ToSet(accepted) \cup ToSet(first \o last)
        /\ ToSet(first \o last) = ToSet(first) \cup ToSet(last)
    <3>1. ToSet(wire \o first) = ToSet(wire) \cup ToSet(first)
      BY <1>1, ToSetConcat
    <3>2. ToSet(Queued \o last) = ToSet(Queued) \cup ToSet(last)
      BY <1>1, ToSetConcat
    <3>3. ToSet(first \o last) = ToSet(first) \cup ToSet(last)
      BY ToSetConcat
    <3>4. ToSet(accepted \o (first \o last)) = ToSet(accepted) \cup ToSet(first \o last)
      <4> DEFINE both == first \o last
      <4>1. both \in Seq(Everything)
        BY <1>2
      <4> HIDE DEF both
      <4>2. ToSet(accepted \o both) = ToSet(accepted) \cup ToSet(both)
        BY <1>1, <4>1, ToSetConcat
      <4> QED
        BY <4>2 DEF both
    <3> QED
      BY <3>1, <3>2, <3>3, <3>4
  <2>2. NothingLost <=> ToSet(accepted) \subseteq ToSet(wire) \cup ToSet(Queued)
    BY DEF NothingLost, Queued
  <2>3. NothingLost' <=> ToSet(accepted') \subseteq ToSet(wire') \cup ToSet(Queued')
    BY DEF NothingLost, Queued
  <2> QED
    BY <2>1, <2>2, <2>3
<1>4. Lengths => Lengths'
  <2>1. Len(accepted) < Len(wire) + Len(Queued) => Len(accepted') < Len(wire') + Len(Queued')
    BY <1>1, <1>2
  <2>2. Len(accepted) = Len(wire) + Len(Queued) => Len(accepted') = Len(wire') + Len(Queued')
    BY <1>1, <1>2
  <2> QED
    BY <2>1, <2>2 DEF Lengths
<1>5. ASSUME InQueueOrder, ~ overtaken', ~ repeated' PROVE accepted' = wire' \o Queued'
  <2>1. accepted = wire \o Queued /\ first = <<>>
    BY <1>5 DEF InQueueOrder
  <2>2. wire' = wire /\ first \o last = last
    BY <1>1, <2>1, ConcatEmptySeq
  <2>3. Associative(Everything)
    BY ConcatIsAssociative
  <2>4. (wire \o Queued) \o last = wire \o (Queued \o last)
    BY <1>1, <2>3, Zenon DEF Associative
  <2> QED
    BY <2>1, <2>2, <2>4
<1> QED
  BY <1>3, <1>4, <1>5 DEF QueueInv, InQueueOrder

\* A SendBuffer that finds other bytes queued and the connection intact.
WriteAtOnce(m) ==
  LET bs == FlattenSeq(Text[m]) IN
  /\ wire' = wire \o SubSeq(bs, 1, Taken(bs))
  /\ accepted' = accepted \o bs
  /\ overtaken' = (overtaken \/ Taken(bs) > 0)
  /\ IF Taken(bs) = Len(bs)
     THEN /\ cb' = <<"complete">> \o cb
          /\ sock' = AfterWrite(bs)
          /\ UNCHANGED <<mIovecList, writing, ready>>
     ELSE /\ cb' = cb
          /\ mIovecList' = Append(mIovecList, SubSeq(bs, Taken(bs) + 1, Len(bs)))
          /\ EnableWriting(TRUE, AfterWrite(bs))
  /\ UNCHANGED <<mClose, added, inputs, life>>

\* The buffer version queues, fails or writes at once.
LEMMA SendBufferCases ==
  ASSUME NEW m \in Messages, SendBuffer(m)
  PROVE  \/ SendList(m)
         \/ OnClose /\ UNCHANGED <<mIovecList, writing, kernel, cb, accepted, overtaken>>
         \/ WriteAtOnce(m)
  BY DEF SendBuffer, WriteAtOnce

\* Bytes that overtake the queue are not lost, nor the rest of them; if they fill the
\* buffer the loop still hears of room for those queued.
LEMMA WriteAtOnceFacts ==
  ASSUME HandledTypes, NEW m \in Messages, WriteAtOnce(m), UNCHANGED <<pc, batch, repeated>>
  PROVE  /\ HandledTypes' /\ inputs' = inputs
         /\ NothingLost => NothingLost'
         /\ QueueInv => QueueInv'
         /\ StallInv => StallInv'
<1> DEFINE bs == FlattenSeq(Text[m])
           n == Taken(bs)
           first == SubSeq(bs, 1, n)
           last == SubSeq(bs, n + 1, Len(bs))
<1>1. /\ mIovecList \in Seq(Segments) /\ mIovecList \in Seq(Seq(Everything)) /\ sock \in Sockets
      /\ wire \in Seq(Everything) /\ accepted \in Seq(Everything)
      /\ Queued \in Seq(Everything)
  BY BytesTypes
<1>2. bs \in Seq(Everything) /\ Len(bs) \in Nat
  BY SegmentsFacts, FlattenType, LenProperties
<1>3. /\ wire' = wire \o first /\ accepted' = accepted \o bs /\ overtaken' = (overtaken \/ n > 0)
      /\ mClose' = mClose /\ added' = added /\ inputs' = inputs /\ life' = life
  BY DEF WriteAtOnce
<1>4. IF n = Len(bs)
      THEN /\ cb' = <<"complete">> \o cb /\ sock' = AfterWrite(bs) /\ mIovecList' = mIovecList
           /\ writing' = writing /\ ready' = ready
      ELSE /\ cb' = cb /\ mIovecList' = Append(mIovecList, last) /\ EnableWriting(TRUE, AfterWrite(bs))
  BY DEF WriteAtOnce
<1> HIDE DEF bs
<1>5. /\ n \in 0 .. Len(bs) /\ n <= sock.room /\ AfterWrite(bs) \in Sockets
      /\ AfterWrite(bs).room = sock.room - n /\ AfterWrite(bs).err = sock.err
      /\ AfterWrite(bs).nospace = (sock.nospace \/ n < Len(bs))
      /\ sock.room \in Nat
  BY <1>1, <1>2, TakenFacts, AfterWriteFacts, CallersAssumption DEF Sockets
<1> HIDE DEF n
<1>6. first \in Seq(Everything) /\ last \in Seq(Everything) /\ first \o last = bs /\ (n < Len(bs) => last # <<>>)
  BY <1>2, <1>5, Cut
<1>7. n = Len(bs) => last = <<>>
  <2>1. n = Len(bs) => n + 1 > Len(bs) /\ n + 1 \in Int /\ Len(bs) \in Int
    BY <1>2
  <2> QED
    BY <2>1, SubSeqEmpty
<1>8. ~ n > 0 => first = <<>>
  <2>1. ~ n > 0 => n = 0
    BY <1>2, <1>5
  <2> QED
    BY <2>1, SubSeqEmpty
<1> HIDE DEF first, last
<1>9. wire' \in Seq(Everything) /\ accepted' \in Seq(Everything) /\ overtaken' \in BOOLEAN
  <2>1. overtaken' \in BOOLEAN
    BY <1>3
  <2> QED
    BY <1>1, <1>2, <1>3, <1>6, <2>1, ConcatProperties
<1>10. Queued' = FlattenSeq(mIovecList')
  BY DEF Queued
<1>11. HandledTypes' /\ Queued' = Queued \o last
  <2>0. cb \in Seq({"message", "complete"}) /\ repeated' \in BOOLEAN
    BY DEF HandledTypes
  <2>1. CASE n = Len(bs)
    <3>1. cb' \in Seq({"message", "complete"})
      <4>1. <<"complete">> \in Seq({"message", "complete"})
        OBVIOUS
      <4> QED
        BY <1>4, <2>0, <2>1, <4>1, ConcatProperties
    <3>2. HandledTypes'
      BY <1>3, <1>4, <1>5, <1>9, <2>0, <2>1, <3>1 DEF HandledTypes
    <3>3. Queued' = Queued
      BY <1>4, <1>10, <2>1 DEF Queued
    <3> QED
      BY <1>1, <1>7, <2>1, <3>2, <3>3, ConcatEmptySeq
  <2>2. CASE n # Len(bs)
    <3>1. cb' = cb /\ mIovecList' = Append(mIovecList, last) /\ EnableWriting(TRUE, AfterWrite(bs))
      BY <1>4, <2>2
    <3>2. n < Len(bs)
      BY <1>2, <1>5, <2>2
    <3>3. last \in Segments
      BY <1>6, <3>2, SegmentsFacts
    <3>4. mIovecList' \in Seq(Segments) /\ mIovecList' = mIovecList \o <<last>>
      BY <1>1, <3>1, <3>3, AppendProperties, AppendIsConcat
    <3>5. writing' \in BOOLEAN /\ ready' \in BOOLEAN /\ sock' \in Sockets
      BY <1>5, <3>1, EnableWritingFacts
    <3>6. HandledTypes'
      BY <1>3, <1>9, <2>0, <3>1, <3>4, <3>5 DEF HandledTypes
    <3>7. <<last>> \in Seq(Seq(Everything)) /\ FlattenSeq(<<last>>) = last
      BY <1>6, FlattenOne
    <3>8. Queued' = Queued \o last
      BY <1>1, <1>10, <3>4, <3>7, FlattenConcat DEF Queued
    <3> QED
      BY <3>6, <3>8
  <2> QED
    BY <2>1, <2>2
<1>12. (NothingLost => NothingLost') /\ (QueueInv => QueueInv')
  <2>1. ~ overtaken' => ~ overtaken /\ first = <<>>
    BY <1>3, <1>8
  <2>2. repeated' = repeated
    OBVIOUS
  <2>3. accepted' = accepted \o (first \o last)
    BY <1>3, <1>6
  <2> QED
    BY <1>3, <1>6, <1>9, <1>11, <2>1, <2>2, <2>3, TakenOn
<1>13. StallInv => StallInv'
  <2> SUFFICES ASSUME StallInv, Waiting' PROVE Hears'
    BY DEF StallInv
  <2>1. added /\ ~ mClose /\ ~ repeated
    BY <1>3 DEF Waiting
  <2>2. CASE n = Len(bs)
    <3>1. Queued' = Queued /\ sock'.err = sock.err /\ sock' = AfterWrite(bs)
      BY <1>1, <1>4, <1>5, <1>7, <1>11, <2>2, ConcatEmptySeq
    <3>2. Hears
      BY <2>1, <3>1 DEF StallInv, Waiting
    <3>3. sock.room = 0 /\ sock.nospace => sock'.room = 0 /\ sock'.nospace
      <4> SUFFICES ASSUME sock.room = 0, sock.nospace PROVE sock'.room = 0 /\ sock'.nospace
        OBVIOUS
      <4>1. n = 0
        BY <1>2, <1>5
      <4>2. sock.room - n = 0
        BY <4>1
      <4> QED
        BY <1>5, <3>1, <4>2
    <3> QED
      BY <1>4, <2>2, <3>2, <3>3 DEF Hears, Notified
  <2>3. CASE n # Len(bs)
    <3>1. EnableWriting(TRUE, AfterWrite(bs))
      BY <1>4, <2>3
    <3>2. writing' /\ Notified'
      BY <1>5, <2>1, <3>1, EnableWritingFacts
    <3> QED
      BY <3>2 DEF Hears
  <2> QED
    BY <2>2, <2>3
<1> QED
  BY <1>3, <1>11, <1>12, <1>13

-----------------------------------------------------------------------------
(* SendInLoop and Writev as wholes.                                        *)

\* All that SendInLoop keeps, whichever way it goes.
LEMMA SendInLoopFacts ==
  ASSUME HandledTypes, NEW m \in Messages, SendInLoop(m), UNCHANGED <<pc, batch, repeated>>
  PROVE  /\ HandledTypes' /\ inputs' = inputs
         /\ NothingLost => NothingLost'
         /\ QueueInv => QueueInv'
         /\ mClose => wire' = wire
         /\ StallInv => StallInv'
<1>0. pc' = pc /\ batch' = batch /\ repeated' = repeated
  OBVIOUS
<1>1. CASE mClose
  <2>1. /\ cb' = cb /\ overtaken' = overtaken /\ mClose' = mClose /\ mIovecList' = mIovecList
        /\ writing' = writing /\ added' = added /\ sock' = sock /\ ready' = ready /\ inputs' = inputs
        /\ wire' = wire /\ accepted' = accepted /\ life' = life
    BY <1>1 DEF SendInLoop, queue, kernel
  <2>2. HandledTypes'
    BY <1>0, <2>1 DEF HandledTypes
  <2>3. Queued' = Queued
    BY <2>1 DEF Queued
  <2>4. NothingLost => NothingLost'
    BY <2>1, <2>3 DEF NothingLost, Queued
  <2>5. QueueInv => QueueInv'
    BY <1>0, <2>1, <2>3 DEF QueueInv, InQueueOrder, Lengths
  <2>6. StallInv'
    BY <1>1, <2>1 DEF StallInv, Waiting
  <2> QED
    BY <2>1, <2>2, <2>4, <2>5, <2>6
<1>2. CASE ~ mClose
  <2>1. SendList(m) \/ SendBuffer(m)
    BY <1>2 DEF SendInLoop
  <2>2. CASE SendList(m)
    <3> DEFINE bs == FlattenSeq(Text[m])
    <3>1. /\ HandledTypes' /\ inputs' = inputs
          /\ Queued' = Queued \o bs /\ bs \in Seq(Everything)
          /\ accepted' = accepted \o bs
          /\ wire' = wire /\ overtaken' = overtaken /\ added' = added
          /\ Queued' # <<>> /\ added => writing' /\ Notified'
      BY <1>0, <2>2, SendListFacts
    <3> HIDE DEF bs
    <3>2. /\ <<>> \in Seq(Everything) /\ <<>> \o bs = bs /\ wire \o <<>> = wire
          /\ overtaken' \in BOOLEAN
      BY <3>1, BytesTypes, ConcatEmptySeq, EmptySeq DEF HandledTypes
    <3>3. (NothingLost => NothingLost') /\ (QueueInv => QueueInv')
      <4> DEFINE none == <<>>
      <4>1. /\ none \in Seq(Everything) /\ wire' = wire \o none
            /\ accepted' = accepted \o (none \o bs) /\ none = <<>>
        BY <3>1, <3>2
      <4> HIDE DEF none
      <4> QED
        BY <1>0, <3>1, <3>2, <4>1, TakenOn
    <3>4. StallInv'
      BY <3>1 DEF StallInv, Waiting, Hears
    <3> QED
      BY <1>2, <3>1, <3>3, <3>4
  <2>3. CASE WriteAtOnce(m)
    BY <1>2, <2>3, WriteAtOnceFacts
  <2>4. CASE OnClose /\ UNCHANGED <<mIovecList, writing, kernel, cb, accepted, overtaken>>
    <3>1. /\ mIovecList' = mIovecList /\ writing' = writing /\ sock' = sock /\ ready' = ready
          /\ inputs' = inputs /\ wire' = wire /\ accepted' = accepted /\ cb' = cb
          /\ overtaken' = overtaken
      BY <2>4 DEF kernel
    <3>2. mClose' = TRUE /\ added' \in BOOLEAN /\ life' \in {"alive", "terminated"}
      BY <2>4, OnCloseFacts
    <3>3. HandledTypes'
      BY <1>0, <3>1, <3>2 DEF HandledTypes
    <3>4. Queued' = Queued
      BY <3>1 DEF Queued
    <3>5. NothingLost => NothingLost'
      BY <3>1, <3>4 DEF NothingLost, Queued
    <3>6. QueueInv => QueueInv'
      BY <1>0, <3>1, <3>4 DEF QueueInv, InQueueOrder, Lengths
    <3>7. StallInv'
      BY <3>2 DEF StallInv, Waiting
    <3> QED
      BY <1>2, <3>1, <3>3, <3>5, <3>6, <3>7
  <2> QED
    BY <2>1, <2>2, <2>3, <2>4, SendBufferCases
<1> QED
  BY <1>1, <1>2

\* What Writev does to the queue, and what it leaves alone.
WritesSome(n) ==
  /\ wire' = wire \o SubSeq(Queued, 1, n)
  /\ mIovecList' = Left(n)
  /\ repeated' = (repeated \/ n > Len(Head(mIovecList)))
  /\ IF mIovecList' = <<>>
     THEN /\ EnableWriting(FALSE, AfterWrite(Queued))
          /\ cb' = <<"complete">> /\ mClose' = mClose
     ELSE /\ sock' = AfterWrite(Queued)
          /\ mClose' \in {mClose, TRUE}
          /\ writing' = writing /\ ready' = ready /\ cb' = cb
  /\ added' = added /\ inputs' = inputs /\ life' = life

\* Writev takes nothing or something.
LEMMA WritevCases ==
  ASSUME Writev
  PROVE  \/ /\ Taken(Queued) = 0 /\ sock' = AfterWrite(Queued)
            /\ UNCHANGED <<queue, ready, inputs, wire, cb, repeated, life>>
         \/ Taken(Queued) # 0 /\ WritesSome(Taken(Queued))
  BY DEF Writev, WritesSome, Queued

\* A write that takes something: unless it went beyond the first segment, what is left
\* is the rest of what was queued, and waits for room only if the buffer is full.
LEMMA WritesSomeFacts ==
  ASSUME HandledTypes, mIovecList # <<>>, NEW n, n = Taken(Queued), n # 0, WritesSome(n),
         UNCHANGED <<accepted, overtaken>>, ~ mClose, ~ sock.err
  PROVE  /\ HandledTypes' /\ inputs' = inputs
         /\ NothingLost => NothingLost'
         /\ QueueInv => QueueInv'
         /\ StallInv => StallInv'
<1> DEFINE first == SubSeq(Queued, 1, n)
<1>1. /\ mIovecList \in Seq(Segments) /\ sock \in Sockets /\ wire \in Seq(Everything)
      /\ accepted \in Seq(Everything) /\ mClose \in BOOLEAN /\ writing \in BOOLEAN /\ ready \in BOOLEAN
      /\ Queued \in Seq(Everything) /\ repeated \in BOOLEAN /\ overtaken \in BOOLEAN
      /\ Len(wire) \in Nat /\ Len(accepted) \in Nat /\ Len(Queued) \in Nat
      /\ cb \in Seq({"message", "complete"})
  BY BytesTypes DEF HandledTypes
<1>2. /\ n \in 0 .. Len(Queued) /\ (n < Len(Queued) => n = sock.room) /\ AfterWrite(Queued) \in Sockets
      /\ AfterWrite(Queued).room = sock.room - n
      /\ AfterWrite(Queued).nospace = (sock.nospace \/ n < Len(Queued))
      /\ AfterWrite(Queued).err = sock.err
  BY <1>1, TakenFacts, AfterWriteFacts
<1>3. n \in 1 .. Len(Queued) /\ n \in Nat /\ sock.room \in Nat
  BY <1>1, <1>2, CallersAssumption DEF Sockets
<1>4. /\ Left(n) \in Seq(Segments)
      /\ ToSet(Queued) \subseteq ToSet(first) \cup ToSet(FlattenSeq(Left(n)))
      /\ ~ n > Len(Head(mIovecList)) => Queued = first \o FlattenSeq(Left(n))
      /\ n > Len(Head(mIovecList)) => Len(Queued) < n + Len(FlattenSeq(Left(n)))
  BY <1>1, <1>3, LeftFacts
<1>5. first \in Seq(Everything) /\ Len(first) = n
  <2>1. \A i \in 1 .. n : Queued[i] \in Everything
    BY <1>1, <1>2, ElementOfSeq
  <2> QED
    BY <1>1, <1>2, <1>3, <2>1, Cut, SubSeqProperties
<1>6. /\ wire' = wire \o first /\ mIovecList' = Left(n) /\ Queued' = FlattenSeq(Left(n))
      /\ added' = added /\ inputs' = inputs /\ life' = life /\ accepted' = accepted
      /\ overtaken' = overtaken
      /\ repeated' = (repeated \/ n > Len(Head(mIovecList)))
  BY DEF WritesSome, Queued
<1> HIDE DEF first
<1>7. /\ wire' \in Seq(Everything) /\ ToSet(wire') = ToSet(wire) \cup ToSet(first)
      /\ Len(wire') = Len(wire) + n /\ repeated' \in BOOLEAN
  <2>1. repeated' \in BOOLEAN
    BY <1>6
  <2>2. wire \o first \in Seq(Everything) /\ Len(wire \o first) = Len(wire) + n
    BY <1>1, <1>5, ConcatProperties
  <2>3. ToSet(wire \o first) = ToSet(wire) \cup ToSet(first)
    BY <1>1, <1>5, ToSetConcat
  <2> QED
    BY <1>6, <2>1, <2>2, <2>3
<1>8. Queued' \in Seq(Everything) /\ Len(Queued') \in Nat
  BY <1>4, <1>6, SegmentsFacts, FlattenType, LenProperties
<1>9. /\ mClose' \in BOOLEAN /\ writing' \in BOOLEAN /\ ready' \in BOOLEAN /\ sock' \in Sockets
      /\ cb' \in Seq({"message", "complete"})
      /\ mIovecList' # <<>> => sock' = AfterWrite(Queued) /\ writing' = writing
  <2>1. CASE mIovecList' = <<>>
    <3>1. EnableWriting(FALSE, AfterWrite(Queued)) /\ cb' = <<"complete">> /\ mClose' = mClose
      BY <2>1 DEF WritesSome
    <3>2. <<"complete">> \in Seq({"message", "complete"})
      OBVIOUS
    <3> QED
      BY <1>1, <1>2, <2>1, <3>1, <3>2, EnableWritingFacts
  <2>2. CASE mIovecList' # <<>>
    <3>1. sock' = AfterWrite(Queued) /\ mClose' \in {mClose, TRUE} /\ writing' = writing /\ ready' = ready /\ cb' = cb
      BY <2>2 DEF WritesSome
    <3> QED
      BY <1>1, <1>2, <3>1
  <2> QED
    BY <2>1, <2>2
<1>10. HandledTypes'
  BY <1>1, <1>4, <1>6, <1>7, <1>9 DEF HandledTypes
<1>11. NothingLost => NothingLost'
  <2>1. NothingLost <=> ToSet(accepted) \subseteq ToSet(wire) \cup ToSet(Queued)
    BY DEF NothingLost, Queued
  <2>2. NothingLost' <=> ToSet(accepted') \subseteq ToSet(wire') \cup ToSet(Queued')
    BY DEF NothingLost, Queued
  <2> QED
    BY <1>4, <1>6, <1>7, <2>1, <2>2
<1>12. ASSUME ~ n > Len(Head(mIovecList))
       PROVE  Queued = first \o Queued' /\ Len(Queued) = n + Len(Queued')
  BY <1>4, <1>5, <1>6, <1>8, <1>12, ConcatProperties
<1>13. InQueueOrder => InQueueOrder'
  <2> SUFFICES ASSUME InQueueOrder, ~ overtaken', ~ repeated' PROVE accepted' = wire' \o Queued'
    BY DEF InQueueOrder
  <2>1. accepted = wire \o Queued /\ Queued = first \o Queued'
    <3>1. ~ overtaken /\ ~ repeated /\ ~ n > Len(Head(mIovecList))
      <4>1. ~ overtaken
        BY <1>6
      <4>2. ~ repeated /\ ~ n > Len(Head(mIovecList))
        BY <1>6
      <4> QED
        BY <4>1, <4>2
    <3>2. accepted = wire \o Queued
      BY <3>1 DEF InQueueOrder
    <3> QED
      BY <1>12, <3>1, <3>2
  <2>2. Associative(Everything)
    BY ConcatIsAssociative
  <2>3. (wire \o first) \o Queued' = wire \o (first \o Queued')
    BY <1>1, <1>5, <1>8, <2>2, Zenon DEF Associative
  <2> QED
    BY <1>6, <2>1, <2>3
<1>14. Lengths => Lengths'
  <2>1. Len(accepted') = Len(accepted)
    BY <1>6
  <2>2. CASE n > Len(Head(mIovecList))
    <3>1. repeated' /\ Len(Queued) < n + Len(Queued')
      BY <1>4, <1>6, <2>2
    <3> DEFINE a == Len(accepted)
    <3> DEFINE w == Len(wire)
    <3> DEFINE q == Len(Queued)
    <3> DEFINE r == Len(Queued')
    <3>2. a \in Nat /\ w \in Nat /\ q \in Nat /\ r \in Nat /\ n \in Nat /\ q < n + r
      BY <1>1, <1>3, <1>8, <3>1
    <3>3. Lengths => a < w + q \/ a = w + q
      BY DEF Lengths
    <3>4. a < (w + n) + r => Lengths'
      BY <1>7, <2>1, <3>1 DEF Lengths
    <3> HIDE DEF a, w, q, r
    <3>5. a < w + q \/ a = w + q => a < (w + n) + r
      BY <3>2
    <3> QED
      BY <3>3, <3>4, <3>5
  <2>3. CASE ~ n > Len(Head(mIovecList))
    <3>1. repeated' = repeated /\ Len(Queued) = n + Len(Queued')
      BY <1>1, <1>6, <1>12, <2>3
    <3>2. Len(wire) + Len(Queued) = (Len(wire) + n) + Len(Queued')
      BY <1>1, <1>3, <1>8, <3>1
    <3> QED
      BY <1>7, <2>1, <3>1, <3>2 DEF Lengths
  <2> QED
    BY <2>2, <2>3
<1>15. StallInv => StallInv'
  <2> SUFFICES ASSUME StallInv, Waiting' PROVE Hears'
    BY DEF StallInv
  <2>1. Queued' # <<>> /\ added /\ ~ repeated /\ ~ n > Len(Head(mIovecList))
    BY <1>6 DEF Waiting
  <2>2. mIovecList' # <<>>
    BY <1>6, <2>1, FlattenEmpty
  <2>3. sock' = AfterWrite(Queued) /\ writing' = writing
    BY <1>9, <2>2
  <2>4. Len(Queued') # 0
    BY <1>8, <2>1, EmptySeq
  <2>5. n < Len(Queued)
    BY <1>3, <1>8, <1>12, <2>1, <2>4
  <2>6. sock'.room = 0 /\ sock'.nospace
    <3>1. n = sock.room /\ sock.room - sock.room = 0
      BY <1>2, <1>3, <2>5
    <3> QED
      BY <1>2, <2>3, <2>5, <3>1
  <2>7. Queued # <<>>
    <3>1. Len(Queued) # 0
      BY <1>3
    <3> QED
      BY <3>1
  <2>8. writing
    BY <2>1, <2>7 DEF StallInv, Waiting, Hears
  <2> QED
    BY <2>3, <2>6, <2>8 DEF Hears, Notified
<1> QED
  BY <1>6, <1>10, <1>11, <1>13, <1>14, <1>15 DEF QueueInv

\* All that Writev keeps.
LEMMA WritevFacts ==
  ASSUME HandledTypes, mIovecList # <<>>, ~ mClose, ~ sock.err, Writev,
         UNCHANGED <<accepted, overtaken>>
  PROVE  /\ HandledTypes' /\ inputs' = inputs
         /\ NothingLost => NothingLost'
         /\ QueueInv => QueueInv'
         /\ StallInv => StallInv'
<1> DEFINE n == Taken(Queued)
<1>1. CASE n = 0
  <2>1. /\ sock' = AfterWrite(Queued)
        /\ mClose' = mClose /\ mIovecList' = mIovecList /\ writing' = writing /\ added' = added
        /\ ready' = ready /\ inputs' = inputs /\ wire' = wire /\ cb' = cb /\ life' = life
        /\ accepted' = accepted /\ overtaken' = overtaken /\ repeated' = repeated
    BY <1>1, WritevCases DEF queue
  <2>2. sock \in Sockets /\ Queued \in Seq(Everything) /\ Len(Queued) \in Nat
    BY BytesTypes
  <2>3. /\ AfterWrite(Queued) \in Sockets /\ AfterWrite(Queued).err = sock.err
        /\ AfterWrite(Queued).room = sock.room - n
        /\ AfterWrite(Queued).nospace = (sock.nospace \/ n < Len(Queued))
    BY <2>2, AfterWriteFacts
  <2>4. HandledTypes'
    BY <2>1, <2>3 DEF HandledTypes
  <2>5. Queued' = Queued
    BY <2>1 DEF Queued
  <2>6. NothingLost => NothingLost'
    BY <2>1, <2>5 DEF NothingLost, Queued
  <2>7. QueueInv => QueueInv'
    BY <2>1, <2>5 DEF QueueInv, InQueueOrder, Lengths
  <2>8. ASSUME StallInv PROVE StallInv'
    <3> SUFFICES ASSUME Waiting' PROVE writing' /\ Notified'
      BY DEF StallInv, Hears
    <3>1. Waiting
      BY <2>1, <2>3, <2>5 DEF Waiting
    <3>2. Len(Queued) # 0
      BY <2>2, <3>1, EmptySeq DEF Waiting
    <3>3. sock.room \in Nat /\ sock.room = 0 /\ n < Len(Queued)
      BY <1>1, <2>2, <3>2, TakenFacts, CallersAssumption DEF Sockets
    <3>4. sock'.room = 0 /\ sock'.nospace
      <4>1. n = 0 /\ sock.room = 0 /\ n < Len(Queued)
        BY <1>1, <3>3
      <4> HIDE DEF n
      <4>2. sock.room - n = 0
        BY <4>1
      <4> QED
        BY <2>1, <2>3, <4>1, <4>2
    <3>5. writing
      BY <2>8, <3>1 DEF StallInv, Hears
    <3> QED
      BY <2>1, <3>4, <3>5 DEF Notified
  <2> QED
    BY <2>1, <2>4, <2>6, <2>7, <2>8
<1>2. CASE n # 0
  <2>1. WritesSome(n)
    BY <1>2, WritevCases
  <2> QED
    BY <1>2, <2>1, WritesSomeFacts
<1> QED
  BY <1>1, <1>2

-----------------------------------------------------------------------------
(* Every action keeps the invariant.                                       *)

ConnectionInv == HandledTypes /\ OtherTypes /\ NothingLost /\ QueueInv /\ StallInv

\* A step that leaves the bytes alone keeps what is said of them.
LEMMA QueueKept ==
  ASSUME NothingLost, QueueInv, UNCHANGED <<mIovecList, wire, accepted, overtaken, repeated>>
  PROVE  NothingLost' /\ QueueInv' /\ Queued' = Queued
<1>1. /\ mIovecList' = mIovecList /\ wire' = wire /\ accepted' = accepted
      /\ overtaken' = overtaken /\ repeated' = repeated
  OBVIOUS
<1>2. Queued' = Queued
  BY <1>1 DEF Queued
<1>3. NothingLost'
  BY <1>1, <1>2 DEF NothingLost, Queued
<1>4. QueueInv'
  BY <1>1, <1>2 DEF QueueInv, InQueueOrder, Lengths
<1> QED
  BY <1>2, <1>3, <1>4

\* A step that neither queues nor opens again leaves the loop with what it hears.
LEMMA StallKept ==
  ASSUME StallInv, Queued' = Queued, repeated' = repeated, added' => added, mClose => mClose',
         sock.err => sock'.err, Waiting /\ Hears => Hears'
  PROVE  StallInv'
<1>1. Waiting' => Waiting
  BY DEF Waiting
<1> QED
  BY <1>1 DEF StallInv

\* EpollWait takes the edge off the list: it hands on the event, or asks for the next edge.
LEMMA EpollWaitKeeps ==
  ASSUME ConnectionInv, EpollWait
  PROVE  ConnectionInv'
<1>1. /\ mClose' = mClose /\ mIovecList' = mIovecList /\ writing' = writing /\ added' = added
      /\ functions' = functions /\ inputs' = inputs /\ wire' = wire /\ cb' = cb
      /\ sent' = sent /\ accepted' = accepted /\ overtaken' = overtaken /\ repeated' = repeated /\ life' = life
      /\ pc = "wait" /\ pc' = "events" /\ ready' = FALSE
      /\ batch' = (IF ready /\ added THEN Events(sock, writing) ELSE {})
      /\ sock' = (IF ready /\ added THEN Polled(sock) ELSE sock)
  BY DEF EpollWait, queue, history
<1>2. HandledTypes /\ OtherTypes /\ NothingLost /\ QueueInv /\ StallInv
  BY DEF ConnectionInv
<1>3. /\ sock \in Sockets /\ Polled(sock) \in Sockets /\ Polled(sock).room = sock.room
      /\ Polled(sock).nospace = (sock.nospace \/ sock.room = 0) /\ Polled(sock).err = sock.err
  <2>1. sock \in Sockets
    BY <1>2 DEF HandledTypes
  <2> QED
    BY <2>1, PolledFacts
<1>4. sock' \in Sockets /\ sock'.err = sock.err
  BY <1>1, <1>3
<1>5. HandledTypes'
  BY <1>1, <1>2, <1>4 DEF HandledTypes
<1>6. OtherTypes'
  <2>1. Events(sock, writing) \in SUBSET {"in", "out", "err"}
    BY DEF Events
  <2>2. batch' \in SUBSET {"in", "out", "err"}
    BY <1>1, <2>1
  <2> QED
    BY <1>1, <1>2, <2>2 DEF OtherTypes
<1>7. NothingLost' /\ QueueInv' /\ Queued' = Queued
  BY <1>1, <1>2, QueueKept
<1>8. StallInv'
  <2> SUFFICES ASSUME Waiting, Hears PROVE Hears'
    BY <1>1, <1>2, <1>4, <1>7, StallKept
  <2>1. writing /\ Notified /\ added
    BY <1>1 DEF Hears, Waiting
  <2>2. CASE ready
    <3>1. batch' = Events(sock, writing) /\ sock' = Polled(sock)
      BY <1>1, <2>1, <2>2
    <3>2. CASE sock.room = 0
      BY <1>1, <1>3, <2>1, <3>1, <3>2 DEF Hears, Notified
    <3>3. CASE sock.room # 0
      <4>1. sock.room > 0
        BY <1>3, <3>3, CallersAssumption DEF Sockets
      <4>2. "out" \in Events(sock, writing)
        BY <2>1, <4>1 DEF Events
      <4> QED
        BY <1>1, <2>1, <3>1, <4>2 DEF Hears
    <3> QED
      BY <3>2, <3>3
  <2>3. CASE ~ ready
    <3>1. sock' = sock /\ sock.room = 0 /\ sock.nospace
      BY <1>1, <2>1, <2>3 DEF Notified
    <3> QED
      BY <1>1, <2>1, <3>1 DEF Hears, Notified
  <2> QED
    BY <2>2, <2>3
<1> QED
  BY <1>5, <1>6, <1>7, <1>8 DEF ConnectionInv

\* OnError closes.
LEMMA OnErrorKeeps ==
  ASSUME ConnectionInv, OnError
  PROVE  ConnectionInv'
<1>1. /\ mIovecList' = mIovecList /\ writing' = writing /\ functions' = functions /\ sock' = sock
      /\ ready' = ready /\ inputs' = inputs /\ wire' = wire /\ pc' = pc /\ cb' = cb /\ cb = <<>>
      /\ sent' = sent /\ accepted' = accepted /\ overtaken' = overtaken /\ repeated' = repeated /\ batch' = {}
  BY DEF OnError, At, kernel, history
<1>2. HandledTypes /\ OtherTypes /\ NothingLost /\ QueueInv /\ StallInv
  BY DEF ConnectionInv
<1>3. mClose' = TRUE /\ added' \in BOOLEAN /\ life' \in {"alive", "terminated"}
  BY <1>2, OnCloseFacts DEF OnError
<1>4. HandledTypes'
  BY <1>1, <1>2, <1>3 DEF HandledTypes
<1>5. OtherTypes'
  BY <1>1, <1>2 DEF OtherTypes
<1>6. NothingLost' /\ QueueInv' /\ Queued' = Queued
  BY <1>1, <1>2, QueueKept
<1>7. StallInv'
  BY <1>3 DEF StallInv, Waiting
<1> QED
  BY <1>4, <1>5, <1>6, <1>7 DEF ConnectionInv

\* OnRead leaves the write event of its batch to OnWrite.
LEMMA OnReadKeeps ==
  ASSUME ConnectionInv, OnRead
  PROVE  ConnectionInv'
<1>1. /\ mIovecList' = mIovecList /\ writing' = writing /\ functions' = functions
      /\ ready' = ready /\ inputs' = inputs /\ wire' = wire /\ pc' = pc /\ cb = <<>>
      /\ sent' = sent /\ accepted' = accepted /\ overtaken' = overtaken /\ repeated' = repeated
  BY DEF OnRead, At, history
<1>2. HandledTypes /\ OtherTypes /\ NothingLost /\ QueueInv /\ StallInv
  BY DEF ConnectionInv
<1>3. /\ mClose' \in BOOLEAN /\ added' \in BOOLEAN /\ life' \in {"alive", "terminated"}
      /\ sock' \in Sockets /\ sock'.room = sock.room /\ sock'.nospace = sock.nospace
      /\ sock'.err = sock.err /\ cb' \in Seq({"message", "complete"})
      /\ batch' \in SUBSET {"in", "out", "err"} /\ ("out" \in batch => "out" \in batch')
      /\ mClose' = TRUE \/ (mClose' = mClose /\ added' = added)
  <2>1. /\ mClose \in BOOLEAN /\ added \in BOOLEAN /\ life \in {"alive", "terminated"} /\ sock \in Sockets
        /\ batch \in SUBSET {"in", "out", "err"} /\ cb \in Seq({"message", "complete"})
    BY <1>2 DEF HandledTypes, OtherTypes
  <2>2. CASE sock.in /\ ~ sock.err
    <3>1. /\ sock' = [sock EXCEPT !.in = FALSE] /\ cb' = <<"message">> /\ mClose' = mClose
          /\ added' = added /\ life' = life /\ batch' = batch
      BY <2>2 DEF OnRead
    <3>2. <<"message">> \in Seq({"message", "complete"})
      OBVIOUS
    <3> QED
      BY <2>1, <3>1, <3>2 DEF Sockets
  <2>3. CASE ~ (sock.in /\ ~ sock.err)
    <3>1. batch' = batch \ {"in"} /\ sock' = sock /\ cb' = cb
      BY <2>3 DEF OnRead
    <3>2. CASE sock.eof /\ ~ sock.err
      <4>1. OnClose
        BY <2>3, <3>2 DEF OnRead
      <4> QED
        BY <1>1, <1>2, <2>1, <3>1, <4>1, OnCloseFacts
    <3>3. CASE ~ (sock.eof /\ ~ sock.err)
      <4>1. mClose' = mClose /\ added' = added /\ life' = life
        BY <2>3, <3>3 DEF OnRead
      <4> QED
        BY <1>1, <2>1, <3>1, <4>1
    <3> QED
      BY <3>2, <3>3
  <2> QED
    BY <2>2, <2>3
<1>4. HandledTypes'
  BY <1>1, <1>2, <1>3 DEF HandledTypes
<1>5. OtherTypes'
  BY <1>1, <1>2, <1>3 DEF OtherTypes
<1>6. NothingLost' /\ QueueInv' /\ Queued' = Queued
  BY <1>1, <1>2, QueueKept
<1>7. StallInv'
  <2>1. mClose' = TRUE => StallInv'
    BY DEF StallInv, Waiting
  <2>2. Hears => Hears'
    BY <1>1, <1>3 DEF Hears, Notified
  <2>3. mClose' = mClose /\ added' = added => StallInv'
    BY <1>1, <1>2, <1>3, <1>6, <2>2, StallKept
  <2> QED
    BY <1>3, <2>1, <2>3
<1> QED
  BY <1>4, <1>5, <1>6, <1>7 DEF ConnectionInv

\* OnWrite uses the event up.
LEMMA OnWriteKeeps ==
  ASSUME ConnectionInv, OnWrite
  PROVE  ConnectionInv'
<1>1. /\ functions' = functions /\ pc' = pc /\ batch' = {} /\ cb = <<>>
      /\ sent' = sent /\ accepted' = accepted /\ overtaken' = overtaken
  BY DEF OnWrite, At
<1>2. HandledTypes /\ OtherTypes /\ NothingLost /\ QueueInv /\ StallInv
  BY DEF ConnectionInv
<1>3. CASE mClose \/ mIovecList = <<>> \/ sock.err
  <2>1. /\ mClose' = mClose /\ mIovecList' = mIovecList /\ writing' = writing /\ added' = added
        /\ sock' = sock /\ ready' = ready /\ inputs' = inputs /\ wire' = wire /\ cb' = cb /\ life' = life
        /\ repeated' = repeated
    BY <1>3 DEF OnWrite, queue, kernel
  <2>2. HandledTypes'
    BY <1>1, <1>2, <2>1 DEF HandledTypes
  <2>3. OtherTypes'
    BY <1>1, <1>2, <2>1 DEF OtherTypes
  <2>4. NothingLost' /\ QueueInv' /\ Queued' = Queued
    BY <1>1, <1>2, <2>1, QueueKept
  <2>5. StallInv'
    <3>1. mIovecList = <<>> => Queued = <<>>
      BY FlattenEmpty DEF Queued
    <3> QED
      BY <1>3, <2>1, <2>4, <3>1 DEF StallInv, Waiting
  <2> QED
    BY <2>2, <2>3, <2>4, <2>5 DEF ConnectionInv
<1>4. CASE ~ mClose /\ mIovecList # <<>> /\ ~ sock.err
  <2>1. Writev
    BY <1>4 DEF OnWrite
  <2>2. HandledTypes' /\ inputs' = inputs /\ NothingLost' /\ QueueInv' /\ StallInv'
    BY <1>1, <1>2, <1>4, <2>1, WritevFacts
  <2>3. OtherTypes'
    BY <1>1, <1>2, <2>2 DEF OtherTypes
  <2> QED
    BY <2>2, <2>3 DEF ConnectionInv
<1> QED
  BY <1>3, <1>4

\* OnDeleted is about a connection that is no longer registered.
LEMMA OnDeletedKeeps ==
  ASSUME ConnectionInv, OnDeleted
  PROVE  ConnectionInv'
<1>1. /\ mClose' = mClose /\ mIovecList' = mIovecList /\ writing' = writing /\ added' = added
      /\ functions' = functions /\ sock' = sock /\ ready' = ready /\ inputs' = inputs /\ wire' = wire
      /\ pc' = pc /\ cb' = cb /\ sent' = sent /\ accepted' = accepted /\ overtaken' = overtaken /\ repeated' = repeated
      /\ batch' = {} /\ ~ added /\ cb = <<>> /\ life' \in {"alive", "terminated"}
  BY DEF OnDeleted, At, queue, kernel, history
<1>2. HandledTypes /\ OtherTypes /\ NothingLost /\ QueueInv /\ StallInv
  BY DEF ConnectionInv
<1>3. HandledTypes'
  BY <1>1, <1>2 DEF HandledTypes
<1>4. OtherTypes'
  BY <1>1, <1>2 DEF OtherTypes
<1>5. NothingLost' /\ QueueInv' /\ Queued' = Queued
  BY <1>1, <1>2, QueueKept
<1>6. StallInv'
  BY <1>1 DEF StallInv, Waiting
<1> QED
  BY <1>3, <1>4, <1>5, <1>6 DEF ConnectionInv

\* A callback sends.
LEMMA CallbackSendsKeeps ==
  ASSUME ConnectionInv, CallbackSends
  PROVE  ConnectionInv'
<1>1. functions' = functions /\ pc' = pc /\ batch' = batch /\ repeated' = repeated
  BY DEF CallbackSends
<1>2. HandledTypes /\ OtherTypes /\ NothingLost /\ QueueInv /\ StallInv
  BY DEF ConnectionInv
<1>3. PICK m \in Messages \ sent : sent' = sent \cup {m} /\ SendInLoop(m)
  BY DEF CallbackSends
<1>4. m \in Messages
  BY <1>3
<1>5. HandledTypes' /\ inputs' = inputs /\ NothingLost' /\ QueueInv' /\ StallInv'
  BY <1>1, <1>2, <1>3, <1>4, SendInLoopFacts
<1>6. OtherTypes'
  BY <1>1, <1>2, <1>3, <1>4, <1>5 DEF OtherTypes
<1> QED
  BY <1>5, <1>6 DEF ConnectionInv

\* A callback closes, deletes or returns: no byte moves.
LEMMA CallbackEndsKeeps ==
  ASSUME ConnectionInv, CallbackCloses \/ CallbackDeletes \/ CallbackReturns
  PROVE  ConnectionInv'
<1>1. /\ mIovecList' = mIovecList /\ writing' = writing /\ functions' = functions /\ sock' = sock
      /\ ready' = ready /\ inputs' = inputs /\ wire' = wire /\ pc' = pc /\ batch' = batch
      /\ sent' = sent /\ accepted' = accepted /\ overtaken' = overtaken /\ repeated' = repeated
  BY DEF CallbackCloses, CallbackDeletes, CallbackReturns, queue, kernel, loopVars, history
<1>2. HandledTypes /\ OtherTypes /\ NothingLost /\ QueueInv /\ StallInv
  BY DEF ConnectionInv
<1>3. /\ mClose' \in BOOLEAN /\ added' \in BOOLEAN /\ life' \in {"alive", "terminated"}
      /\ cb' \in Seq({"message", "complete"}) /\ (added' => added) /\ (mClose => mClose')
  <2>1. /\ mClose \in BOOLEAN /\ added \in BOOLEAN /\ life \in {"alive", "terminated"}
        /\ cb \in Seq({"message", "complete"})
    BY <1>2 DEF HandledTypes
  <2>2. CASE CallbackCloses
    <3>1. OnClose /\ cb' = cb
      BY <2>2 DEF CallbackCloses, loopVars
    <3> QED
      BY <1>2, <2>1, <3>1, OnCloseFacts
  <2>3. CASE CallbackDeletes
    BY <2>1, <2>3 DEF CallbackDeletes, loopVars
  <2>4. CASE CallbackReturns
    <3>1. /\ mClose' = mClose /\ added' = added /\ cb # <<>> /\ cb' = Tail(cb)
          /\ life' \in {"alive", "terminated"}
      BY <2>4 DEF CallbackReturns, queue
    <3> QED
      BY <2>1, <3>1, HeadTailProperties
  <2> QED
    BY <2>2, <2>3, <2>4
<1>4. HandledTypes'
  BY <1>1, <1>2, <1>3 DEF HandledTypes
<1>5. OtherTypes'
  BY <1>1, <1>2 DEF OtherTypes
<1>6. NothingLost' /\ QueueInv' /\ Queued' = Queued
  BY <1>1, <1>2, QueueKept
<1>7. StallInv'
  <2>1. Hears => Hears'
    BY <1>1 DEF Hears, Notified
  <2> QED
    BY <1>1, <1>2, <1>3, <1>6, <2>1, StallKept
<1> QED
  BY <1>4, <1>5, <1>6, <1>7 DEF ConnectionInv

\* The loop goes on to its functions when its batch is empty.
LEMMA RunFunctionsKeeps ==
  ASSUME ConnectionInv, RunFunctions
  PROVE  ConnectionInv'
<1>1. /\ mClose' = mClose /\ mIovecList' = mIovecList /\ writing' = writing /\ added' = added
      /\ functions' = functions /\ sock' = sock /\ ready' = ready /\ inputs' = inputs /\ wire' = wire
      /\ pc' = "functions" /\ batch' = batch /\ batch = {} /\ cb' = cb /\ sent' = sent
      /\ accepted' = accepted /\ overtaken' = overtaken /\ repeated' = repeated /\ life' = life
  BY DEF RunFunctions, queue, kernel, history
<1>2. HandledTypes /\ OtherTypes /\ NothingLost /\ QueueInv /\ StallInv
  BY DEF ConnectionInv
<1>3. HandledTypes'
  BY <1>1, <1>2 DEF HandledTypes
<1>4. OtherTypes'
  BY <1>1, <1>2 DEF OtherTypes
<1>5. NothingLost' /\ QueueInv' /\ Queued' = Queued
  BY <1>1, <1>2, QueueKept
<1>6. StallInv'
  <2>1. Hears => Hears'
    BY <1>1 DEF Hears, Notified
  <2> QED
    BY <1>1, <1>2, <1>5, <2>1, StallKept
<1> QED
  BY <1>3, <1>4, <1>5, <1>6 DEF ConnectionInv

\* A queued call sends or closes.
LEMMA RunFunctionKeeps ==
  ASSUME ConnectionInv, RunFunction
  PROVE  ConnectionInv'
<1>1. batch' = batch /\ sent' = sent /\ pc = "functions" /\ repeated' = repeated
  BY DEF RunFunction
<1>2. HandledTypes /\ OtherTypes /\ NothingLost /\ QueueInv /\ StallInv
  BY DEF ConnectionInv
<1>3. CASE functions = <<>>
  <2>1. /\ mClose' = mClose /\ mIovecList' = mIovecList /\ writing' = writing /\ added' = added
        /\ functions' = functions /\ sock' = sock /\ ready' = ready /\ inputs' = inputs /\ wire' = wire
        /\ pc' = "wait" /\ cb' = cb /\ accepted' = accepted /\ overtaken' = overtaken /\ life' = life
    BY <1>3 DEF RunFunction, queue, kernel
  <2>2. HandledTypes'
    BY <1>1, <1>2, <2>1 DEF HandledTypes
  <2>3. OtherTypes'
    BY <1>1, <1>2, <2>1 DEF OtherTypes
  <2>4. NothingLost' /\ QueueInv' /\ Queued' = Queued
    BY <1>1, <1>2, <2>1, QueueKept
  <2>5. StallInv'
    <3>1. Hears => Hears'
      BY <1>1, <2>1 DEF Hears, Notified
    <3> QED
      BY <1>1, <1>2, <2>1, <2>4, <3>1, StallKept
  <2> QED
    BY <2>2, <2>3, <2>4, <2>5 DEF ConnectionInv
<1>4. CASE functions # <<>>
  <2>1. functions' = Tail(functions) /\ pc' = pc
    BY <1>4 DEF RunFunction
  <2>2. Head(functions) \in Messages \cup {Close} /\ functions' \in Seq(Messages \cup {Close})
    BY <1>2, <1>4, <2>1, HeadTailProperties DEF OtherTypes
  <2>3. CASE Head(functions) = Close
    <3>1. /\ OnClose /\ mIovecList' = mIovecList /\ writing' = writing /\ sock' = sock /\ ready' = ready
          /\ inputs' = inputs /\ wire' = wire /\ cb' = cb /\ accepted' = accepted /\ overtaken' = overtaken
      BY <1>4, <2>3 DEF RunFunction, kernel
    <3>2. mClose' = TRUE /\ added' \in BOOLEAN /\ life' \in {"alive", "terminated"}
      BY <1>2, <3>1, OnCloseFacts
    <3>3. HandledTypes'
      BY <1>1, <1>2, <3>1, <3>2 DEF HandledTypes
    <3>4. OtherTypes'
      BY <1>1, <1>2, <2>1, <2>2, <3>1 DEF OtherTypes
    <3>5. NothingLost' /\ QueueInv' /\ Queued' = Queued
      BY <1>1, <1>2, <3>1, QueueKept
    <3>6. StallInv'
      BY <3>2 DEF StallInv, Waiting
    <3> QED
      BY <3>3, <3>4, <3>5, <3>6 DEF ConnectionInv
  <2>4. CASE Head(functions) # Close
    <3>1. SendInLoop(Head(functions)) /\ Head(functions) \in Messages
      BY <1>4, <2>2, <2>4 DEF RunFunction
    <3>3. HandledTypes' /\ inputs' = inputs /\ NothingLost' /\ QueueInv' /\ StallInv'
      BY <1>1, <1>2, <2>1, <3>1, SendInLoopFacts
    <3>4. OtherTypes'
      BY <1>1, <1>2, <2>1, <2>2, <3>3 DEF OtherTypes
    <3> QED
      BY <3>3, <3>4 DEF ConnectionInv
  <2> QED
    BY <2>3, <2>4
<1> QED
  BY <1>3, <1>4

\* Callers only queue.
LEMMA CallersKeep ==
  ASSUME ConnectionInv, (\E m \in Messages : Send(m)) \/ ForceClose
  PROVE  ConnectionInv'
<1>1. /\ mClose' = mClose /\ mIovecList' = mIovecList /\ writing' = writing /\ added' = added
      /\ sock' = sock /\ ready' = ready /\ inputs' = inputs /\ wire' = wire
      /\ pc' = pc /\ batch' = batch /\ cb' = cb
      /\ accepted' = accepted /\ overtaken' = overtaken /\ repeated' = repeated /\ life' = life
  BY DEF Send, ForceClose, queue, kernel, loopVars, history
<1>2. HandledTypes /\ OtherTypes /\ NothingLost /\ QueueInv /\ StallInv
  BY DEF ConnectionInv
<1>3. functions' \in Seq(Messages \cup {Close}) /\ sent' \in SUBSET Messages
  <2>1. functions \in Seq(Messages \cup {Close}) /\ sent \in SUBSET Messages
    BY <1>2 DEF OtherTypes
  <2>2. CASE \E m \in Messages : Send(m)
    <3>1. PICK m \in Messages : Send(m)
      BY <2>2
    <3>2. functions' = Append(functions, m) /\ sent' = sent \cup {m} /\ m \in Messages
      BY <3>1 DEF Send
    <3> QED
      BY <2>1, <3>2, AppendProperties
  <2>3. CASE ForceClose
    <3>1. functions' = Append(functions, Close) /\ sent' = sent
      BY <2>3 DEF ForceClose, history
    <3> QED
      BY <2>1, <3>1, AppendProperties
  <2> QED
    BY <2>2, <2>3
<1>4. HandledTypes'
  BY <1>1, <1>2 DEF HandledTypes
<1>5. OtherTypes'
  BY <1>1, <1>2, <1>3 DEF OtherTypes
<1>6. NothingLost' /\ QueueInv' /\ Queued' = Queued
  BY <1>1, <1>2, QueueKept
<1>7. StallInv'
  <2>1. Hears => Hears'
    BY <1>1 DEF Hears, Notified
  <2> QED
    BY <1>1, <1>2, <1>6, <2>1, StallKept
<1> QED
  BY <1>4, <1>5, <1>6, <1>7 DEF ConnectionInv

\* When the peer reads the edge comes.
LEMMA PeerReadsKeeps ==
  ASSUME ConnectionInv, PeerReads
  PROVE  ConnectionInv'
<1>1. /\ mClose' = mClose /\ mIovecList' = mIovecList /\ writing' = writing /\ added' = added
      /\ functions' = functions /\ inputs' = inputs /\ wire' = wire
      /\ pc' = pc /\ batch' = batch /\ cb' = cb /\ sent' = sent
      /\ accepted' = accepted /\ overtaken' = overtaken /\ repeated' = repeated /\ life' = life
      /\ sock' = [sock EXCEPT !.room = SendRoom, !.nospace = FALSE]
      /\ ready' = (ready \/ (sock.nospace /\ writing /\ added))
  BY DEF PeerReads, queue, loopVars, history
<1>2. HandledTypes /\ OtherTypes /\ NothingLost /\ QueueInv /\ StallInv
  BY DEF ConnectionInv
<1>3. sock' \in Sockets /\ sock'.err = sock.err
  <2>1. sock \in Sockets /\ SendRoom \in 0 .. SendRoom
    BY <1>2, CallersAssumption DEF HandledTypes
  <2> QED
    BY <1>1, <2>1 DEF Sockets
<1>4. ready' \in BOOLEAN
  <2>1. (ready \/ (sock.nospace /\ writing /\ added)) \in BOOLEAN
    OBVIOUS
  <2> QED
    BY <1>1, <2>1
<1>5. HandledTypes'
  BY <1>1, <1>2, <1>3, <1>4 DEF HandledTypes
<1>6. OtherTypes'
  BY <1>1, <1>2 DEF OtherTypes
<1>7. NothingLost' /\ QueueInv' /\ Queued' = Queued
  BY <1>1, <1>2, QueueKept
<1>8. StallInv'
  <2>1. added /\ Hears => Hears'
    BY <1>1 DEF Hears, Notified
  <2> QED
    BY <1>1, <1>2, <1>3, <1>7, <2>1, StallKept DEF Waiting
<1> QED
  BY <1>5, <1>6, <1>7, <1>8 DEF ConnectionInv

\* Whatever else the peer does puts the socket on the list.
LEMMA PeerKeeps ==
  ASSUME ConnectionInv, PeerSends \/ PeerShuts \/ PeerBreaks
  PROVE  ConnectionInv'
<1>1. /\ mClose' = mClose /\ mIovecList' = mIovecList /\ writing' = writing /\ added' = added
      /\ functions' = functions /\ wire' = wire
      /\ pc' = pc /\ batch' = batch /\ cb' = cb /\ sent' = sent
      /\ accepted' = accepted /\ overtaken' = overtaken /\ repeated' = repeated /\ life' = life /\ ready' = added
  BY DEF PeerSends, PeerShuts, PeerBreaks, Peer, queue, loopVars, history
<1>2. HandledTypes /\ OtherTypes /\ NothingLost /\ QueueInv /\ StallInv
  BY DEF ConnectionInv
<1>3. /\ sock' \in {[sock EXCEPT !.in = TRUE], [sock EXCEPT !.eof = TRUE], [sock EXCEPT !.err = TRUE]}
      /\ inputs' = inputs \/ (inputs < MaxInputs /\ inputs' = inputs + 1)
  BY DEF PeerSends, PeerShuts, PeerBreaks, Peer
<1>4. sock' \in Sockets /\ (sock.err => sock'.err)
  <2>1. sock \in Sockets
    BY <1>2 DEF HandledTypes
  <2> QED
    BY <1>3, <2>1 DEF Sockets
<1>5. inputs' \in 0 .. MaxInputs
  <2>1. inputs \in 0 .. MaxInputs /\ MaxInputs \in Nat
    BY <1>2, CallersAssumption DEF OtherTypes
  <2> QED
    BY <1>3, <2>1
<1>6. HandledTypes'
  BY <1>1, <1>2, <1>4 DEF HandledTypes
<1>7. OtherTypes'
  BY <1>1, <1>2, <1>5 DEF OtherTypes
<1>8. NothingLost' /\ QueueInv' /\ Queued' = Queued
  BY <1>1, <1>2, QueueKept
<1>9. StallInv'
  <2>1. added /\ Hears => Hears'
    BY <1>1 DEF Hears, Notified
  <2> QED
    BY <1>1, <1>2, <1>4, <1>8, <2>1, StallKept DEF Waiting
<1> QED
  BY <1>6, <1>7, <1>8, <1>9 DEF ConnectionInv

\* Nothing happens.
LEMMA StutterKeeps ==
  ASSUME ConnectionInv, UNCHANGED vars
  PROVE  ConnectionInv'
<1>1. /\ mClose' = mClose /\ mIovecList' = mIovecList /\ writing' = writing /\ added' = added
      /\ functions' = functions /\ sock' = sock /\ ready' = ready /\ inputs' = inputs /\ wire' = wire
      /\ pc' = pc /\ batch' = batch /\ cb' = cb /\ sent' = sent
      /\ accepted' = accepted /\ overtaken' = overtaken /\ repeated' = repeated /\ life' = life
  BY DEF vars, queue, kernel, loopVars, history
<1>2. HandledTypes /\ OtherTypes /\ NothingLost /\ QueueInv /\ StallInv
  BY DEF ConnectionInv
<1>3. HandledTypes'
  BY <1>1, <1>2 DEF HandledTypes
<1>4. OtherTypes'
  BY <1>1, <1>2 DEF OtherTypes
<1>5. NothingLost' /\ QueueInv' /\ Queued' = Queued
  BY <1>1, <1>2, QueueKept
<1>6. StallInv'
  <2>1. Hears => Hears'
    BY <1>1 DEF Hears, Notified
  <2> QED
    BY <1>1, <1>2, <1>5, <2>1, StallKept
<1> QED
  BY <1>3, <1>4, <1>5, <1>6 DEF ConnectionInv

\* The invariant holds at the start.
LEMMA ConnectionInvInit == Init => ConnectionInv
<1> SUFFICES ASSUME Init PROVE ConnectionInv
  OBVIOUS
<1>1. /\ mClose = FALSE /\ mIovecList = <<>> /\ writing = FALSE /\ added = TRUE
      /\ functions = <<>> /\ ready = FALSE /\ inputs = 0 /\ wire = <<>>
      /\ pc = "wait" /\ batch = {} /\ cb = <<>>
      /\ sent = {} /\ accepted = <<>> /\ overtaken = FALSE /\ repeated = FALSE /\ life = "alive"
      /\ sock = [room |-> SendRoom, nospace |-> FALSE, in |-> FALSE, eof |-> FALSE, err |-> FALSE]
  BY DEF Init
<1>2. SendRoom \in 0 .. SendRoom /\ 0 \in 0 .. MaxInputs
  BY CallersAssumption
<1>3. sock \in Sockets
  BY <1>1, <1>2 DEF Sockets
<1>4. HandledTypes
  BY <1>1, <1>3, EmptySeq DEF HandledTypes
<1>5. OtherTypes
  BY <1>1, <1>2, EmptySeq DEF OtherTypes
<1>6. ToSet(mIovecList) = {} /\ ToSet(accepted) = {} /\ Queued = <<>>
  BY <1>1, ToSetEmpty, FlattenEmpty DEF Queued
<1>7. NothingLost
  BY <1>6 DEF NothingLost
<1>8. accepted = wire \o Queued /\ Len(accepted) = Len(wire) + Len(Queued)
  BY <1>1, <1>6
<1>9. QueueInv
  BY <1>1, <1>8 DEF QueueInv, InQueueOrder, Lengths
<1>10. StallInv
  BY <1>6 DEF StallInv, Waiting
<1> QED
  BY <1>4, <1>5, <1>7, <1>9, <1>10 DEF ConnectionInv

\* Every step keeps it.
LEMMA ConnectionInvStep == ConnectionInv /\ [Next]_vars => ConnectionInv'
<1> SUFFICES ASSUME ConnectionInv, [Next]_vars PROVE ConnectionInv'
  OBVIOUS
<1>1. CASE EpollWait
  BY <1>1, EpollWaitKeeps
<1>2. CASE OnError
  BY <1>2, OnErrorKeeps
<1>3. CASE OnRead
  BY <1>3, OnReadKeeps
<1>4. CASE OnWrite
  BY <1>4, OnWriteKeeps
<1>5. CASE OnDeleted
  BY <1>5, OnDeletedKeeps
<1>6. CASE CallbackSends
  BY <1>6, CallbackSendsKeeps
<1>7. CASE CallbackCloses \/ CallbackDeletes \/ CallbackReturns
  BY <1>7, CallbackEndsKeeps
<1>8. CASE RunFunctions
  BY <1>8, RunFunctionsKeeps
<1>9. CASE RunFunction
  BY <1>9, RunFunctionKeeps
<1>10. CASE (\E m \in Messages : Send(m)) \/ ForceClose
  BY <1>10, CallersKeep
<1>11. CASE PeerReads
  BY <1>11, PeerReadsKeeps
<1>12. CASE PeerSends \/ PeerShuts \/ PeerBreaks
  BY <1>12, PeerKeeps
<1>13. CASE UNCHANGED vars
  BY <1>13, StutterKeeps
<1> QED
  BY <1>1, <1>2, <1>3, <1>4, <1>5, <1>6, <1>7, <1>8, <1>9, <1>10, <1>11, <1>12, <1>13
     DEF Next, Handling

-----------------------------------------------------------------------------
(* The theorems.                                                           *)

\* For any messages, segments, rooms and inputs the connection keeps its types and bytes,
\* its queue its shape and its order, and the loop hears of room for what is queued.
THEOREM ConnectionInvariant == Spec => []ConnectionInv
<1>1. Init => ConnectionInv
  BY ConnectionInvInit
<1>2. ConnectionInv /\ [Next]_vars => ConnectionInv'
  BY ConnectionInvStep
<1> QED
  BY <1>1, <1>2, PTL DEF Spec

\* Every variable of the connection holds a value of its type; an empty segment is queued
\* only if a caller's list has one.
THEOREM ConnectionTypeCorrect == Spec => []TypeOK
<1>1. ConnectionInv => TypeOK
  BY TypesSplit DEF ConnectionInv
<1> QED
  BY <1>1, ConnectionInvariant, PTL

\* Of all the bytes that SendInLoop took on each is with the kernel or queued, through
\* partial writes, writes that overtake the queue, closing and errors.
THEOREM BytesKept == Spec => []NothingLost
<1>1. ConnectionInv => NothingLost
  BY DEF ConnectionInv
<1> QED
  BY <1>1, ConnectionInvariant, PTL

\* What was written is a prefix of what was sent, buffers and lists, no byte out of order,
\* repeated or left out, except after a Send that wrote past the queue or a writev that
\* took more than the first segment: a list of two nodes may be enough.  The latter, and
\* nothing else, makes the bytes written and queued more than those sent.
THEOREM StreamInOrder == Spec => []InOrder
<1>1. ConnectionInv => InOrder
  <2> SUFFICES ASSUME ConnectionInv PROVE InOrder
    OBVIOUS
  <2>1. HandledTypes /\ InQueueOrder /\ Lengths
    BY DEF ConnectionInv, QueueInv
  <2>2. /\ wire \in Seq(Everything) /\ Queued \in Seq(Everything)
        /\ Len(wire) \in Nat /\ Len(accepted) \in Nat /\ Len(Queued) \in Nat
        /\ repeated \in BOOLEAN
    BY <2>1, BytesTypes DEF HandledTypes
  <2>3. ~ overtaken /\ ~ repeated => IsPrefix(wire, accepted)
    <3>1. ~ overtaken /\ ~ repeated => accepted = wire \o Queued
      BY <2>1 DEF InQueueOrder
    <3>2. IsPrefix(wire, wire \o Queued)
      BY <2>2, PrefixOfConcat
    <3> QED
      BY <3>1, <3>2
  <2>4. repeated <=> Len(wire) + Len(Queued) > Len(accepted)
    BY <2>1, <2>2 DEF Lengths
  <2> QED
    BY <2>3, <2>4 DEF InOrder, Queued
<1> QED
  BY <1>1, ConnectionInvariant, PTL

\* With bytes queued, no loop of an open connection sleeps without an edge that is there or
\* comes when the peer reads, except after a writev that took more than the first segment.
THEOREM NeverStalls == Spec => []NoStall
<1>1. ConnectionInv => NoStall
  BY DEF ConnectionInv, StallInv, Waiting, Queued, Hears, Notified, NoStall
<1> QED
  BY <1>1, ConnectionInvariant, PTL

\* A closed connection writes no more.
THEOREM ClosedIsSilent == Spec => SilentOnceClosed
<1>1. ConnectionInv /\ [Next]_vars => [mClose => wire' = wire]_vars
  <2> SUFFICES ASSUME ConnectionInv, [Next]_vars, mClose PROVE wire' = wire
    OBVIOUS
  <2>0. HandledTypes /\ functions \in Seq(Messages \cup {Close})
    BY DEF ConnectionInv, OtherTypes
  <2>1. CASE \/ EpollWait \/ OnError \/ OnRead \/ OnDeleted \/ RunFunctions
             \/ CallbackCloses \/ CallbackDeletes \/ CallbackReturns
             \/ (\E m \in Messages : Send(m)) \/ ForceClose \/ PeerReads
             \/ PeerSends \/ PeerShuts \/ PeerBreaks \/ UNCHANGED vars
    BY <2>1 DEF EpollWait, OnError, OnRead, OnDeleted, RunFunctions, Send, ForceClose,
                CallbackCloses, CallbackDeletes, CallbackReturns,
                PeerReads, PeerSends, PeerShuts, PeerBreaks, Peer, vars, kernel
  <2>2. CASE OnWrite
    BY <2>2 DEF OnWrite, kernel
  <2>3. CASE CallbackSends
    <3>1. PICK m \in Messages \ sent : SendInLoop(m)
      BY <2>3 DEF CallbackSends
    <3>2. m \in Messages /\ UNCHANGED <<pc, batch, repeated>>
      BY <2>3, <3>1 DEF CallbackSends
    <3> QED
      BY <2>0, <3>1, <3>2, SendInLoopFacts
  <2>4. CASE RunFunction
    <3>1. CASE UNCHANGED kernel
      BY <3>1 DEF kernel
    <3>2. CASE /\ functions # <<>> /\ Head(functions) # Close /\ SendInLoop(Head(functions))
               /\ UNCHANGED <<pc, batch, repeated>>
      <4>1. Head(functions) \in Messages
        BY <2>0, <3>2, HeadTailProperties
      <4> QED
        BY <2>0, <3>2, <4>1, SendInLoopFacts
    <3> QED
      BY <2>4, <3>1, <3>2 DEF RunFunction
  <2> QED
    BY <2>1, <2>2, <2>3, <2>4 DEF Next, Handling
<1> QED
  BY <1>1, ConnectionInvariant, PTL DEF Spec, SilentOnceClosed

-----------------------------------------------------------------------------
(* Paths.                                                                  *)

\* A nonempty set of numbers up to N has a greatest member.
LEMMA GreatestMember ==
  ASSUME NEW N \in Nat, NEW T, T \subseteq 0 .. N, T # {}
  PROVE  \E x \in T : \A y \in T : x >= y
<1> DEFINE U == {k \in 0 .. N : N - k \in T}
<1>1. PICK z \in T : TRUE
  OBVIOUS
<1>2. N - (N - z) = z /\ N - z \in 0 .. N
  BY <1>1
<1>3. U \subseteq Nat /\ N - z \in U
  <2>1. N - (N - z) \in T
    BY <1>1, <1>2
  <2> QED
    BY <1>2, <2>1
<1> HIDE DEF U
<1>4. PICK k \in U : \A j \in U : k <= j
  BY <1>3, LeastMember
<1>5. N - k \in T /\ k \in 0 .. N
  BY <1>4 DEF U
<1>6. ASSUME NEW y \in T PROVE N - k >= y
  <2>1. y \in 0 .. N /\ N - (N - y) = y /\ N - y \in 0 .. N
    BY <1>6
  <2>2. N - y \in U
    BY <1>6, <2>1 DEF U
  <2>3. k <= N - y
    BY <1>4, <2>2
  <2> QED
    BY <1>5, <2>1, <2>3
<1> QED
  BY <1>5, <1>6

\* What find_last_of finds is one of the characters.
LEMMA FindLastOfFacts ==
  ASSUME NEW S, NEW str \in Seq(S), NEW chars
  PROVE  /\ FindLastOf(str, chars) \in 0 .. Len(str)
         /\ FindLastOf(str, chars) # 0 => str[FindLastOf(str, chars)] \in chars
<1> DEFINE T == {Npos} \cup {k \in DOMAIN str : str[k] \in chars}
<1>1. Len(str) \in Nat /\ DOMAIN str = 1 .. Len(str)
  BY LenProperties
<1>2. T \subseteq 0 .. Len(str) /\ T # {}
  BY <1>1 DEF Npos
<1>3. FindLastOf(str, chars) = Max(T)
  BY DEF FindLastOf
<1>4. ASSUME NEW k \in T, k # 0 PROVE str[k] \in chars
  BY <1>4 DEF Npos
<1> HIDE DEF T
<1>5. Max(T) \in T
  BY <1>1, <1>2, GreatestMember DEF Max
<1> QED
  BY <1>2, <1>3, <1>4, <1>5

\* A string cut before and after one of its characters.
LEMMA CutAround ==
  ASSUME NEW S, NEW str \in Seq(S), NEW p \in 1 .. Len(str)
  PROVE  /\ SubSeq(str, 1, p - 1) \in Seq(S) /\ SubSeq(str, p + 1, Len(str)) \in Seq(S)
         /\ Len(SubSeq(str, 1, p - 1)) = p - 1
         /\ Len(SubSeq(str, p + 1, Len(str))) = Len(str) - p
         /\ str = SubSeq(str, 1, p - 1) \o <<str[p]>> \o SubSeq(str, p + 1, Len(str))
<1>1. Len(str) \in Nat /\ p \in Nat /\ \A i \in 1 .. Len(str) : str[i] \in S
  BY LenProperties, ElementOfSeq
<1>2. p - 1 \in Int /\ p + 1 \in Int /\ 1 \in Int /\ Len(str) \in Int
  BY <1>1
<1>3. (\A i \in 1 .. p - 1 : str[i] \in S) /\ (\A i \in p + 1 .. Len(str) : str[i] \in S)
  BY <1>1
<1>4. SubSeq(str, 1, p - 1) \in Seq(S) /\ Len(SubSeq(str, 1, p - 1)) = p - 1
  <2>1. /\ SubSeq(str, 1, p - 1) \in Seq(S)
        /\ Len(SubSeq(str, 1, p - 1)) = IF 1 <= p - 1 THEN (p - 1) - 1 + 1 ELSE 0
    BY <1>2, <1>3, SubSeqProperties
  <2> QED
    BY <1>1, <2>1
<1>5. SubSeq(str, p + 1, Len(str)) \in Seq(S) /\ Len(SubSeq(str, p + 1, Len(str))) = Len(str) - p
  <2>1. /\ SubSeq(str, p + 1, Len(str)) \in Seq(S)
        /\ Len(SubSeq(str, p + 1, Len(str)))
             = IF p + 1 <= Len(str) THEN Len(str) - (p + 1) + 1 ELSE 0
    BY <1>2, <1>3, SubSeqProperties
  <2> QED
    BY <1>1, <2>1
<1>6. SubSeq(str, 1, p) = SubSeq(str, 1, p - 1) \o <<str[p]>>
  <2>1. 1 \in 1 .. Len(str) /\ p \in 1 .. Len(str)
    BY <1>1
  <2> QED
    BY <2>1, SubSeqRecursiveSecond
<1>7. SubSeq(str, 1, p) \o SubSeq(str, p + 1, Len(str)) = str
  <2>1. p \in 0 .. Len(str)
    BY <1>1
  <2> QED
    BY <2>1, Cut
<1> QED
  BY <1>4, <1>5, <1>6, <1>7

\* A string begins and ends with itself.
LEMMA EndsOfItself ==
  ASSUME NEW S, NEW str \in Seq(S)
  PROVE  EndWith(str, str)
<1>1. Len(str) \in Nat /\ SubSeq(str, 1, Len(str)) = str
  BY LenProperties, SubSeqFull
<1>2. (Len(str) - Len(str)) + 1 = 1
  BY <1>1
<1> QED
  BY <1>1, <1>2 DEF EndWith

\* The directory and the file name of a path.
LEMMA PathAndName ==
  ASSUME NEW S, NEW str \in Seq(S)
  PROVE  /\ FileNameExt(str) \in Seq(S)
         /\ EndWith(str, FileNameExt(str))
         /\ IF FindLastOf(str, Slashes) \in {Npos, Len(str)}
            THEN FileNameExt(str) = str
            ELSE \E slash \in Slashes : str = FilePath(str) \o <<slash>> \o FileNameExt(str)
         /\ FilePath(str) # <<Dot, Slash>> => StartsWith(str, FilePath(str))
<1> DEFINE p == FindLastOf(str, Slashes)
<1>0. Len(str) \in Nat
  BY LenProperties
<1>1. p \in 0 .. Len(str) /\ (p # 0 => str[p] \in Slashes)
  BY FindLastOfFacts
<1>2. FileNameExt(str) = IF p # Npos /\ p < Len(str) THEN SubSeq(str, p + 1, Len(str)) ELSE str
  BY DEF FileNameExt
<1>3. FilePath(str) = IF p # Npos THEN SubSeq(str, 1, p - 1) ELSE <<Dot, Slash>>
  BY DEF FilePath
<1> HIDE DEF p
<1>4. CASE p \in {0, Len(str)}
  <2>1. FileNameExt(str) = str
    BY <1>0, <1>1, <1>2, <1>4 DEF Npos
  <2>2. EndWith(str, str)
    BY EndsOfItself
  <2>3. ASSUME p # 0 PROVE StartsWith(str, FilePath(str))
    <3>1. FilePath(str) = SubSeq(str, 1, p - 1) /\ p \in 1 .. Len(str)
      BY <1>0, <1>1, <1>3, <2>3 DEF Npos
    <3>2. Len(FilePath(str)) = p - 1
      BY <3>1, CutAround
    <3> QED
      BY <1>0, <3>1, <3>2 DEF StartsWith
  <2> QED
    BY <1>3, <1>4, <2>1, <2>2, <2>3 DEF p, Npos
<1>5. CASE p \notin {0, Len(str)}
  <2>1. p \in 1 .. Len(str) /\ p < Len(str)
    BY <1>0, <1>1, <1>5
  <2>2. FileNameExt(str) = SubSeq(str, p + 1, Len(str)) /\ FilePath(str) = SubSeq(str, 1, p - 1)
    BY <1>2, <1>3, <1>5, <2>1 DEF Npos
  <2>3. /\ FileNameExt(str) \in Seq(S) /\ Len(FileNameExt(str)) = Len(str) - p
        /\ Len(FilePath(str)) = p - 1
        /\ str = FilePath(str) \o <<str[p]>> \o FileNameExt(str)
    BY <2>1, <2>2, CutAround
  <2>4. str[p] \in Slashes
    BY <1>1, <2>1
  <2>5. EndWith(str, FileNameExt(str))
    <3>1. (Len(str) - Len(FileNameExt(str))) + 1 = p + 1 /\ Len(FileNameExt(str)) <= Len(str)
      BY <1>0, <2>1, <2>3
    <3> QED
      BY <2>2, <3>1 DEF EndWith
  <2>6. StartsWith(str, FilePath(str))
    <3>1. Len(FilePath(str)) = p - 1 /\ p - 1 <= Len(str)
      BY <1>0, <2>1, <2>3
    <3> QED
      BY <2>2, <3>1 DEF StartsWith
  <2> QED
    BY <1>5, <2>3, <2>4, <2>5, <2>6 DEF p, Npos
<1> QED
  BY <1>4, <1>5

\* The name and the extension of a file name.
LEMMA NameAndExtension ==
  ASSUME NEW S, NEW str, NEW name \in Seq(S), name = FileNameExt(str)
  PROVE  IF Extension(str) = name
         THEN FileName(str) \in {name, Front(name)}
         ELSE name = FileName(str) \o <<Dot>> \o Extension(str)
<1> DEFINE p == FindLastOf(name, {Dot})
<1>0. Len(name) \in Nat
  BY LenProperties
<1>1. p \in 0 .. Len(name) /\ (p # 0 => name[p] = Dot)
  BY FindLastOfFacts
<1>2. FileName(str) = IF p # Npos /\ p # 1 THEN SubSeq(name, 1, p - 1) ELSE name
  BY DEF FileName
<1>3. Extension(str)
        = IF p # Npos /\ p # 1 /\ p < Len(name) THEN SubSeq(name, p + 1, Len(name)) ELSE name
  BY DEF Extension
<1> HIDE DEF p
<1>4. CASE p \in {0, 1}
  BY <1>2, <1>3, <1>4 DEF Npos
<1>5. CASE p \notin {0, 1} /\ p = Len(name)
  <2>1. Extension(str) = name
    BY <1>0, <1>3, <1>5
  <2>2. FileName(str) = SubSeq(name, 1, Len(name) - 1)
    BY <1>2, <1>5 DEF Npos
  <2> QED
    BY <2>1, <2>2 DEF Front
<1>6. CASE p \notin {0, 1} /\ p # Len(name)
  <2>1. p \in 1 .. Len(name) /\ p < Len(name)
    BY <1>0, <1>1, <1>6
  <2>2. Extension(str) = SubSeq(name, p + 1, Len(name)) /\ FileName(str) = SubSeq(name, 1, p - 1)
    BY <1>2, <1>3, <1>6, <2>1 DEF Npos
  <2>3. Len(Extension(str)) = Len(name) - p /\ name = FileName(str) \o <<name[p]>> \o Extension(str)
    BY <2>1, <2>2, CutAround
  <2>4. Extension(str) # name
    BY <1>0, <2>1, <2>3
  <2>5. name[p] = Dot
    BY <1>1, <1>6
  <2> QED
    BY <2>3, <2>4, <2>5
<1> QED
  BY <1>4, <1>5, <1>6

-----------------------------------------------------------------------------
(* Splitting.                                                              *)

\* Induction from N down, for a set: the greatest number that is not in it cannot be.
LEMMA DownFromN ==
  ASSUME NEW N \in Nat, NEW T,
         \A x \in 1 .. N : (\A y \in 1 .. N : x < y => y \in T) => x \in T
  PROVE  \A x \in 1 .. N : x \in T
<1> DEFINE U == {x \in 1 .. N : x \notin T}
<1> SUFFICES ASSUME U # {} PROVE FALSE
  OBVIOUS
<1>1. U \subseteq 0 .. N
  OBVIOUS
<1> HIDE DEF U
<1>2. PICK x \in U : \A y \in U : x >= y
  BY <1>1, GreatestMember
<1>3. x \in 1 .. N /\ x \notin T
  BY <1>2 DEF U
<1>4. ASSUME NEW y \in 1 .. N, x < y PROVE y \in T
  <2>1. ~ (x >= y)
    BY <1>3, <1>4
  <2>2. y \notin U
    BY <1>2, <2>1
  <2> QED
    BY <2>2 DEF U
<1> QED
  BY <1>3, <1>4

\* sub begins at position k of str.
Occurs(str, sub, k) ==
  k + Len(sub) <= Len(str) + 1 /\ SubSeq(str, k, k + Len(sub) - 1) = sub

\* What find finds is the first occurrence.
LEMMA FindFacts ==
  ASSUME NEW S, NEW str \in Seq(S), NEW sub \in Seq(S), NEW from \in 1 .. Len(str) + 1
  PROVE  \/ /\ Find(str, sub, from) = Npos
            /\ \A k \in Nat : k >= from => ~ Occurs(str, sub, k)
         \/ /\ Find(str, sub, from) \in Nat /\ Find(str, sub, from) >= from
            /\ Occurs(str, sub, Find(str, sub, from))
            /\ \A k \in Nat : from <= k /\ k < Find(str, sub, from) => ~ Occurs(str, sub, k)
<1> DEFINE places == {k \in from .. Len(str) - Len(sub) + 1 :
                        SubSeq(str, k, k + Len(sub) - 1) = sub}
<1>1. Len(str) \in Nat /\ Len(sub) \in Nat
  BY LenProperties
<1>2. places = {k \in Nat : k >= from /\ Occurs(str, sub, k)}
  <2>1. ASSUME NEW k \in Nat
        PROVE  k \in from .. Len(str) - Len(sub) + 1 <=> k >= from /\ k + Len(sub) <= Len(str) + 1
    BY <1>1
  <2>2. from .. Len(str) - Len(sub) + 1 \subseteq Nat
    BY <1>1
  <2> QED
    BY <2>1, <2>2 DEF Occurs
<1>3. Find(str, sub, from) = IF places = {} THEN Npos ELSE Min(places)
  BY DEF Find
<1> HIDE DEF places
<1>4. CASE places = {}
  BY <1>2, <1>3, <1>4
<1>5. CASE places # {}
  <2>1. places \subseteq Nat
    BY <1>2
  <2>2. Min(places) \in places /\ \A y \in places : Min(places) <= y
    BY <1>5, <2>1, LeastMember DEF Min
  <2>3. Find(str, sub, from) = Min(places)
    BY <1>3, <1>5
  <2> DEFINE m == Min(places)
  <2> HIDE DEF m
  <2>4. m \in Nat /\ m >= from /\ Occurs(str, sub, m)
    BY <1>2, <2>2 DEF m
  <2>5. ASSUME NEW k \in Nat, from <= k, k < m PROVE ~ Occurs(str, sub, k)
    <3>1. ~ (m <= k)
      BY <2>4, <2>5
    <3>2. k \notin places
      BY <2>2, <3>1 DEF m
    <3> QED
      BY <1>2, <2>5, <3>2
  <2> QED
    BY <2>3, <2>4, <2>5 DEF m
<1> QED
  BY <1>4, <1>5

\* What SplitString does from a position on, if f says what it does from later ones.
SplitStep(f, str, delim, last) ==
  LET next == Find(str, delim, last) IN
  IF next # Npos
  THEN <<SubSeq(str, last, next - 1)>> \o f[next + Len(delim)]
  ELSE IF last <= Len(str) THEN <<SubSeq(str, last, Len(str))>> ELSE <<>>

\* f says it for the last n positions.
Splits(f, str, delim, n) ==
  f = [last \in (Len(str) + 2) - n .. Len(str) + 1 |-> SplitStep(f, str, delim, last)]

\* f says it for all.
SplitsAll(f, str, delim) ==
  f = [last \in 1 .. Len(str) + 1 |-> SplitStep(f, str, delim, last)]

\* The recursion goes on after the next delimiter only.
LEMMA SplitStepLater ==
  ASSUME NEW S, NEW str \in Seq(S), NEW delim \in Seq(S), delim # <<>>,
         NEW last \in 1 .. Len(str) + 1, NEW f, NEW g,
         \A k \in 1 .. Len(str) + 1 : last < k => f[k] = g[k]
  PROVE  SplitStep(f, str, delim, last) = SplitStep(g, str, delim, last)
<1> DEFINE next == Find(str, delim, last)
<1>1. Len(str) \in Nat /\ Len(delim) \in Nat /\ Len(delim) # 0
  BY LenProperties, EmptySeq
<1>2. next # Npos => next \in Nat /\ next >= last /\ next + Len(delim) <= Len(str) + 1
  BY FindFacts DEF Occurs
<1> HIDE DEF next
<1>3. next # Npos => next + Len(delim) \in 1 .. Len(str) + 1 /\ last < next + Len(delim)
  BY <1>1, <1>2
<1>4. next # Npos => f[next + Len(delim)] = g[next + Len(delim)]
  BY <1>3
<1> QED
  BY <1>4 DEF SplitStep, next

\* The recursion of SplitString has a solution.
LEMMA SplitsExists ==
  ASSUME NEW S, NEW str \in Seq(S), NEW delim \in Seq(S), delim # <<>>
  PROVE  \E f : SplitsAll(f, str, delim)
<1> DEFINE N == Len(str) + 1
           T == {n \in 0 .. N : \E f : Splits(f, str, delim, n)}
<1>0. Len(str) \in Nat /\ N \in Nat
  BY LenProperties
<1>1. 0 \in T
  <2>1. (Len(str) + 2) - 0 .. Len(str) + 1 = {}
    BY <1>0
  <2>2. Splits([last \in {} |-> 0], str, delim, 0)
    BY <2>1 DEF Splits
  <2> QED
    BY <1>0, <2>2
<1>2. ASSUME NEW n \in 0 .. N - 1, n \in T PROVE n + 1 \in T
  <2>1. PICK f : Splits(f, str, delim, n)
    BY <1>2
  <2> DEFINE D == (Len(str) + 2) - (n + 1) .. Len(str) + 1
             E == (Len(str) + 2) - n .. Len(str) + 1
             g == [last \in D |-> SplitStep(f, str, delim, last)]
  <2>2. E \subseteq D /\ D \subseteq 1 .. N /\ \A last \in D, k \in 1 .. N : last < k => k \in E
    BY <1>0
  <2>3. f = [last \in E |-> SplitStep(f, str, delim, last)]
    BY <2>1 DEF Splits
  <2>4. n + 1 \in 0 .. N
    BY <1>0
  <2>5. g = [last \in D |-> SplitStep(f, str, delim, last)]
    OBVIOUS
  <2>6. Splits(g, str, delim, n + 1) <=> g = [last \in D |-> SplitStep(g, str, delim, last)]
    BY DEF Splits
  <2> HIDE DEF D, E, g
  <2>7. ASSUME NEW k \in E PROVE f[k] = g[k]
    <3>1. f[k] = SplitStep(f, str, delim, k) /\ k \in D
      BY <2>2, <2>3
    <3> QED
      BY <2>5, <3>1
  <2>8. ASSUME NEW last \in D PROVE SplitStep(f, str, delim, last) = SplitStep(g, str, delim, last)
    <3>1. last \in 1 .. Len(str) + 1 /\ \A k \in 1 .. Len(str) + 1 : last < k => f[k] = g[k]
      BY <2>2, <2>7
    <3> QED
      BY <3>1, SplitStepLater
  <2>9. g = [last \in D |-> SplitStep(g, str, delim, last)]
    BY <2>5, <2>8
  <2> QED
    BY <2>4, <2>6, <2>9
<1> HIDE DEF T
<1>3. \A n \in 0 .. N : n \in T
  BY <1>0, <1>1, <1>2, UpToN
<1>4. PICK f : Splits(f, str, delim, N)
  BY <1>0, <1>3 DEF T
<1>5. (Len(str) + 2) - N = 1
  BY <1>0
<1>6. f = [last \in 1 .. Len(str) + 1 |-> SplitStep(f, str, delim, last)]
  BY <1>4, <1>5 DEF Splits
<1> QED
  BY <1>6 DEF SplitsAll

\* The pieces from each position on.
Pieces(str, delim) == CHOOSE f : SplitsAll(f, str, delim)

\* SplitString gives those from the first on.
LEMMA PiecesFacts ==
  ASSUME NEW S, NEW str \in Seq(S), NEW delim \in Seq(S), delim # <<>>
  PROVE  /\ SplitString(str, delim) = Pieces(str, delim)[1]
         /\ \A last \in 1 .. Len(str) + 1 :
              Pieces(str, delim)[last] = SplitStep(Pieces(str, delim), str, delim, last)
<1> DEFINE f == Pieces(str, delim)
<1>1. SplitString(str, delim) = f[1]
  BY DEF SplitString, Pieces, SplitsAll, SplitStep
<1>2. SplitsAll(f, str, delim)
  BY SplitsExists DEF Pieces
<1> HIDE DEF f
<1>3. \A last \in 1 .. Len(str) + 1 : f[last] = SplitStep(f, str, delim, last)
  BY <1>2 DEF SplitsAll
<1> QED
  BY <1>1, <1>3 DEF f

\* Functions on an initial segment of the numbers are sequences.
LEMMA FunctionIsSeq ==
  ASSUME NEW S, NEW n \in Nat, NEW f \in [1 .. n -> S]
  PROVE  f \in Seq(S)
OBVIOUS

\* The pieces of Joined, the delimiter before each but the first.
LEMMA JoinedParts ==
  ASSUME NEW S, NEW pieces \in Seq(Seq(S)), NEW delim \in Seq(S)
  PROVE  /\ [k \in DOMAIN pieces |-> IF k = 1 THEN pieces[k] ELSE delim \o pieces[k]] \in Seq(Seq(S))
         /\ [k \in DOMAIN pieces |-> delim \o pieces[k]] \in Seq(Seq(S))
         /\ Joined(pieces, delim) \in Seq(S)
<1>1. DOMAIN pieces = 1 .. Len(pieces) /\ Len(pieces) \in Nat
  BY LenProperties
<1>2. \A k \in 1 .. Len(pieces) : pieces[k] \in Seq(S)
  BY ElementOfSeq
<1>3. \A k \in 1 .. Len(pieces) : delim \o pieces[k] \in Seq(S)
  BY <1>2, ConcatProperties
<1> DEFINE a == [k \in 1 .. Len(pieces) |-> IF k = 1 THEN pieces[k] ELSE delim \o pieces[k]]
           b == [k \in 1 .. Len(pieces) |-> delim \o pieces[k]]
<1>4. a \in [1 .. Len(pieces) -> Seq(S)] /\ b \in [1 .. Len(pieces) -> Seq(S)]
  BY <1>2, <1>3
<1>5. Joined(pieces, delim) = FlattenSeq(a)
  BY <1>1 DEF Joined
<1> HIDE DEF a, b
<1>6. a \in Seq(Seq(S)) /\ b \in Seq(Seq(S))
  BY <1>1, <1>4, FunctionIsSeq
<1> QED
  BY <1>1, <1>5, <1>6, FlattenType DEF a, b

\* Nothing, and one piece.
LEMMA JoinedFew ==
  ASSUME NEW S, NEW first \in Seq(S), NEW delim
  PROVE  Joined(<<>>, delim) = <<>> /\ Joined(<<first>>, delim) = first
<1>1. Joined(<<>>, delim) = <<>>
  <2>1. [k \in DOMAIN <<>> |-> IF k = 1 THEN <<>>[k] ELSE delim \o <<>>[k]] = <<>>
    OBVIOUS
  <2> QED
    BY <2>1, FlattenEmpty DEF Joined
<1>2. Joined(<<first>>, delim) = first
  <2>1. [k \in DOMAIN <<first>> |-> IF k = 1 THEN <<first>>[k] ELSE delim \o <<first>>[k]] = <<first>>
    OBVIOUS
  <2> QED
    BY <2>1, FlattenOne DEF Joined
<1> QED
  BY <1>1, <1>2

\* What JoinedCons says.
PutsDelimiter(S) ==
  \A first \in Seq(S), pieces \in Seq(Seq(S)), delim \in Seq(S) :
    pieces # <<>> => Joined(<<first>> \o pieces, delim) = first \o (delim \o Joined(pieces, delim))

\* One more piece in front, as a formula that can be expanded where it is needed.
LEMMA JoinedCons == ASSUME NEW S PROVE PutsDelimiter(S)
<1> SUFFICES ASSUME NEW first \in Seq(S), NEW pieces \in Seq(Seq(S)), NEW delim \in Seq(S),
                    pieces # <<>>
             PROVE  Joined(<<first>> \o pieces, delim) = first \o (delim \o Joined(pieces, delim))
  BY DEF PutsDelimiter
<1> DEFINE n == Len(pieces)
           a == [k \in DOMAIN pieces |-> IF k = 1 THEN pieces[k] ELSE delim \o pieces[k]]
           b == [k \in DOMAIN pieces |-> delim \o pieces[k]]
           q == <<first>> \o pieces
           c == [k \in DOMAIN q |-> IF k = 1 THEN q[k] ELSE delim \o q[k]]
<1>0. <<first>> \in Seq(Seq(S)) /\ Len(<<first>>) = 1 /\ <<first>>[1] = first
  OBVIOUS
<1>1. /\ n \in Nat \ {0} /\ DOMAIN pieces = 1 .. n
      /\ q \in Seq(Seq(S)) /\ Len(q) = n + 1 /\ DOMAIN q = 1 .. n + 1
      /\ \A k \in 1 .. n + 1 : q[k] = IF k <= 1 THEN <<first>>[k] ELSE pieces[k - 1]
  BY <1>0, LenProperties, EmptySeq, ConcatProperties
<1>2. a \in Seq(Seq(S)) /\ b \in Seq(Seq(S)) /\ c \in Seq(Seq(S)) /\ Joined(pieces, delim) \in Seq(S)
  BY <1>1, JoinedParts
<1>3. Joined(pieces, delim) = FlattenSeq(a) /\ Joined(q, delim) = FlattenSeq(c)
  BY DEF Joined
<1>4. Len(a) = n /\ Len(b) = n /\ Len(c) = n + 1
  BY <1>1
<1>5. \A k \in 1 .. n : a[k] = (IF k = 1 THEN pieces[k] ELSE delim \o pieces[k]) /\ b[k] = delim \o pieces[k]
  BY <1>1
<1>6. \A k \in 1 .. n + 1 : c[k] = IF k = 1 THEN q[k] ELSE delim \o q[k]
  BY <1>1
<1> HIDE DEF a, b, c, q
<1>7. c = <<first>> \o b
  <2>1. /\ <<first>> \o b \in Seq(Seq(S)) /\ Len(<<first>> \o b) = n + 1
        /\ \A k \in 1 .. n + 1 : (<<first>> \o b)[k] = IF k <= 1 THEN <<first>>[k] ELSE b[k - 1]
    BY <1>0, <1>1, <1>2, <1>4, ConcatProperties
  <2>2. ASSUME NEW k \in 1 .. n + 1 PROVE c[k] = (<<first>> \o b)[k]
    <3>1. CASE k = 1
      BY <1>0, <1>1, <1>6, <2>1, <3>1
    <3>2. CASE k # 1
      <4>1. k - 1 \in 1 .. n /\ ~ (k <= 1)
        BY <1>1, <3>2
      <4>2. c[k] = delim \o pieces[k - 1]
        BY <1>1, <1>6, <3>2, <4>1
      <4>3. (<<first>> \o b)[k] = delim \o pieces[k - 1]
        BY <1>5, <2>1, <4>1
      <4> QED
        BY <4>2, <4>3
    <3> QED
      BY <3>1, <3>2
  <2> QED
    BY <1>2, <1>4, <2>1, <2>2, SeqEqual
<1>8. FlattenSeq(c) = first \o FlattenSeq(b)
  <2>1. FlattenSeq(<<first>> \o b) = FlattenSeq(<<first>>) \o FlattenSeq(b)
    BY <1>0, <1>2, FlattenConcat
  <2>2. FlattenSeq(<<first>>) = first
    BY FlattenOne
  <2> QED
    BY <1>7, <2>1, <2>2
<1>9. FlattenSeq(b) = delim \o FlattenSeq(a)
  <2>1. a # <<>> /\ b # <<>>
    BY <1>1, <1>2, <1>4, EmptySeq
  <2>2. /\ FlattenSeq(Tail(a)) \in Seq(S)
        /\ FlattenSeq(a) = Head(a) \o FlattenSeq(Tail(a))
        /\ FlattenSeq(b) = Head(b) \o FlattenSeq(Tail(b))
    BY <1>2, <2>1, FlattenHead
  <2>3. 1 \in 1 .. n /\ Head(a) = a[1] /\ Head(b) = b[1]
    BY <1>1, <1>2, <2>1
  <2>4. Head(a) = pieces[1] /\ Head(b) = delim \o pieces[1] /\ pieces[1] \in Seq(S)
    BY <1>1, <1>5, <2>3, ElementOfSeq
  <2>5. Tail(a) = Tail(b)
    <3>1. /\ Tail(a) \in Seq(Seq(S)) /\ Len(Tail(a)) = n - 1
          /\ Tail(b) \in Seq(Seq(S)) /\ Len(Tail(b)) = n - 1
          /\ \A k \in 1 .. n - 1 : Tail(a)[k] = a[k + 1] /\ Tail(b)[k] = b[k + 1]
      BY <1>2, <1>4, <2>1, HeadTailProperties
    <3>2. ASSUME NEW k \in 1 .. n - 1 PROVE Tail(a)[k] = Tail(b)[k]
      <4>1. k + 1 \in 1 .. n /\ k + 1 # 1
        BY <1>1
      <4>2. a[k + 1] = b[k + 1]
        BY <1>5, <4>1
      <4> QED
        BY <3>1, <4>2
    <3> QED
      BY <3>1, <3>2, SeqEqual
  <2> DEFINE x == pieces[1]
             y == FlattenSeq(Tail(a))
  <2>6. FlattenSeq(a) = x \o y /\ FlattenSeq(b) = (delim \o x) \o y /\ x \in Seq(S) /\ y \in Seq(S)
    BY <2>2, <2>4, <2>5
  <2> HIDE DEF x, y
  <2>7. (delim \o x) \o y = delim \o (x \o y)
    <3>1. Associative(S)
      BY ConcatIsAssociative
    <3> QED
      BY <2>6, <3>1, Zenon DEF Associative
  <2> QED
    BY <2>6, <2>7
<1> QED
  BY <1>3, <1>8, <1>9 DEF q

\* A piece that ends before the next occurrence has none in it.
LEMMA NoneInPiece ==
  ASSUME NEW S, NEW str \in Seq(S), NEW delim \in Seq(S), delim # <<>>,
         NEW last \in 1 .. Len(str) + 1, NEW end \in last - 1 .. Len(str),
         \A k \in Nat : last <= k /\ k + Len(delim) <= end + 1 => ~ Occurs(str, delim, k)
  PROVE  Find(SubSeq(str, last, end), delim, 1) = Npos
<1> DEFINE piece == SubSeq(str, last, end)
           k == Find(piece, delim, 1)
<1>1. Len(str) \in Nat /\ Len(delim) \in Nat \ {0} /\ \A i \in 1 .. Len(str) : str[i] \in S
  BY LenProperties, ElementOfSeq, EmptySeq
<1>2. piece \in Seq(S) /\ Len(piece) = (end - last) + 1
  <2>1. last \in Int /\ end \in Int /\ \A i \in last .. end : str[i] \in S
    BY <1>1
  <2>2. piece \in Seq(S) /\ Len(piece) = IF last <= end THEN end - last + 1 ELSE 0
    BY <2>1, SubSeqProperties
  <2> QED
    BY <1>1, <2>2
<1> HIDE DEF piece
<1> SUFFICES ASSUME k # Npos PROVE FALSE
  BY DEF piece
<1>3. k \in Nat /\ k >= 1 /\ Occurs(piece, delim, k)
  <2>1. 1 \in 1 .. Len(piece) + 1
    BY <1>1, <1>2
  <2> QED
    BY <1>2, <2>1, FindFacts
<1> HIDE DEF k
<1>4. k + Len(delim) <= (end - last) + 2 /\ SubSeq(piece, k, k + Len(delim) - 1) = delim
  BY <1>1, <1>2, <1>3 DEF Occurs
<1> DEFINE h == k + Len(delim) - 1
<1>5. /\ last \in 1 .. Len(str) /\ end \in 1 .. Len(str)
      /\ k \in 1 .. end - last + 1 /\ h \in 1 .. end - last + 1
  BY <1>1, <1>3, <1>4
<1>6. <<>> \in Seq(S)
  OBVIOUS
<1>7. SubSeq(piece, k, h) = delim
  BY <1>4
<1>8. last + h - 1 = (last + k - 1) + Len(delim) - 1 /\ last + k - 1 \in Nat /\ last <= last + k - 1
  BY <1>1, <1>5
<1>9. (last + k - 1) + Len(delim) <= end + 1 /\ (last + k - 1) + Len(delim) <= Len(str) + 1
  BY <1>1, <1>4, <1>5
<1> HIDE DEF h
<1>10. SubSeq(piece, k, h) = SubSeq(str, last + k - 1, last + h - 1)
  BY <1>5, <1>6, SubSeqOfSubSeq DEF piece
<1>11. SubSeq(str, last + k - 1, (last + k - 1) + Len(delim) - 1) = delim
  BY <1>7, <1>8, <1>10
<1>12. Occurs(str, delim, last + k - 1)
  BY <1>9, <1>11 DEF Occurs
<1> QED
  BY <1>8, <1>9, <1>12

\* What the pieces q from the position last on have to be: none only at the end, joined
\* they are the rest of the string, less a delimiter at its end, and none has one in it.
WellSplit(q, str, delim, last) ==
  /\ q = <<>> <=> last = Len(str) + 1
  /\ SubSeq(str, last, Len(str)) \in {Joined(q, delim), Joined(q, delim) \o delim}
  /\ \A k \in DOMAIN q : Find(q[k], delim, 1) = Npos

\* Splitting at the next occurrence, if what follows is well split.
LEMMA SplitAtNext ==
  ASSUME NEW S, NEW str \in Seq(S), NEW delim \in Seq(S), delim # <<>>,
         NEW last \in 1 .. Len(str) + 1, NEW next \in Nat, next >= last,
         Occurs(str, delim, next),
         \A k \in Nat : last <= k /\ k < next => ~ Occurs(str, delim, k),
         NEW q \in Seq(Seq(S)), WellSplit(q, str, delim, next + Len(delim))
  PROVE  /\ <<SubSeq(str, last, next - 1)>> \o q \in Seq(Seq(S))
         /\ WellSplit(<<SubSeq(str, last, next - 1)>> \o q, str, delim, last)
<1> DEFINE piece == SubSeq(str, last, next - 1)
           n == next + Len(delim)
           rest == SubSeq(str, n, Len(str))
           r == <<piece>> \o q
           whole == SubSeq(str, last, Len(str))
<1>1. Len(str) \in Nat /\ Len(delim) \in Nat \ {0} /\ \A i \in 1 .. Len(str) : str[i] \in S
  BY LenProperties, ElementOfSeq, EmptySeq
<1>2. n \in 1 .. Len(str) + 1 /\ last < n /\ SubSeq(str, next, n - 1) = delim
  BY <1>1 DEF Occurs
<1>3. piece \in Seq(S) /\ rest \in Seq(S)
  <2>1. /\ last \in Int /\ next - 1 \in Int /\ n \in Int /\ Len(str) \in Int
        /\ \A i \in last .. next - 1 : str[i] \in S
        /\ \A i \in n .. Len(str) : str[i] \in S
    BY <1>1, <1>2
  <2> HIDE DEF n
  <2> QED
    BY <2>1, SubSeqProperties
<1>4. whole = piece \o (delim \o rest)
  <2>1. whole = piece \o SubSeq(str, next, Len(str))
    <3>1. /\ last \in 1 .. Len(str) + 1 /\ next - 1 \in last - 1 .. Len(str)
          /\ Len(str) \in next - 1 .. Len(str) /\ (next - 1) + 1 = next
      BY <1>1, <1>2
    <3> QED
      BY <3>1, ConcatAdjacentSubSeq
  <2>2. SubSeq(str, next, Len(str)) = delim \o rest
    <3>1. /\ next \in 1 .. Len(str) + 1 /\ n - 1 \in next - 1 .. Len(str)
          /\ Len(str) \in n - 1 .. Len(str) /\ (n - 1) + 1 = n
      BY <1>1, <1>2
    <3> HIDE DEF n
    <3>2. SubSeq(str, next, n - 1) \o SubSeq(str, (n - 1) + 1, Len(str)) = SubSeq(str, next, Len(str))
      BY <3>1, ConcatAdjacentSubSeq
    <3> QED
      BY <1>2, <3>1, <3>2
  <2> QED
    BY <2>1, <2>2
<1>5. /\ q = <<>> <=> n = Len(str) + 1
      /\ rest \in {Joined(q, delim), Joined(q, delim) \o delim}
      /\ \A k \in DOMAIN q : Find(q[k], delim, 1) = Npos
  BY DEF WellSplit
<1>6. Find(piece, delim, 1) = Npos
  <2>1. next - 1 \in last - 1 .. Len(str)
    BY <1>1, <1>2
  <2>2. ASSUME NEW k \in Nat, last <= k, k + Len(delim) <= (next - 1) + 1
        PROVE  ~ Occurs(str, delim, k)
    <3>1. k < next
      BY <1>1, <2>2
    <3> QED
      BY <2>2, <3>1
  <2> QED
    BY <2>1, <2>2, NoneInPiece
<1>7. rest = <<>> <=> n = Len(str) + 1
  <2>1. n = Len(str) + 1 => rest = <<>>
    BY <1>1, SubSeqEmpty
  <2>2. ASSUME n # Len(str) + 1 PROVE rest # <<>>
    <3>0. n \in 1 .. Len(str) + 1
      BY <1>2
    <3> HIDE DEF n
    <3>1. n \in 1 .. Len(str) /\ Len(str) \in n .. Len(str)
      BY <1>1, <2>2, <3>0
    <3>2. Len(rest) = Len(str) - n + 1
      <4>1. n \in Int /\ Len(str) \in Int /\ n <= Len(str) /\ \A i \in n .. Len(str) : str[i] \in S
        BY <1>1, <3>1
      <4> HIDE DEF n
      <4> QED
        BY <4>1, SubSeqProperties
    <3>3. Len(rest) # 0
      BY <1>1, <3>1, <3>2
    <3> QED
      BY <1>3, <3>3, EmptySeq
  <2> QED
    BY <2>1, <2>2
<1> HIDE DEF piece, n, rest, r, whole
<1>8. r \in Seq(Seq(S)) /\ r # <<>>
  <2>1. <<piece>> \in Seq(Seq(S)) /\ <<piece>> # <<>>
    BY <1>3
  <2> QED
    BY <2>1, ConcatProperties, ConcatEqualIffEmpty DEF r
<1>9. whole \in {Joined(r, delim), Joined(r, delim) \o delim}
  <2>1. CASE q = <<>>
    <3>1. r = <<piece>> /\ Joined(r, delim) = piece
      <4>1. <<piece>> \in Seq(Seq(S))
        BY <1>3
      <4>2. <<piece>> \o <<>> = <<piece>>
        BY <4>1, ConcatEmptySeq
      <4> QED
        BY <1>3, <2>1, <4>2, JoinedFew DEF r
    <3>2. rest = <<>> /\ delim \o rest = delim
      BY <1>5, <1>7, <2>1, ConcatEmptySeq
    <3> QED
      BY <1>4, <3>1, <3>2
  <2>2. CASE q # <<>>
    <3> DEFINE j == Joined(q, delim)
    <3>1. Joined(r, delim) = piece \o (delim \o j)
      <4>1. Joined(<<piece>> \o q, delim) = piece \o (delim \o Joined(q, delim))
        <5>1. PutsDelimiter(S) /\ piece \in Seq(S)
          BY <1>3, JoinedCons
        <5> QED
          BY <2>2, <5>1, Zenon DEF PutsDelimiter
      <4> QED
        BY <4>1 DEF r
    <3>2. j \in Seq(S) /\ delim \o j \in Seq(S)
      BY JoinedParts, ConcatProperties
    <3>3. rest \in {j, j \o delim}
      BY <1>5
    <3> HIDE DEF j
    <3>4. Associative(S)
      BY ConcatIsAssociative
    <3>5. piece \o (delim \o (j \o delim)) = (piece \o (delim \o j)) \o delim
      <4>1. (delim \o j) \o delim = delim \o (j \o delim)
        BY <3>2, <3>4, Zenon DEF Associative
      <4>2. (piece \o (delim \o j)) \o delim = piece \o ((delim \o j) \o delim)
        BY <1>3, <3>2, <3>4, Zenon DEF Associative
      <4> QED
        BY <4>1, <4>2
    <3> QED
      BY <1>4, <3>1, <3>3, <3>5
  <2> QED
    BY <2>1, <2>2
<1>10. ASSUME NEW k \in DOMAIN r PROVE Find(r[k], delim, 1) = Npos
  <2>1. /\ Len(q) \in Nat /\ DOMAIN q = 1 .. Len(q) /\ k \in 1 .. Len(q) + 1
        /\ r[k] = IF k <= 1 THEN piece ELSE q[k - 1]
    <3>1. <<piece>> \in Seq(Seq(S)) /\ Len(<<piece>>) = 1 /\ <<piece>>[1] = piece
      BY <1>3
    <3>2. /\ Len(q) \in Nat /\ DOMAIN q = 1 .. Len(q)
          /\ Len(r) = 1 + Len(q) /\ DOMAIN r = 1 .. Len(r)
          /\ \A i \in 1 .. 1 + Len(q) : r[i] = IF i <= 1 THEN <<piece>>[i] ELSE q[i - 1]
      BY <1>8, <3>1, LenProperties, ConcatProperties DEF r
    <3>3. k \in 1 .. 1 + Len(q) /\ k \in 1 .. Len(q) + 1
      BY <1>10, <3>2
    <3>4. k <= 1 => k = 1
      BY <3>3
    <3> QED
      BY <3>1, <3>2, <3>3, <3>4
  <2>2. k # 1 => k - 1 \in DOMAIN q /\ ~ (k <= 1)
    BY <2>1
  <2> QED
    BY <1>5, <1>6, <2>1, <2>2
<1>11. ~ (last = Len(str) + 1)
  BY <1>1, <1>2
<1> QED
  BY <1>8, <1>9, <1>10, <1>11 DEF WellSplit, whole, r, piece

\* Every rest of a string is well split.
LEMMA PiecesSplitWell ==
  ASSUME NEW S, NEW str \in Seq(S), NEW delim \in Seq(S), delim # <<>>
  PROVE  \A last \in 1 .. Len(str) + 1 :
           /\ Pieces(str, delim)[last] \in Seq(Seq(S))
           /\ WellSplit(Pieces(str, delim)[last], str, delim, last)
<1> DEFINE N == Len(str) + 1
           f == Pieces(str, delim)
           T == {last \in 1 .. N : f[last] \in Seq(Seq(S)) /\ WellSplit(f[last], str, delim, last)}
<1>0. Len(str) \in Nat /\ N \in Nat /\ Len(delim) \in Nat \ {0} /\ \A i \in 1 .. Len(str) : str[i] \in S
  BY LenProperties, EmptySeq, ElementOfSeq
<1>1. ASSUME NEW last \in 1 .. N, \A y \in 1 .. N : last < y => y \in T
      PROVE  last \in T
  <2> DEFINE next == Find(str, delim, last)
  <2>1. f[last] = IF next # Npos
                  THEN <<SubSeq(str, last, next - 1)>> \o f[next + Len(delim)]
                  ELSE IF last <= Len(str) THEN <<SubSeq(str, last, Len(str))>> ELSE <<>>
    BY PiecesFacts DEF SplitStep
  <2>2. \/ next = Npos /\ \A k \in Nat : k >= last => ~ Occurs(str, delim, k)
        \/ /\ next \in Nat /\ next >= last /\ Occurs(str, delim, next)
           /\ \A k \in Nat : last <= k /\ k < next => ~ Occurs(str, delim, k)
    BY FindFacts
  <2> HIDE DEF f, next
  <2>3. CASE next # Npos
    <3>1. /\ next \in Nat /\ next >= last /\ Occurs(str, delim, next)
          /\ \A k \in Nat : last <= k /\ k < next => ~ Occurs(str, delim, k)
      BY <2>2, <2>3
    <3>2. next + Len(delim) \in 1 .. N /\ last < next + Len(delim)
      BY <1>0, <3>1 DEF Occurs
    <3> DEFINE q == f[next + Len(delim)]
    <3>3. q \in Seq(Seq(S)) /\ WellSplit(q, str, delim, next + Len(delim))
      BY <1>1, <3>2
    <3>4. f[last] = <<SubSeq(str, last, next - 1)>> \o q
      BY <2>1, <2>3
    <3> HIDE DEF q
    <3>5. /\ <<SubSeq(str, last, next - 1)>> \o q \in Seq(Seq(S))
          /\ WellSplit(<<SubSeq(str, last, next - 1)>> \o q, str, delim, last)
      BY <3>1, <3>3, SplitAtNext
    <3> QED
      BY <3>4, <3>5
  <2>4. CASE next = Npos /\ last <= Len(str)
    <3> DEFINE piece == SubSeq(str, last, Len(str))
    <3>1. f[last] = <<piece>>
      BY <2>1, <2>4
    <3>2. piece \in Seq(S)
      <4>1. last \in Int /\ Len(str) \in Int /\ \A i \in last .. Len(str) : str[i] \in S
        BY <1>0
      <4> QED
        BY <4>1, SubSeqProperties
    <3>3. Find(piece, delim, 1) = Npos
      <4>1. last \in 1 .. Len(str) + 1 /\ Len(str) \in last - 1 .. Len(str)
        BY <1>0, <2>4
      <4>2. \A k \in Nat : last <= k /\ k + Len(delim) <= Len(str) + 1 => ~ Occurs(str, delim, k)
        <5>1. \A k \in Nat : k >= last => ~ Occurs(str, delim, k)
          BY <2>2, <2>4 DEF Npos
        <5>2. \A k \in Nat : last <= k => k >= last
          BY <1>0
        <5> QED
          BY <5>1, <5>2
      <4> QED
        BY <4>1, <4>2, NoneInPiece
    <3> HIDE DEF piece
    <3>4. Joined(<<piece>>, delim) = piece
      BY <3>2, JoinedFew
    <3>5. <<piece>> \in Seq(Seq(S)) /\ <<piece>> # <<>> /\ DOMAIN <<piece>> = {1} /\ <<piece>>[1] = piece
      BY <3>2
    <3>6. last # Len(str) + 1
      BY <1>0, <2>4
    <3>7. WellSplit(<<piece>>, str, delim, last)
      BY <3>3, <3>4, <3>5, <3>6 DEF WellSplit, piece
    <3> QED
      BY <3>1, <3>5, <3>7
  <2>5. CASE next = Npos /\ ~ (last <= Len(str))
    <3>1. f[last] = <<>> /\ last = Len(str) + 1
      BY <1>0, <2>1, <2>5
    <3>2. SubSeq(str, last, Len(str)) = <<>>
      BY <1>0, <3>1, SubSeqEmpty
    <3>3. Joined(<<>>, delim) = <<>>
      <4>1. delim \in Seq(S) /\ <<>> \in Seq(Seq(S))
        OBVIOUS
      <4> QED
        BY <4>1, JoinedFew
    <3>4. <<>> \in Seq(Seq(S)) /\ DOMAIN <<>> = {}
      OBVIOUS
    <3>5. WellSplit(<<>>, str, delim, last)
      BY <3>1, <3>2, <3>3, <3>4 DEF WellSplit
    <3> QED
      BY <3>1, <3>4, <3>5
  <2> QED
    BY <2>3, <2>4, <2>5
<1> HIDE DEF T
<1>2. \A last \in 1 .. N : last \in T
  BY <1>0, <1>1, DownFromN
<1> QED
  BY <1>2 DEF T

\* A single character occurs where it stands.
LEMMA CharacterOccurs ==
  ASSUME NEW S, NEW str \in Seq(S), NEW d \in S, NEW k \in Nat, k >= 1
  PROVE  Occurs(str, <<d>>, k) <=> k <= Len(str) /\ str[k] = d
<1>1. Len(str) \in Nat /\ Len(<<d>>) = 1 /\ k + 1 - 1 = k
  BY LenProperties
<1>2. Occurs(str, <<d>>, k) <=> k <= Len(str) /\ SubSeq(str, k, k) = <<d>>
  BY <1>1 DEF Occurs
<1>3. ASSUME k <= Len(str) PROVE SubSeq(str, k, k) = <<str[k]>>
  <2>1. k \in 1 .. Len(str) /\ k \in k .. Len(str) /\ k \in Int /\ k + 1 \in Int /\ k < k + 1
    BY <1>1, <1>3
  <2>2. SubSeq(str, k, k) = <<str[k]>> \o SubSeq(str, k + 1, k)
    BY <2>1, SubSeqRecursiveFirst
  <2>3. SubSeq(str, k + 1, k) = <<>>
    BY <2>1, SubSeqEmpty
  <2>4. <<str[k]>> \in Seq(S)
    <3>1. str[k] \in S
      BY <2>1, ElementOfSeq
    <3> QED
      BY <3>1
  <2>5. <<str[k]>> \o <<>> = <<str[k]>>
    BY <2>4, ConcatEmptySeq
  <2> QED
    BY <2>2, <2>3, <2>5
<1>4. \A x, y : <<x>> = <<y>> <=> x = y
  OBVIOUS
<1> QED
  BY <1>2, <1>3, <1>4

\* The characters of strings and delimiters.
Alphabet == Characters \cup Delimiters

\* The strings and the delimiters are over one alphabet.
LEMMA StringTypes ==
  /\ \A x \in Strings : x \in Seq(Alphabet)
  /\ \A a, b \in Delimiters : <<a>> \in Seq(Alphabet) /\ <<a, b>> \in Seq(Alphabet)
<1>1. ASSUME NEW x \in Strings PROVE x \in Seq(Alphabet)
  <2>1. x \in Seq(Characters)
    BY StringsAssumption
  <2>2. Len(x) \in Nat /\ x \in [1 .. Len(x) -> Characters]
    BY <2>1, LenProperties
  <2>3. x \in [1 .. Len(x) -> Alphabet]
    BY <2>2 DEF Alphabet
  <2> QED
    BY <2>2, <2>3, FunctionIsSeq
<1>2. Delimiters \subseteq Alphabet
  BY DEF Alphabet
<1> QED
  BY <1>1, <1>2

\* What the machine has still to say of the string: tmp is the piece under way, from
\* Start on, and has no delimiter in it; and result, with the pieces that the search
\* finds from Start on, is all that it finds.
Start == pos - Len(tmp)

SplitTypes ==
  /\ s \in Strings /\ delimiter \in Delimiters /\ state \in {"normal", "delimiter", "end"}
  /\ pos \in 1 .. Len(s) + 1
  /\ tmp \in Seq(Alphabet) /\ result \in Seq(Seq(Alphabet)) /\ Len(tmp) < pos

UnderWay ==
  /\ tmp = SubSeq(s, Start, pos - 1)
  /\ \A k \in Start .. pos - 1 : s[k] # delimiter
  /\ result \o Pieces(s, <<delimiter>>)[Start] = SplitString(s, <<delimiter>>)

SplitInv ==
  /\ SplitTypes
  /\ state = "delimiter" => pos <= Len(s) /\ s[pos] = delimiter
  /\ state = "end" => result = SplitString(s, <<delimiter>>)
  /\ state # "end" => UnderWay

\* What the search does from Start on: nothing up to pos is a delimiter.
LEMMA SearchFromStart ==
  ASSUME SplitTypes, UnderWay
  PROVE  /\ Len(s) \in Nat /\ Start \in 1 .. Len(s) + 1 /\ Start <= pos
         /\ s \in Seq(Alphabet) /\ <<delimiter>> \in Seq(Alphabet)
         /\ pos <= Len(s) /\ s[pos] = delimiter =>
              Pieces(s, <<delimiter>>)[Start] = <<tmp>> \o Pieces(s, <<delimiter>>)[pos + 1]
         /\ pos = Len(s) + 1 =>
              Pieces(s, <<delimiter>>)[Start] = IF tmp # <<>> THEN <<tmp>> ELSE <<>>
<1> DEFINE f == Pieces(s, <<delimiter>>)
           next == Find(s, <<delimiter>>, Start)
<1>1. /\ s \in Seq(Alphabet) /\ <<delimiter>> \in Seq(Alphabet) /\ delimiter \in Alphabet
      /\ <<delimiter>> # <<>> /\ Len(<<delimiter>>) = 1
      /\ Len(s) \in Nat /\ Len(tmp) \in Nat
  BY StringTypes, LenProperties DEF SplitTypes, Alphabet
<1>2. pos \in 1 .. Len(s) + 1 /\ Start \in 1 .. Len(s) + 1 /\ Start <= pos /\ Len(tmp) = pos - Start
  BY <1>1 DEF SplitTypes, Start
<1> HIDE DEF Start
<1>3. f[Start] = IF next # Npos
                 THEN <<SubSeq(s, Start, next - 1)>> \o f[next + 1]
                 ELSE IF Start <= Len(s) THEN <<SubSeq(s, Start, Len(s))>> ELSE <<>>
  <2>1. f[Start] = SplitStep(f, s, <<delimiter>>, Start)
    BY <1>1, <1>2, PiecesFacts
  <2> QED
    BY <1>1, <2>1 DEF SplitStep
<1>4. \/ next = Npos /\ \A k \in Nat : k >= Start => ~ Occurs(s, <<delimiter>>, k)
      \/ /\ next \in Nat /\ next >= Start /\ Occurs(s, <<delimiter>>, next)
         /\ \A k \in Nat : Start <= k /\ k < next => ~ Occurs(s, <<delimiter>>, k)
  BY <1>1, <1>2, FindFacts
<1> HIDE DEF f, next
<1>5. \A k \in Nat : k >= 1 => (Occurs(s, <<delimiter>>, k) <=> k <= Len(s) /\ s[k] = delimiter)
  BY <1>1, CharacterOccurs
<1>6. \A k \in Start .. pos - 1 : s[k] # delimiter
  BY DEF UnderWay
<1>7. tmp = SubSeq(s, Start, pos - 1)
  BY DEF UnderWay
<1>8. ASSUME pos <= Len(s), s[pos] = delimiter
      PROVE  f[Start] = <<tmp>> \o f[pos + 1]
  <2>1. pos \in Nat /\ pos >= 1 /\ pos >= Start /\ Occurs(s, <<delimiter>>, pos)
    BY <1>2, <1>5, <1>8
  <2>2. next \in Nat /\ next >= Start /\ s[next] = delimiter
    BY <1>2, <1>4, <1>5, <2>1
  <2>3. ~ (next < pos)
    BY <1>2, <1>6, <2>2
  <2>4. ~ (pos < next)
    BY <1>2, <1>4, <2>1, <2>2 DEF Npos
  <2>5. next = pos /\ next # Npos
    BY <1>2, <2>2, <2>3, <2>4 DEF Npos
  <2> QED
    BY <1>3, <1>7, <2>5
<1>9. ASSUME pos = Len(s) + 1
      PROVE  f[Start] = IF tmp # <<>> THEN <<tmp>> ELSE <<>>
  <2>1. next = Npos
    <3> SUFFICES ASSUME next # Npos PROVE FALSE
      OBVIOUS
    <3>1. next \in Nat /\ next >= Start /\ Occurs(s, <<delimiter>>, next)
      BY <1>4
    <3>2. next <= Len(s) /\ s[next] = delimiter
      BY <1>2, <1>5, <3>1
    <3>3. next \in Start .. pos - 1
      BY <1>1, <1>2, <1>9, <3>1, <3>2
    <3> QED
      BY <1>6, <3>2, <3>3
  <2>2. pos - 1 = Len(s)
    BY <1>1, <1>9
  <2>3. tmp = SubSeq(s, Start, Len(s))
    BY <1>7, <2>2
  <2>4. Len(tmp) = 0 <=> ~ (Start <= Len(s))
    BY <1>1, <1>2, <1>9
  <2>5. tmp # <<>> <=> Start <= Len(s)
    <3>1. tmp \in Seq(Alphabet)
      BY DEF SplitTypes
    <3> QED
      BY <2>4, <3>1, EmptySeq
  <2> QED
    BY <1>3, <2>1, <2>3, <2>5
<1> QED
  BY <1>1, <1>2, <1>8, <1>9 DEF f

\* It holds when the machine starts ...
LEMMA SplitInvInit == SplitInit => SplitInv
<1> SUFFICES ASSUME SplitInit PROVE SplitInv
  OBVIOUS
<1>1. /\ s \in Strings /\ delimiter \in Delimiters /\ state = "normal" /\ pos = 1
      /\ tmp = <<>> /\ result = <<>>
  BY DEF SplitInit
<1>2. /\ s \in Seq(Alphabet) /\ <<delimiter>> \in Seq(Alphabet) /\ <<delimiter>> # <<>>
      /\ Len(s) \in Nat
  BY <1>1, StringTypes, LenProperties
<1>3. Len(tmp) = 0 /\ Start = 1
  BY <1>1 DEF Start
<1>4. SplitTypes
  BY <1>1, <1>2, <1>3 DEF SplitTypes
<1>5. UnderWay
  <2>1. SubSeq(s, 1, 0) = <<>>
    BY SubSeqEmpty
  <2>2. SplitString(s, <<delimiter>>) = Pieces(s, <<delimiter>>)[1]
    BY <1>2, PiecesFacts
  <2>3. Pieces(s, <<delimiter>>)[1] \in Seq(Seq(Alphabet))
    <3>1. 1 \in 1 .. Len(s) + 1
      BY <1>2
    <3> QED
      BY <1>2, <3>1, PiecesSplitWell
  <2>4. <<>> \o Pieces(s, <<delimiter>>)[1] = Pieces(s, <<delimiter>>)[1]
    BY <2>3, ConcatEmptySeq
  <2>5. pos - 1 = 0 /\ Start .. pos - 1 = {}
    BY <1>1, <1>3
  <2> QED
    BY <1>1, <1>3, <2>1, <2>2, <2>4, <2>5 DEF UnderWay
<1> QED
  BY <1>1, <1>4, <1>5 DEF SplitInv

\* A character is kept, or found to be the delimiter.
LEMMA NormalKeeps == SplitInv /\ Normal => SplitInv'
<1> SUFFICES ASSUME SplitInv, Normal PROVE SplitInv'
  OBVIOUS
<1>1. /\ state = "normal" /\ pos <= Len(s)
      /\ s' = s /\ delimiter' = delimiter /\ result' = result
  BY DEF Normal
<1>2. SplitTypes /\ UnderWay
  BY <1>1 DEF SplitInv
<1>3. Len(s) \in Nat /\ Start \in 1 .. Len(s) + 1 /\ Start <= pos /\ s \in Seq(Alphabet)
  BY <1>2, SearchFromStart
<1>4. CASE s[pos] = delimiter
  <2>1. state' = "delimiter" /\ pos' = pos /\ tmp' = tmp
    BY <1>4 DEF Normal
  <2>2. Start' = Start
    BY <2>1 DEF Start
  <2>3. SplitTypes' /\ UnderWay'
    BY <1>1, <1>2, <2>1, <2>2 DEF SplitTypes, UnderWay
  <2> QED
    BY <1>1, <1>4, <2>1, <2>3 DEF SplitInv
<1>5. CASE s[pos] # delimiter
  <2>1. state' = "normal" /\ pos' = pos + 1 /\ tmp' = Append(tmp, s[pos])
    BY <1>1, <1>5 DEF Normal
  <2>2. /\ pos \in 1 .. Len(s) /\ tmp \in Seq(Alphabet) /\ Len(tmp) \in Nat
        /\ Len(tmp) < pos /\ tmp = SubSeq(s, Start, pos - 1)
        /\ \A k \in Start .. pos - 1 : s[k] # delimiter
    BY <1>1, <1>2, <1>3, LenProperties DEF SplitTypes, UnderWay
  <2>3. s[pos] \in Alphabet
    BY <1>3, <2>2, ElementOfSeq
  <2>4. /\ Append(tmp, s[pos]) \in Seq(Alphabet) /\ Len(Append(tmp, s[pos])) = Len(tmp) + 1
        /\ Append(tmp, s[pos]) = tmp \o <<s[pos]>>
    BY <2>2, <2>3, AppendProperties, AppendIsConcat
  <2>5. Start' = Start
    BY <2>1, <2>2, <2>4 DEF Start
  <2>6. tmp' = SubSeq(s, Start, pos)
    <3>1. Start \in 1 .. Len(s) /\ pos \in Start .. Len(s)
      BY <1>3, <2>2
    <3>2. SubSeq(s, Start, pos) = SubSeq(s, Start, pos - 1) \o <<s[pos]>>
      BY <1>3, <3>1, SubSeqRecursiveSecond
    <3> QED
      BY <2>1, <2>2, <2>4, <3>2
  <2>7. pos' - 1 = pos /\ pos' \in 1 .. Len(s) + 1 /\ Len(tmp') < pos'
    BY <1>3, <2>1, <2>2, <2>4
  <2>8. \A k \in Start .. pos : s[k] # delimiter
    <3>1. \A k \in Start .. pos : k = pos \/ k \in Start .. pos - 1
      BY <1>3, <2>2
    <3> QED
      BY <1>5, <2>2, <3>1
  <2>9. SplitTypes'
    BY <1>1, <1>2, <2>1, <2>4, <2>7 DEF SplitTypes
  <2>10. UnderWay'
    BY <1>1, <1>2, <2>5, <2>6, <2>7, <2>8 DEF UnderWay
  <2> QED
    BY <2>1, <2>9, <2>10 DEF SplitInv
<1> QED
  BY <1>4, <1>5

\* A delimiter ends the piece.
LEMMA DelimiterKeeps == SplitInv /\ Delimiter => SplitInv'
<1> SUFFICES ASSUME SplitInv, Delimiter PROVE SplitInv'
  OBVIOUS
<1>1. /\ state = "delimiter" /\ state' = "normal"
      /\ result' = Append(result, tmp) /\ tmp' = <<>> /\ pos' = pos + 1
      /\ s' = s /\ delimiter' = delimiter
  BY DEF Delimiter
<1>2. SplitTypes /\ UnderWay /\ pos <= Len(s) /\ s[pos] = delimiter
  BY <1>1 DEF SplitInv
<1> DEFINE f == Pieces(s, <<delimiter>>)
<1>3. /\ Len(s) \in Nat /\ s \in Seq(Alphabet) /\ <<delimiter>> \in Seq(Alphabet)
      /\ f[Start] = <<tmp>> \o f[pos + 1]
  BY <1>2, SearchFromStart
<1>4. /\ pos \in 1 .. Len(s) /\ tmp \in Seq(Alphabet) /\ result \in Seq(Seq(Alphabet))
      /\ result \o f[Start] = SplitString(s, <<delimiter>>)
  <2>1. pos \in 1 .. Len(s) + 1 /\ tmp \in Seq(Alphabet) /\ result \in Seq(Seq(Alphabet))
    BY <1>2 DEF SplitTypes
  <2>2. result \o f[Start] = SplitString(s, <<delimiter>>)
    BY <1>2 DEF UnderWay
  <2>3. pos \in 1 .. Len(s)
    BY <1>2, <1>3, <2>1
  <2> QED
    BY <2>1, <2>2, <2>3
<1>5. f[pos + 1] \in Seq(Seq(Alphabet))
  <2>1. pos + 1 \in 1 .. Len(s) + 1 /\ <<delimiter>> # <<>>
    BY <1>3, <1>4
  <2> QED
    BY <1>3, <2>1, PiecesSplitWell
<1>6. f' = f
  BY <1>1
<1> HIDE DEF f
<1>7. /\ Append(result, tmp) \in Seq(Seq(Alphabet)) /\ Append(result, tmp) = result \o <<tmp>>
      /\ <<tmp>> \in Seq(Seq(Alphabet))
  BY <1>4, AppendProperties, AppendIsConcat
<1>8. (result \o <<tmp>>) \o f[pos + 1] = result \o (<<tmp>> \o f[pos + 1])
  <2>1. Associative(Seq(Alphabet))
    BY ConcatIsAssociative
  <2> QED
    BY <1>4, <1>5, <1>7, <2>1, Zenon DEF Associative
<1>9. result' \o f[pos + 1] = SplitString(s, <<delimiter>>)
  BY <1>1, <1>3, <1>4, <1>7, <1>8
<1>10. /\ Start' = pos + 1 /\ pos' - 1 = pos /\ pos' \in 1 .. Len(s) + 1 /\ Len(tmp') < pos'
       /\ Start' .. pos' - 1 = {}
  BY <1>1, <1>3, <1>4 DEF Start
<1>11. <<>> \in Seq(Alphabet) /\ SubSeq(s, pos + 1, pos) = <<>>
  BY <1>4, SubSeqEmpty
<1>12. SplitTypes'
  BY <1>1, <1>2, <1>7, <1>10, <1>11 DEF SplitTypes
<1>13. UnderWay'
  <2>1. f'[Start'] = f[pos + 1]
    BY <1>6, <1>10
  <2>2. result' \o f'[Start'] = SplitString(s', <<delimiter'>>)
    BY <1>1, <1>9, <2>1
  <2>3. tmp' = SubSeq(s', Start', pos' - 1)
    BY <1>1, <1>10, <1>11
  <2> QED
    BY <1>10, <2>2, <2>3 DEF UnderWay, f
<1> QED
  BY <1>1, <1>12, <1>13 DEF SplitInv

\* At the end what is left of the string is the last piece, if there is any.
LEMMA EndKeeps == SplitInv /\ End => SplitInv'
<1> SUFFICES ASSUME SplitInv, End PROVE SplitInv'
  OBVIOUS
<1>1. /\ state = "normal" /\ pos > Len(s) /\ state' = "end"
      /\ result' = IF tmp # <<>> THEN Append(result, tmp) ELSE result
      /\ s' = s /\ delimiter' = delimiter /\ pos' = pos /\ tmp' = tmp
  BY DEF End
<1>2. SplitTypes /\ UnderWay
  BY <1>1 DEF SplitInv
<1>3. Len(s) \in Nat
  BY <1>2, SearchFromStart
<1>4. /\ pos = Len(s) + 1 /\ tmp \in Seq(Alphabet) /\ result \in Seq(Seq(Alphabet))
      /\ result \o Pieces(s, <<delimiter>>)[Start] = SplitString(s, <<delimiter>>)
  <2>1. pos \in 1 .. Len(s) + 1 /\ tmp \in Seq(Alphabet) /\ result \in Seq(Seq(Alphabet))
    BY <1>2 DEF SplitTypes
  <2>2. result \o Pieces(s, <<delimiter>>)[Start] = SplitString(s, <<delimiter>>)
    BY <1>2 DEF UnderWay
  <2>3. pos = Len(s) + 1
    BY <1>1, <1>3, <2>1
  <2> QED
    BY <2>1, <2>2, <2>3
<1>5. Pieces(s, <<delimiter>>)[Start] = IF tmp # <<>> THEN <<tmp>> ELSE <<>>
  BY <1>2, <1>4, SearchFromStart
<1>6. /\ Append(result, tmp) \in Seq(Seq(Alphabet)) /\ Append(result, tmp) = result \o <<tmp>>
      /\ result \o <<>> = result
  BY <1>4, AppendProperties, AppendIsConcat, ConcatEmptySeq
<1>7. result' = SplitString(s, <<delimiter>>)
  BY <1>1, <1>4, <1>5, <1>6
<1>8. SplitTypes'
  BY <1>1, <1>2, <1>6 DEF SplitTypes
<1> QED
  BY <1>1, <1>7, <1>8 DEF SplitInv

\* ... after every step ...
LEMMA SplitInvStep == SplitInv /\ [SplitNext]_splitVars => SplitInv'
<1>1. SplitInv /\ UNCHANGED splitVars => SplitInv'
  BY DEF SplitInv, SplitTypes, UnderWay, Start, splitVars
<1> QED
  BY <1>1, NormalKeeps, DelimiterKeeps, EndKeeps DEF SplitNext

\* ... and always.
LEMMA SplitInvariant == SplitSpec => []SplitInv
  BY SplitInvInit, SplitInvStep, PTL DEF SplitSpec

\* The two splitters agree, and what they split joins to the string again: for any
\* strings and delimiters of one or two characters.
THEOREM SplittersAgree == SplitSpec => []SplitsBack
<1>1. ASSUME SplitInv PROVE SplitsBack
  <2> SUFFICES ASSUME state = "end" 
               PROVE  /\ result = SplitString(s, <<delimiter>>)
                      /\ \A a, b \in Delimiters : \A delim \in {<<a>>, <<a, b>>} :
                           LET pieces == SplitString(s, delim) IN
                           /\ s \in {Joined(pieces, delim), Joined(pieces, delim) \o delim}
                           /\ \A k \in DOMAIN pieces : Find(pieces[k], delim, 1) = Npos
    BY DEF SplitsBack
  <2>1. result = SplitString(s, <<delimiter>>) /\ s \in Seq(Alphabet)
    BY <1>1, StringTypes DEF SplitInv, SplitTypes
  <2>2. ASSUME NEW a \in Delimiters, NEW b \in Delimiters, NEW delim \in {<<a>>, <<a, b>>}
        PROVE  /\ s \in {Joined(SplitString(s, delim), delim), Joined(SplitString(s, delim), delim) \o delim}
               /\ \A k \in DOMAIN SplitString(s, delim) : Find(SplitString(s, delim)[k], delim, 1) = Npos
    <3>1. delim \in Seq(Alphabet) /\ delim # <<>>
      <4>1. <<a>> \in Seq(Alphabet) /\ <<a, b>> \in Seq(Alphabet)
        BY StringTypes
      <4>2. <<a>> # <<>> /\ <<a, b>> # <<>>
        OBVIOUS
      <4> QED
        BY <4>1, <4>2
    <3>2. SplitString(s, delim) = Pieces(s, delim)[1]
      BY <2>1, <3>1, PiecesFacts
    <3>3. 1 \in 1 .. Len(s) + 1 /\ SubSeq(s, 1, Len(s)) = s
      BY <2>1, LenProperties, SubSeqFull
    <3>4. WellSplit(Pieces(s, delim)[1], s, delim, 1)
      BY <2>1, <3>1, <3>3, PiecesSplitWell
    <3>5. WellSplit(SplitString(s, delim), s, delim, 1)
      BY <3>2, <3>4
    <3> HIDE DEF SplitString
    <3> QED
      BY <3>3, <3>5 DEF WellSplit
  <2> QED
    BY <2>1, <2>2
<1> QED
  BY <1>1, SplitInvariant, PTL

\* A path comes apart in a directory and a file name, and this in a name and an
\* extension, for any path.
THEOREM PathsComeApart == SplitSpec => []PathParts
<1>1. ASSUME SplitInv PROVE PathParts
  <2>1. s \in Seq(Alphabet)
    BY <1>1, StringTypes DEF SplitInv, SplitTypes
  <2>2. /\ FileNameExt(s) \in Seq(Alphabet)
        /\ EndWith(s, FileNameExt(s))
        /\ IF FindLastOf(s, Slashes) \in {Npos, Len(s)}
           THEN FileNameExt(s) = s
           ELSE \E slash \in Slashes : s = FilePath(s) \o <<slash>> \o FileNameExt(s)
        /\ FilePath(s) # <<Dot, Slash>> => StartsWith(s, FilePath(s))
    BY <2>1, PathAndName
  <2>3. IF Extension(s) = FileNameExt(s)
        THEN FileName(s) \in {FileNameExt(s), Front(FileNameExt(s))}
        ELSE FileNameExt(s) = FileName(s) \o <<Dot>> \o Extension(s)
    BY <2>2, NameAndExtension
  <2> HIDE DEF FileNameExt, Extension, FilePath
  <2> QED
    BY <2>2, <2>3 DEF PathParts
<1> QED
  BY <1>1, SplitInvariant, PTL
=============================================================================
