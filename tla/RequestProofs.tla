--------------------------- MODULE RequestProofs ---------------------------
(***************************************************************************)
(* Proofs about the two requests an action puts together from its inputs:  *)
(* that of VersionRequest, for any names and accounts, any inputs and any  *)
(* changes of the accounts while the run goes on, and that of              *)
(* ContainerCube with the outputs that follow it, for any inputs, any      *)
(* width of integers and any cubes.  Both rest on what the parsers of      *)
(* EnvParser do with lists of any length, so the module begins with        *)
(* sequences.                                                              *)
(***************************************************************************)
EXTENDS VersionRequest, ContainerCube, SequenceTheorems, WellFoundedInduction, TLAPS

(***************************************************************************)
(* Sequences.                                                              *)
(***************************************************************************)
\* Induction, for a set in place of a predicate: the numbers that are not in
\* the set would have a least one.
LEMMA NatSetInduction ==
    ASSUME NEW S, 0 \in S, \A n \in Nat : n \in S => n + 1 \in S
    PROVE  \A n \in Nat : n \in S
<1> DEFINE less == {p \in Nat \X Nat : p[1] < p[2]}
           Others1 == Nat \ S
<1>1. IsWellFoundedOn(less, Nat)
  <2>1. OpToRel(<, Nat) = less
      BY DEF OpToRel
  <2> QED
      BY <2>1, NatLessThanWellFounded
<1>2. SUFFICES ASSUME Others1 # {} PROVE FALSE
    OBVIOUS
<1>3. PICK m \in Others1 : \A n \in Others1 : <<n, m>> \notin less
  <2> HIDE DEF less
  <2> QED
      BY <1>1, <1>2, WFMin
<1>4. m \in Nat /\ m # 0 /\ m - 1 \in Nat /\ m - 1 < m /\ (m - 1) + 1 = m
    OBVIOUS
<1>5. <<m - 1, m>> \in less
    BY <1>4
<1> QED
    BY <1>3, <1>4, <1>5

\* The recursive function of FlattenSeq, up to the k-th sequence.
Joins(f, seqs, k) ==
    f = [i \in 1 .. k |-> IF i = 1 THEN seqs[i] ELSE f[i - 1] \o seqs[i]]

\* It exists for every k.
LEMMA JoinsExist ==
    ASSUME NEW seqs, NEW m \in Nat
    PROVE  \E f : Joins(f, seqs, m)
<1> DEFINE S == {k \in Nat : \E f : Joins(f, seqs, k)}
<1>1. 0 \in S
  <2>1. Joins([i \in 1 .. 0 |-> <<>>], seqs, 0)
      BY DEF Joins
  <2> QED
      BY <2>1
<1>2. ASSUME NEW k \in Nat, k \in S
      PROVE  k + 1 \in S
  <2>1. PICK f : Joins(f, seqs, k)
      BY <1>2
  <2> DEFINE last == IF k + 1 = 1 THEN seqs[k + 1] ELSE f[k] \o seqs[k + 1]
             h == [i \in 1 .. k + 1 |-> IF i = k + 1 THEN last ELSE f[i]]
  <2>2. h = [i \in 1 .. k + 1 |-> h[i]]
      OBVIOUS
  <2>3. h[k + 1] = last
      OBVIOUS
  <2>6. \A i \in 1 .. k : h[i] = f[i]
      OBVIOUS
  <2> HIDE DEF h
  <2>4. ASSUME NEW i \in 1 .. k + 1
        PROVE  h[i] = IF i = 1 THEN seqs[i] ELSE h[i - 1] \o seqs[i]
    <3>1. CASE i = k + 1
        BY <2>3, <2>6, <3>1
    <3>2. CASE i \in 1 .. k
      <4>1. f[i] = IF i = 1 THEN seqs[i] ELSE f[i - 1] \o seqs[i]
          BY <2>1, <3>2 DEF Joins
      <4> QED
          BY <2>6, <3>2, <4>1
    <3> QED
        BY <3>1, <3>2
  <2>5. Joins(h, seqs, k + 1)
      BY <2>2, <2>4 DEF Joins
  <2> QED
      BY <2>5
<1> HIDE DEF S
<1>3. m \in S
    BY <1>1, <1>2, NatSetInduction
<1> QED
    BY <1>3 DEF S

\* What FlattenSeq returns comes about one sequence after the other.
LEMMA FlattenSteps ==
    ASSUME NEW T, NEW seqs \in Seq(Seq(T))
    PROVE  \E f : /\ f \in [0 .. Len(seqs) -> Seq(T)]
                  /\ f[0] = <<>>
                  /\ \A i \in 0 .. Len(seqs) - 1 : f[i + 1] = f[i] \o seqs[i + 1]
                  /\ FlattenSeq(seqs) = f[Len(seqs)]
<1>1. Len(seqs) \in Nat /\ \A i \in 1 .. Len(seqs) : seqs[i] \in Seq(T)
    BY LenProperties, ElementOfSeq
<1> DEFINE g == CHOOSE g0 : g0 = [i \in 1 .. Len(seqs) |->
                                    IF i = 1 THEN seqs[i] ELSE g0[i - 1] \o seqs[i]]
           f == [i \in 0 .. Len(seqs) |-> IF i = 0 THEN <<>> ELSE g[i]]
<1>2. g = [i \in 1 .. Len(seqs) |-> IF i = 1 THEN seqs[i] ELSE g[i - 1] \o seqs[i]]
  <2>1. \E g0 : Joins(g0, seqs, Len(seqs))
      BY <1>1, JoinsExist
  <2> QED
      BY <2>1 DEF Joins
<1>3. FlattenSeq(seqs) = f[Len(seqs)]
  <2>1. CASE Len(seqs) = 0
      BY <2>1, EmptySeq DEF FlattenSeq
  <2>2. CASE Len(seqs) # 0
      BY <2>2, <1>1 DEF FlattenSeq
  <2> QED
      BY <2>1, <2>2
<1> HIDE DEF g
<1>13. \A i \in 1 .. Len(seqs) : g[i] = IF i = 1 THEN seqs[i] ELSE g[i - 1] \o seqs[i]
  <2> DEFINE e(i) == IF i = 1 THEN seqs[i] ELSE g[i - 1] \o seqs[i]
  <2>1. g = [i \in 1 .. Len(seqs) |-> e(i)]
      BY <1>2
  <2> HIDE DEF e
  <2>2. \A i \in 1 .. Len(seqs) : g[i] = e(i)
      BY <2>1
  <2> QED
      BY <2>2 DEF e
<1>4. /\ f = [i \in 0 .. Len(seqs) |-> f[i]]
      /\ f[0] = <<>>
      /\ \A i \in 1 .. Len(seqs) : f[i] = g[i]
    BY <1>1
<1> HIDE DEF f
<1>5. ASSUME NEW i \in 0 .. Len(seqs) - 1, f[i] \in Seq(T)
      PROVE  f[i + 1] = f[i] \o seqs[i + 1] /\ f[i + 1] \in Seq(T)
  <2>1. i + 1 \in 1 .. Len(seqs) /\ seqs[i + 1] \in Seq(T) /\ i + 1 - 1 = i /\ i \in 0 .. Len(seqs)
      BY <1>1
  <2>2. g[i + 1] = IF i + 1 = 1 THEN seqs[i + 1] ELSE g[i + 1 - 1] \o seqs[i + 1]
      BY <1>13, <2>1
  <2>3. f[i + 1] = g[i + 1]
      BY <1>4, <2>1
  <2>4. f[i + 1] = f[i] \o seqs[i + 1]
    <3>1. CASE i = 0
      <4>1. f[i + 1] = seqs[i + 1]
          BY <2>2, <2>3, <3>1
      <4>2. f[i] = <<>>
          BY <1>4, <3>1
      <4>3. <<>> \o seqs[i + 1] = seqs[i + 1]
          BY <2>1, ConcatEmptySeq
      <4> QED
          BY <4>1, <4>2, <4>3
    <3>2. CASE i # 0
      <4>1. i + 1 # 1 /\ i + 1 - 1 = i
          BY <1>1, <3>2
      <4>3. f[i + 1] = g[i] \o seqs[i + 1]
          BY <2>2, <2>3, <4>1
      <4>2. f[i] = g[i]
        <5>1. i \in 1 .. Len(seqs)
            BY <1>1, <3>2
        <5>2. \A j \in 1 .. Len(seqs) : f[j] = g[j]
            BY <1>4
        <5> QED
            BY <5>1, <5>2
      <4> QED
          BY <4>3, <4>2
    <3> QED
        BY <3>1, <3>2
  <2> QED
      BY <1>5, <2>1, <2>4, ConcatProperties
<1> DEFINE S == {k \in Nat : k \in 0 .. Len(seqs) => f[k] \in Seq(T)}
<1>6. 0 \in S
    BY <1>4, EmptySeq
<1>7. ASSUME NEW k \in Nat, k \in S
      PROVE  k + 1 \in S
  <2> SUFFICES ASSUME k + 1 \in 0 .. Len(seqs)
               PROVE  f[k + 1] \in Seq(T)
      OBVIOUS
  <2>1. k \in 0 .. Len(seqs) - 1 /\ f[k] \in Seq(T)
      BY <1>1, <1>7
  <2> QED
      BY <2>1, <1>5
<1>8. \A k \in Nat : k \in S
  <2> HIDE DEF S
  <2> QED
      BY <1>6, <1>7, NatSetInduction
<1>9. \A k \in 0 .. Len(seqs) : f[k] \in Seq(T)
    BY <1>1, <1>8
<1>10. f \in [0 .. Len(seqs) -> Seq(T)]
    BY <1>4, <1>9
<1>11. \A i \in 0 .. Len(seqs) - 1 : f[i + 1] = f[i] \o seqs[i + 1]
  <2> SUFFICES ASSUME NEW i \in 0 .. Len(seqs) - 1
               PROVE  f[i + 1] = f[i] \o seqs[i + 1]
      OBVIOUS
  <2>1. f[i] \in Seq(T)
      BY <1>1, <1>9
  <2> QED
      BY <1>5, <2>1
<1>12. f[0] = <<>>
    BY <1>4
<1> QED
    BY <1>3, <1>10, <1>11, <1>12

\* Concatenation is associative, with its quantifiers in one formula.
LEMMA Associative ==
    \A T : \A x, y, z \in Seq(T) : (x \o y) \o z = x \o (y \o z)
BY ConcatAssociative

\* A concatenation is flattened one part after the other.
LEMMA FlattenConcat ==
    ASSUME NEW T, NEW a \in Seq(Seq(T)), NEW b \in Seq(Seq(T))
    PROVE  FlattenSeq(a \o b) = FlattenSeq(a) \o FlattenSeq(b)
<1>1. /\ Len(a) \in Nat /\ Len(b) \in Nat
      /\ a \o b \in Seq(Seq(T)) /\ Len(a \o b) = Len(a) + Len(b)
      /\ \A i \in 1 .. Len(a) : (a \o b)[i] = a[i] /\ a[i] \in Seq(T)
      /\ \A i \in 1 .. Len(b) : (a \o b)[Len(a) + i] = b[i] /\ b[i] \in Seq(T)
  <2>1. Len(a) \in Nat /\ Len(b) \in Nat
      BY LenProperties
  <2>2. \A i \in 1 .. Len(b) : Len(a) + i - Len(a) = i /\ ~(Len(a) + i <= Len(a))
                               /\ Len(a) + i \in 1 .. Len(a) + Len(b)
      BY <2>1
  <2>3. \A i \in 1 .. Len(a) : i <= Len(a) /\ i \in 1 .. Len(a) + Len(b)
      BY <2>1
  <2>4. /\ a \o b \in Seq(Seq(T))
        /\ Len(a \o b) = Len(a) + Len(b)
        /\ \A i \in 1 .. Len(a) + Len(b) : (a \o b)[i] =
                     IF i <= Len(a) THEN a[i] ELSE b[i - Len(a)]
      BY ConcatProperties
  <2>5. \A i \in 1 .. Len(a) : (a \o b)[i] = a[i] /\ a[i] \in Seq(T)
      BY <2>3, <2>4, ElementOfSeq
  <2>6. \A i \in 1 .. Len(b) : (a \o b)[Len(a) + i] = b[i] /\ b[i] \in Seq(T)
      BY <2>2, <2>4, ElementOfSeq
  <2> QED
      BY <2>1, <2>4, <2>5, <2>6
<1>14. \A x, y, z \in Seq(T) : (x \o y) \o z = x \o (y \o z)
    BY SMTT(60), Associative
<1>2. PICK f : /\ f \in [0 .. Len(a) -> Seq(T)]
               /\ f[0] = <<>>
               /\ \A i \in 0 .. Len(a) - 1 : f[i + 1] = f[i] \o a[i + 1]
               /\ FlattenSeq(a) = f[Len(a)]
    BY FlattenSteps
<1>3. PICK g : /\ g \in [0 .. Len(b) -> Seq(T)]
               /\ g[0] = <<>>
               /\ \A i \in 0 .. Len(b) - 1 : g[i + 1] = g[i] \o b[i + 1]
               /\ FlattenSeq(b) = g[Len(b)]
    BY FlattenSteps
<1> DEFINE c == a \o b
<1>4. PICK h : /\ h \in [0 .. Len(c) -> Seq(T)]
               /\ h[0] = <<>>
               /\ \A i \in 0 .. Len(c) - 1 : h[i + 1] = h[i] \o c[i + 1]
               /\ FlattenSeq(c) = h[Len(c)]
  <2>1. c \in Seq(Seq(T))
      BY <1>1
  <2> HIDE DEF c
  <2> QED
      BY <2>1, FlattenSteps
<1>13. /\ \A i \in 0 .. Len(a) + Len(b) - 1 : h[i + 1] = h[i] \o c[i + 1]
       /\ FlattenSeq(c) = h[Len(a) + Len(b)]
  <2>1. Len(c) = Len(a) + Len(b)
      BY <1>1
  <2> HIDE DEF c
  <2> QED
      BY <1>4, <2>1
<1> DEFINE A == {k \in Nat : k \in 0 .. Len(a) => h[k] = f[k]}
           B == {k \in Nat : k \in 0 .. Len(b) => h[Len(a) + k] = f[Len(a)] \o g[k]}
<1>5. 0 \in A
    BY <1>2, <1>4
<1>6. ASSUME NEW k \in Nat, k \in A
      PROVE  k + 1 \in A
  <2> SUFFICES ASSUME k + 1 \in 0 .. Len(a)
               PROVE  h[k + 1] = f[k + 1]
      OBVIOUS
  <2>1. k \in 0 .. Len(a) - 1 /\ k \in 0 .. Len(a) + Len(b) - 1 /\ k + 1 \in 1 .. Len(a)
        /\ k \in 0 .. Len(a)
      BY <1>1
  <2>2. h[k] = f[k]
      BY <1>6, <2>1
  <2>4. (a \o b)[k + 1] = a[k + 1]
      BY <1>1, <2>1
  <2>3. h[k + 1] = h[k] \o a[k + 1]
      BY <1>13, <2>1, <2>4
  <2> QED
      BY <1>2, <2>1, <2>2, <2>3
<1>7. \A k \in Nat : k \in A
  <2> HIDE DEF A
  <2> QED
      BY <1>5, <1>6, NatSetInduction
<1>8. h[Len(a)] = f[Len(a)] /\ f[Len(a)] \in Seq(T)
  <2>1. Len(a) \in A /\ Len(a) \in 0 .. Len(a)
      BY <1>1, <1>7
  <2> QED
      BY <1>2, <2>1
<1>9. 0 \in B
  <2>1. Len(a) + 0 = Len(a) /\ f[Len(a)] \o <<>> = f[Len(a)]
      BY <1>1, <1>8, ConcatEmptySeq
  <2> QED
      BY <1>3, <1>8, <2>1
<1>10. ASSUME NEW k \in Nat, k \in B
       PROVE  k + 1 \in B
  <2> SUFFICES ASSUME k + 1 \in 0 .. Len(b)
               PROVE  h[Len(a) + (k + 1)] = f[Len(a)] \o g[k + 1]
    <3>1. k + 1 \in Nat
        OBVIOUS
    <3> QED
        BY <3>1
  <2>1. /\ k \in 0 .. Len(b) - 1 /\ k \in 0 .. Len(b) /\ k + 1 \in 1 .. Len(b)
        /\ Len(a) + k \in 0 .. Len(a) + Len(b) - 1 /\ Len(a) + (k + 1) = Len(a) + k + 1
      BY <1>1
  <2>2. h[Len(a) + k] = f[Len(a)] \o g[k]
      BY <1>10, <2>1
  <2>3. h[Len(a) + k + 1] = h[Len(a) + k] \o (a \o b)[Len(a) + k + 1]
      BY <1>13, <2>1
  <2>4. (a \o b)[Len(a) + (k + 1)] = b[k + 1] /\ b[k + 1] \in Seq(T)
      BY <1>1, <2>1
  <2>5. g[k] \in Seq(T) /\ g[k + 1] = g[k] \o b[k + 1]
      BY <1>3, <2>1
  <2>6. (f[Len(a)] \o g[k]) \o b[k + 1] = f[Len(a)] \o (g[k] \o b[k + 1])
    BY <1>8, <1>14, <2>4, <2>5
  <2> QED
      BY <2>1, <2>2, <2>3, <2>4, <2>5, <2>6
<1>11. \A k \in Nat : k \in B
  <2> HIDE DEF B
  <2> QED
      BY <1>9, <1>10, NatSetInduction
<1>12. h[Len(a) + Len(b)] = f[Len(a)] \o g[Len(b)]
  <2>1. Len(b) \in B
    <3> HIDE DEF B
    <3> QED
        BY <1>1, <1>11
  <2>2. Len(b) \in 0 .. Len(b)
      BY <1>1
  <2> QED
      BY <2>1, <2>2
<1> QED
    BY <1>2, <1>3, <1>12, <1>13

\* What becomes of one element.
Kept(x, D) == IF x \in D THEN <<>> ELSE <<x>>

\* The sequences that Without puts together.
LEMMA WithoutPieces ==
    ASSUME NEW T, NEW s \in Seq(T), NEW D
    PROVE  /\ [i \in 1 .. Len(s) |-> Kept(s[i], D)] \in Seq(Seq(T))
           /\ Len([i \in 1 .. Len(s) |-> Kept(s[i], D)]) = Len(s)
           /\ Without(s, D) = FlattenSeq([i \in 1 .. Len(s) |-> Kept(s[i], D)])
<1>1. Len(s) \in Nat /\ \A i \in 1 .. Len(s) : s[i] \in T
    BY LenProperties, ElementOfSeq
<1>2. \A x \in T : Kept(x, D) \in Seq(T)
    BY DEF Kept
<1> DEFINE p == [i \in 1 .. Len(s) |-> Kept(s[i], D)]
<1>3. p \in [1 .. Len(s) -> Seq(T)]
    BY <1>1, <1>2
<1>4. p \in Seq(Seq(T))
    BY <1>1, <1>3, SeqDef
<1>5. Len(p) = Len(s)
    BY <1>1
<1>6. Without(s, D) = FlattenSeq(p)
    BY DEF Without, Kept
<1> QED
    BY <1>4, <1>5, <1>6

\* Without goes through the sequence from its beginning.
LEMMA WithoutSteps ==
    ASSUME NEW T, NEW s \in Seq(T), NEW D
    PROVE  \E f : /\ f \in [0 .. Len(s) -> Seq(T)]
                  /\ f[0] = <<>>
                  /\ \A i \in 0 .. Len(s) - 1 : f[i + 1] = f[i] \o Kept(s[i + 1], D)
                  /\ Without(s, D) = f[Len(s)]
<1> DEFINE p == [i \in 1 .. Len(s) |-> Kept(s[i], D)]
<1>1. p \in Seq(Seq(T)) /\ Len(p) = Len(s) /\ Without(s, D) = FlattenSeq(p)
    BY WithoutPieces
<1>2. Len(s) \in Nat /\ \A i \in 0 .. Len(s) - 1 : i + 1 \in 1 .. Len(s)
    BY LenProperties
<1>3. \A i \in 0 .. Len(s) - 1 : p[i + 1] = Kept(s[i + 1], D)
    BY <1>2
<1> HIDE DEF p
<1>4. PICK f : /\ f \in [0 .. Len(p) -> Seq(T)]
               /\ f[0] = <<>>
               /\ \A i \in 0 .. Len(p) - 1 : f[i + 1] = f[i] \o p[i + 1]
               /\ FlattenSeq(p) = f[Len(p)]
    BY <1>1, FlattenSteps
<1> QED
    BY <1>1, <1>3, <1>4

\* Without passes over the elements in D and loses no other.
LEMMA WithoutRange ==
    ASSUME NEW T, NEW s \in Seq(T), NEW D
    PROVE  /\ Without(s, D) \in Seq(T)
           /\ ToSet(Without(s, D)) = ToSet(s) \ D
<1>1. Len(s) \in Nat /\ \A i \in 1 .. Len(s) : s[i] \in T
    BY LenProperties, ElementOfSeq
<1>2. PICK f : /\ f \in [0 .. Len(s) -> Seq(T)]
               /\ f[0] = <<>>
               /\ \A i \in 0 .. Len(s) - 1 : f[i + 1] = f[i] \o Kept(s[i + 1], D)
               /\ Without(s, D) = f[Len(s)]
    BY ZenonT(60), WithoutSteps
<1> DEFINE R(k) == {s[i] : i \in 1 .. k} \ D
           S == {k \in Nat : k \in 0 .. Len(s) => ToSet(f[k]) = R(k)}
<1>3. 0 \in S
  <2>1. R(0) = {} /\ ToSet(<<>>) = {}
      BY DEF ToSet
  <2> QED
      BY <1>2, <2>1
<1>4. ASSUME NEW k \in Nat, k \in S
      PROVE  k + 1 \in S
  <2> SUFFICES ASSUME k + 1 \in 0 .. Len(s)
               PROVE  ToSet(f[k + 1]) = R(k + 1)
      OBVIOUS
  <2>1. k \in 0 .. Len(s) - 1 /\ k \in 0 .. Len(s) /\ k + 1 \in 1 .. Len(s)
      BY <1>1
  <2>2. ToSet(f[k]) = R(k)
      BY <1>4, <2>1
  <2>3. f[k] \in Seq(T) /\ f[k + 1] = f[k] \o Kept(s[k + 1], D) /\ s[k + 1] \in T
      BY <1>1, <1>2, <2>1
  <2>4. R(k + 1) = R(k) \cup ({s[k + 1]} \ D)
    <3>1. 1 .. k + 1 = 1 .. k \cup {k + 1}
        OBVIOUS
    <3> QED
        BY <3>1
  <2>5. CASE s[k + 1] \in D
    <3>1. f[k + 1] = f[k]
        BY <2>3, <2>5, ConcatEmptySeq DEF Kept
    <3> QED
        BY <2>2, <2>4, <2>5, <3>1
  <2>6. CASE s[k + 1] \notin D
    <3> DEFINE x == s[k + 1]
    <3>1. f[k + 1] = f[k] \o <<x>>
        BY <2>3, <2>6 DEF Kept
    <3> HIDE DEF x
    <3>2. x \in T /\ <<x>> \in Seq(T) /\ Len(<<x>>) = 1 /\ <<x>>[1] = x
        BY <2>3 DEF x
    <3>3. ToSet(f[k] \o <<x>>) = ToSet(f[k]) \cup {x}
      <4>1. /\ Len(f[k]) \in Nat /\ DOMAIN f[k] = 1 .. Len(f[k])
            /\ f[k] \o <<x>> \in Seq(T)
            /\ Len(f[k] \o <<x>>) = Len(f[k]) + 1
            /\ \A i \in 1 .. Len(f[k]) + 1 :
                  (f[k] \o <<x>>)[i] = IF i <= Len(f[k]) THEN f[k][i] ELSE <<x>>[i - Len(f[k])]
          BY <2>3, <3>2, ConcatProperties, LenProperties
      <4>2. DOMAIN (f[k] \o <<x>>) = 1 .. Len(f[k]) \cup {Len(f[k]) + 1}
          BY <4>1, LenProperties
      <4>3. \A i \in 1 .. Len(f[k]) : (f[k] \o <<x>>)[i] = f[k][i]
          BY <4>1
      <4>4. (f[k] \o <<x>>)[Len(f[k]) + 1] = x
          BY <4>1, <3>2
      <4> DEFINE fx == f[k] \o <<x>>
                 n == Len(f[k])
      <4>5. ToSet(fx) = {fx[i] : i \in 1 .. n} \cup {fx[n + 1]}
          BY <4>2 DEF ToSet
      <4>6. ToSet(f[k]) = {f[k][i] : i \in 1 .. n}
          BY <4>1 DEF ToSet
      <4> QED
          BY <4>3, <4>4, <4>5, <4>6
    <3>4. R(k + 1) = R(k) \cup {x}
        BY <2>4, <2>6 DEF x
    <3> QED
        BY <2>2, <3>1, <3>3, <3>4
  <2> QED
      BY <2>5, <2>6
<1>5. \A k \in Nat : k \in S
  <2> HIDE DEF S
  <2> QED
      BY <1>3, <1>4, NatSetInduction
<1>6. ToSet(Without(s, D)) = R(Len(s))
  <2>1. Len(s) \in S
    <3> HIDE DEF S
    <3> QED
        BY <1>1, <1>5
  <2>2. Len(s) \in 0 .. Len(s)
      BY <1>1
  <2> QED
      BY <1>2, <2>1, <2>2
<1>7. R(Len(s)) = ToSet(s) \ D
    BY LenProperties DEF ToSet
<1>8. Without(s, D) \in Seq(T)
  <2>1. Len(s) \in 0 .. Len(s)
      BY <1>1
  <2> QED
      BY <1>2, <2>1
<1> QED
    BY <1>6, <1>7, <1>8

\* Without keeps a sequence that has no element in D as it is.
LEMMA WithoutNone ==
    ASSUME NEW T, NEW s \in Seq(T), NEW D, \A i \in 1 .. Len(s) : s[i] \notin D
    PROVE  Without(s, D) = s
<1>1. Len(s) \in Nat /\ \A i \in 1 .. Len(s) : s[i] \in T
    BY LenProperties, ElementOfSeq
<1>2. PICK f : /\ f \in [0 .. Len(s) -> Seq(T)]
               /\ f[0] = <<>>
               /\ \A i \in 0 .. Len(s) - 1 : f[i + 1] = f[i] \o Kept(s[i + 1], D)
               /\ Without(s, D) = f[Len(s)]
    BY ZenonT(60), WithoutSteps
<1> DEFINE S == {k \in Nat : k \in 0 .. Len(s) =>
                    Len(f[k]) = k /\ \A i \in 1 .. k : f[k][i] = s[i]}
<1>3. 0 \in S
    BY <1>2, EmptySeq
<1>4. ASSUME NEW k \in Nat, k \in S
      PROVE  k + 1 \in S
  <2> SUFFICES ASSUME k + 1 \in 0 .. Len(s)
               PROVE  Len(f[k + 1]) = k + 1 /\ \A i \in 1 .. k + 1 : f[k + 1][i] = s[i]
      OBVIOUS
  <2>1. k \in 0 .. Len(s) - 1 /\ k \in 0 .. Len(s) /\ k + 1 \in 1 .. Len(s)
      BY <1>1
  <2>2. Len(f[k]) = k /\ \A i \in 1 .. k : f[k][i] = s[i]
      BY <1>4, <2>1
  <2>3. f[k] \in Seq(T) /\ f[k + 1] = f[k] \o Kept(s[k + 1], D) /\ s[k + 1] \in T
      BY <1>1, <1>2, <2>1
  <2> DEFINE x == s[k + 1]
  <2>4. f[k + 1] = f[k] \o <<x>>
      BY <2>1, <2>3 DEF Kept
  <2>5. x \in T
      BY <2>3
  <2> HIDE DEF x
  <2>6. <<x>> \in Seq(T) /\ Len(<<x>>) = 1 /\ <<x>>[1] = x
      BY <2>5
  <2>7. /\ Len(f[k] \o <<x>>) = k + 1
        /\ \A i \in 1 .. k + 1 :
              (f[k] \o <<x>>)[i] = IF i <= k THEN f[k][i] ELSE <<x>>[i - k]
      BY <2>2, <2>3, <2>6, ConcatProperties
  <2> QED
      BY <2>2, <2>4, <2>6, <2>7 DEF x
<1>5. \A k \in Nat : k \in S
  <2> HIDE DEF S
  <2> QED
      BY <1>3, <1>4, NatSetInduction
<1>6. /\ f[Len(s)] \in Seq(T) /\ Len(f[Len(s)]) = Len(s)
      /\ \A i \in 1 .. Len(s) : f[Len(s)][i] = s[i]
  <2>1. Len(s) \in S /\ Len(s) \in 0 .. Len(s)
      BY <1>1, <1>5
  <2> QED
      BY <1>2, <2>1
<1> QED
    BY <1>2, <1>6, SeqEqual

\* Without takes a sequence apart.
LEMMA WithoutConcat ==
    ASSUME NEW T, NEW a \in Seq(T), NEW b \in Seq(T), NEW D
    PROVE  Without(a \o b, D) = Without(a, D) \o Without(b, D)
<1>1. /\ Len(a) \in Nat /\ Len(b) \in Nat
      /\ a \o b \in Seq(T) /\ Len(a \o b) = Len(a) + Len(b)
      /\ \A i \in 1 .. Len(a) + Len(b) :
            (a \o b)[i] = IF i <= Len(a) THEN a[i] ELSE b[i - Len(a)]
    BY ConcatProperties, LenProperties
<1> DEFINE p == [i \in 1 .. Len(a) |-> Kept(a[i], D)]
           q == [i \in 1 .. Len(b) |-> Kept(b[i], D)]
           r == [i \in 1 .. Len(a \o b) |-> Kept((a \o b)[i], D)]
<1>2. p \in Seq(Seq(T)) /\ Len(p) = Len(a) /\ Without(a, D) = FlattenSeq(p)
    BY WithoutPieces
<1>3. q \in Seq(Seq(T)) /\ Len(q) = Len(b) /\ Without(b, D) = FlattenSeq(q)
    BY WithoutPieces
<1>4. r \in Seq(Seq(T)) /\ Len(r) = Len(a) + Len(b) /\ Without(a \o b, D) = FlattenSeq(r)
    BY <1>1, WithoutPieces
<1>5. \A i \in 1 .. Len(a) : i \in 1 .. Len(a) + Len(b) /\ i <= Len(a)
    BY <1>1
<1>6. \A i \in 1 .. Len(a) + Len(b) : ~(i <= Len(a)) => i - Len(a) \in 1 .. Len(b)
    BY <1>1
<1>7. \A i \in 1 .. Len(a) : p[i] = Kept(a[i], D)
    OBVIOUS
<1>8. \A i \in 1 .. Len(b) : q[i] = Kept(b[i], D)
    OBVIOUS
<1>9. \A i \in 1 .. Len(a) + Len(b) : r[i] = Kept((a \o b)[i], D)
    BY <1>1
<1> HIDE DEF p, q, r
<1>10. /\ p \o q \in Seq(Seq(T)) /\ Len(p \o q) = Len(a) + Len(b)
       /\ \A i \in 1 .. Len(a) + Len(b) :
             (p \o q)[i] = IF i <= Len(a) THEN p[i] ELSE q[i - Len(a)]
  <2>1. /\ p \o q \in Seq(Seq(T)) /\ Len(p \o q) = Len(p) + Len(q)
        /\ \A i \in 1 .. Len(p) + Len(q) :
              (p \o q)[i] = IF i <= Len(p) THEN p[i] ELSE q[i - Len(p)]
    <3>1. \A S : \A x, y \in Seq(S) :
              /\ x \o y \in Seq(S) /\ Len(x \o y) = Len(x) + Len(y)
              /\ \A i \in 1 .. Len(x) + Len(y) :
                    (x \o y)[i] = IF i <= Len(x) THEN x[i] ELSE y[i - Len(x)]
        BY ConcatProperties
    <3> QED
        BY <1>2, <1>3, <3>1
  <2> QED
      BY <1>2, <1>3, <2>1
<1>11. ASSUME NEW i \in 1 .. Len(a) + Len(b)
       PROVE  r[i] = (p \o q)[i]
  <2>1. CASE i <= Len(a)
    <3>1. i \in 1 .. Len(a)
        BY <1>1, <2>1
    <3> QED
        BY <1>1, <1>7, <1>9, <1>10, <2>1, <3>1
  <2>2. CASE ~(i <= Len(a))
    <3>1. i - Len(a) \in 1 .. Len(b)
        BY <1>6, <2>2
    <3> QED
        BY <1>1, <1>8, <1>9, <1>10, <2>2, <3>1
  <2> QED
      BY <2>1, <2>2
<1>12. r = p \o q
    BY <1>4, <1>10, <1>11, SeqEqual
<1>13. FlattenSeq(p \o q) = FlattenSeq(p) \o FlattenSeq(q)
    BY <1>2, <1>3, FlattenConcat
<1> QED
    BY <1>2, <1>3, <1>4, <1>12, <1>13

\* Without of a single element, and of two the first of which goes.
LEMMA WithoutShort ==
    ASSUME NEW T, NEW x \in T, NEW y \in T, NEW D, y \in D
    PROVE  /\ Without(<<>>, D) = <<>>
           /\ Without(<<x>>, D) = Kept(x, D)
           /\ Without(<<y, x>>, D) = Kept(x, D)
<1>1. ASSUME NEW s \in Seq(T), Len(s) = 0
      PROVE  Without(s, D) = <<>>
  <2>1. PICK f : f[0] = <<>> /\ Without(s, D) = f[Len(s)]
      BY ZenonT(60), WithoutSteps
  <2> QED
      BY <1>1, <2>1
<1>2. ASSUME NEW z \in T
      PROVE  Without(<<z>>, D) = Kept(z, D)
  <2> DEFINE s == <<z>>
  <2>1. s \in Seq(T) /\ Len(s) = 1 /\ s[1] = z
      OBVIOUS
  <2> HIDE DEF s
  <2>2. PICK f : /\ f \in [0 .. Len(s) -> Seq(T)]
                 /\ f[0] = <<>>
                 /\ \A i \in 0 .. Len(s) - 1 : f[i + 1] = f[i] \o Kept(s[i + 1], D)
                 /\ Without(s, D) = f[Len(s)]
      BY <2>1, WithoutSteps
  <2>3. 0 \in 0 .. Len(s) - 1 /\ 0 + 1 = 1
      BY <2>1
  <2>4. f[1] = <<>> \o Kept(z, D)
      BY <2>1, <2>2, <2>3
  <2>5. Kept(z, D) \in Seq(T)
      BY DEF Kept
  <2>6. <<>> \o Kept(z, D) = Kept(z, D)
      BY <2>5, ConcatEmptySeq
  <2> QED
      BY <2>1, <2>2, <2>4, <2>6 DEF s
<1>3. <<y, x>> = <<y>> \o <<x>> /\ <<y>> \in Seq(T) /\ <<x>> \in Seq(T)
    OBVIOUS
<1>4. Without(<<y, x>>, D) = Without(<<y>>, D) \o Without(<<x>>, D)
  <2> DEFINE u == <<y>>
             v == <<x>>
  <2>1. u \in Seq(T) /\ v \in Seq(T) /\ <<y, x>> = u \o v
      BY <1>3
  <2> HIDE DEF u, v
  <2>2. Without(u \o v, D) = Without(u, D) \o Without(v, D)
      BY <2>1, WithoutConcat
  <2>3. Without(<<y, x>>, D) = Without(u, D) \o Without(v, D)
      BY <2>1, <2>2
  <2> QED
      BY <2>3 DEF u, v
<1>5. Kept(y, D) = <<>> /\ Kept(x, D) \in Seq(T)
    BY DEF Kept
<1>6. <<>> \o Kept(x, D) = Kept(x, D)
    BY <1>5, ConcatEmptySeq
<1>7. <<>> \in Seq(T) /\ Len(<<>>) = 0
    OBVIOUS
<1> QED
    BY <1>1, <1>2, <1>4, <1>5, <1>6, <1>7
-----------------------------------------------------------------------------
(***************************************************************************)
(* The parsers of pkg/env.                                                 *)
(***************************************************************************)
\* The lines that are not empty are all there is after Given.
LEMMA GivenLines ==
    ASSUME NEW T, NEW lines \in Seq(T)
    PROVE  /\ Given(lines) \in Seq(T)
           /\ ToSet(Given(lines)) = ToSet(lines) \ {<<>>}
BY WithoutRange DEF Given

\* No line that is given is empty.
LEMMA GivenNotEmpty ==
    ASSUME NEW T, NEW lines \in Seq(T), NEW i \in DOMAIN Given(lines)
    PROVE  Given(lines)[i] # <<>>
<1>1. Given(lines)[i] \in ToSet(Given(lines))
    BY DEF ToSet
<1> QED
    BY <1>1, GivenLines

\* ParseSecrets keeps every line it is given, unless one is broken.
LEMMA ParsedLines ==
    ASSUME NEW T, NEW lines \in Seq(T)
    PROVE  /\ Parsed(lines) \in Seq(T)
           /\ ~SomeBroken(lines) => Parsed(lines) = Given(lines)
<1> DEFINE g == Given(lines)
           D == {line \in ToSet(g) : Broken(line)}
<1>1. g \in Seq(T)
    BY GivenLines
<1>2. Parsed(lines) = Without(g, D)
    BY DEF Parsed
<1>3. ~SomeBroken(lines) => \A i \in 1 .. Len(g) : g[i] \notin D
    BY DEF SomeBroken
<1>4. g = Given(lines)
    OBVIOUS
<1> HIDE DEF g, D
<1> QED
    BY <1>1, <1>2, <1>3, <1>4, WithoutRange, WithoutNone

\* A broken line stops the run wherever it is.
LEMMA BrokenAnywhere ==
    ASSUME NEW T, NEW lines \in Seq(T), ~SomeBroken(lines),
           NEW i \in DOMAIN lines, lines[i] # <<>>
    PROVE  ~Broken(lines[i])
<1> DEFINE g == Given(lines)
<1>1. /\ g \in Seq(T)
      /\ ToSet(g) = ToSet(lines) \ {<<>>}
    BY GivenLines
<1>2. lines[i] \in ToSet(g)
    BY <1>1 DEF ToSet
<1>3. \A j \in 1 .. Len(g) : ~Broken(g[j])
    BY DEF SomeBroken
<1> HIDE DEF g
<1>4. DOMAIN g = 1 .. Len(g)
    BY <1>1, LenProperties
<1> QED
    BY <1>2, <1>3, <1>4 DEF ToSet
-----------------------------------------------------------------------------
(***************************************************************************)
(* VersionRequest.                                                         *)
(***************************************************************************)
Outcomes == {"success", "failure"}
NoReference == [id |-> None, name |-> None]

\* The types the proofs need.
TypesOfLookups ==
    /\ inputs \in Inputs
    /\ pc \in Running \cup {"sent", "failed", "killed"}
    /\ resolved \in [Places -> Accounts \cup {None}]
    /\ account \in [Names -> Accounts \cup {None}]
    /\ held \in [Names -> SUBSET Accounts]

\* The account that has a name is among those that have held it.
Remembered == \A n \in Names : account[n] # None => account[n] \in held[n]

\* An id is what a reference says, or has been that of its name.
Resolves(id, ref) ==
    IF ref.id # None \/ ref.name = None THEN id = ref.id ELSE id \in held[ref.name]

\* What has been looked up for each place of the request.
LookedUp ==
    /\ pc \notin {"main", "service", "failed", "killed"} =>
          Resolves(resolved["service"], inputs.service)
    /\ \A o \in Outcomes :
          resolved[o] # None => Resolves(resolved[o], inputs.target[o])
    /\ resolved["service"] # None => Resolves(resolved["service"], inputs.service)
    /\ resolved["invoker"] # None =>
          \/ Resolves(resolved["invoker"], inputs.invoker)
          \/ Resolves(resolved["invoker"], inputs.service)

\* The queues of the inputs that have been passed have their accounts.
TargetsDone ==
    /\ pc \notin {"main", "failed", "killed"} => ValidateAsync(inputs)
    /\ pc \in {"success", "failure", "invoker", "fallback"} => inputs.async
    /\ inputs.async /\ "success" \in inputs.queue
       /\ pc \in {"failure", "invoker", "fallback", "secrets", "content", "sent"}
       => resolved["success"] # None
    /\ inputs.async /\ "failure" \in inputs.queue
       /\ pc \in {"invoker", "fallback", "secrets", "content", "sent"}
       => resolved["failure"] # None

\* An invocation without an account has looked the function's up again.
FellBack ==
    inputs.async /\ inputs.invoker = NoReference /\ pc \in {"secrets", "content", "sent"}
       => Resolves(resolved["invoker"], inputs.service)

\* The request was made of what had been looked up.
RequestMade ==
    request # None =>
       /\ pc = "sent"
       /\ request.async = inputs.async
       /\ \A place \in Places : request[place] = resolved[place]

IInv == TypesOfLookups /\ Remembered /\ LookedUp /\ TargetsDone /\ FellBack /\ RequestMade

\* The inputs of a run have their parts.
LEMMA InputsParts ==
    ASSUME TypesOfLookups
    PROVE  /\ inputs.service \in References
           /\ inputs.invoker \in References
           /\ inputs.async \in BOOLEAN
           /\ \A o \in Outcomes : inputs.target[o] \in References
BY InputsAssumption DEF TypesOfLookups, Outcomes

\* Nothing is looked up at first.
LEMMA InitIInv == Init => IInv
<1> SUFFICES ASSUME Init PROVE IInv
    OBVIOUS
<1> USE NoneAssumption DEF Init, Places
<1>1. TypesOfLookups
    BY DEF TypesOfLookups, Running
<1>2. Remembered /\ LookedUp /\ TargetsDone /\ FellBack /\ RequestMade
    BY DEF Remembered, LookedUp, TargetsDone, FellBack, RequestMade, Outcomes
<1> QED
    BY <1>1, <1>2 DEF IInv

\* A reference that is not missing resolves to what it says.
LEMMA ResolvedIDSays ==
    ASSUME IInv, NEW ref \in References, ~Missing(ref)
    PROVE  /\ Resolves(ResolvedID(ref), ref)
           /\ ResolvedID(ref) \in Accounts \cup {None}
           /\ ref.id # None \/ ref.name # None => ResolvedID(ref) # None
BY NoneAssumption
   DEF IInv, TypesOfLookups, Remembered, References, Missing, ResolvedID, Resolves

\* A step that gives one place what its reference resolves to, and leaves
\* the accounts alone, leaves the others as they are.
LEMMA PlaceFrame ==
    ASSUME IInv, NEW place \in Places, NEW id \in Accounts \cup {None},
           resolved' = [resolved EXCEPT ![place] = id],
           UNCHANGED <<inputs, held>>
    PROVE  /\ resolved'[place] = id
           /\ \A p \in Places \ {place} : resolved'[p] = resolved[p]
           /\ resolved' \in [Places -> Accounts \cup {None}]
           /\ \A i, ref : Resolves(i, ref)' = Resolves(i, ref)
BY DEF IInv, TypesOfLookups, Resolves
-----------------------------------------------------------------------------
(***************************************************************************)
(* The steps.                                                              *)
(***************************************************************************)
\* A step of the run that looks nothing up.
LEMMA PlainStep ==
    ASSUME IInv,
           \/ Validate \/ ParseSecrets \/ CreateVersion \/ Breaks
    PROVE  IInv'
<1> USE NoneAssumption DEF IInv, Goto, Running, Lookups, Places
<1>1. UNCHANGED <<inputs, resolved, account, held>>
    BY DEF Validate, ParseSecrets, CreateVersion, Breaks
<1>2. \A i, ref : Resolves(i, ref)' = Resolves(i, ref)
    BY <1>1 DEF Resolves
<1>3. CASE Validate
    BY <1>1, <1>2, <1>3 DEF Validate, TypesOfLookups, Remembered, LookedUp, TargetsDone,
                            FellBack, RequestMade, ValidateAsync
<1>4. CASE ParseSecrets
    BY <1>1, <1>2, <1>4 DEF ParseSecrets, AfterBroken, TypesOfLookups, Remembered, LookedUp,
                            TargetsDone, FellBack, RequestMade, ValidateAsync
<1>5. CASE CreateVersion
    BY <1>1, <1>2, <1>5 DEF CreateVersion, TypesOfLookups, Remembered, LookedUp,
                            TargetsDone, FellBack, RequestMade, ValidateAsync
<1>6. CASE Breaks
    BY <1>1, <1>2, <1>6 DEF Breaks, TypesOfLookups, Remembered, LookedUp, TargetsDone,
                            FellBack, RequestMade, ValidateAsync
<1> QED
    BY <1>3, <1>4, <1>5, <1>6

\* The account of the function is looked up.
LEMMA ResolveServiceStep ==
    ASSUME IInv, ResolveService
    PROVE  IInv'
<1> USE NoneAssumption DEF IInv, ResolveService, Resolve, Goto, Running, Lookups, Places
<1> DEFINE id == ResolvedID(inputs.service)
<1>1. CASE Missing(inputs.service)
  <2>1. \A i, ref : Resolves(i, ref)' = Resolves(i, ref)
      BY DEF Resolves
  <2> QED
      BY <1>1, <2>1 DEF TypesOfLookups, Remembered, LookedUp, TargetsDone, FellBack, RequestMade
<1>2. CASE ~Missing(inputs.service)
  <2>1. Resolves(id, inputs.service) /\ id \in Accounts \cup {None}
      BY <1>2, InputsParts, ResolvedIDSays
  <2>2. resolved' = [resolved EXCEPT !["service"] = id]
      BY <1>2
  <2> HIDE DEF id
  <2>3. /\ resolved'["service"] = id
        /\ \A p \in Places \ {"service"} : resolved'[p] = resolved[p]
        /\ resolved' \in [Places -> Accounts \cup {None}]
        /\ \A i, ref : Resolves(i, ref)' = Resolves(i, ref)
      BY <2>1, <2>2, PlaceFrame
  <2>4. TypesOfLookups' /\ Remembered'
      BY <1>2, <2>3 DEF TypesOfLookups, Remembered
  <2>5. LookedUp'
      BY <1>2, <2>1, <2>3 DEF LookedUp, Outcomes
  <2>6. TargetsDone' /\ FellBack' /\ RequestMade'
      BY <1>2, <2>1, <2>3, InputsParts DEF TargetsDone, FellBack, RequestMade, ValidateAsync, NoReference
  <2> QED
      BY <2>4, <2>5, <2>6
<1> QED
    BY <1>1, <1>2

\* A target is looked up, if it has a queue.
LEMMA ResolveTargetStep ==
    ASSUME IInv, NEW o \in Outcomes,
           NEW next \in {"failure", "invoker"}, next # o, o = "success" => next = "failure",
           ResolveTarget(o, next)
    PROVE  IInv'
<1> USE NoneAssumption
    DEF IInv, ResolveTarget, Resolve, Goto, Running, Lookups, Places, Outcomes
<1> DEFINE ref0 == inputs.target[o]
           id == ResolvedID(ref0)
<1>1. CASE o \notin inputs.queue \/ Missing(ref0)
  <2>1. \A i, ref : Resolves(i, ref)' = Resolves(i, ref)
      BY DEF Resolves
  <2> QED
      BY <1>1, <2>1 DEF TypesOfLookups, Remembered, LookedUp, TargetsDone, FellBack, RequestMade,
                        ValidateAsync
<1>2. CASE o \in inputs.queue /\ ~Missing(ref0)
  <2>1. /\ Resolves(id, ref0) /\ id \in Accounts \cup {None}
        /\ ref0.id # None \/ ref0.name # None => id # None
      BY <1>2, InputsParts, ResolvedIDSays
  <2>2. resolved' = [resolved EXCEPT ![o] = id]
      BY <1>2
  <2>3. id # None
    <3>1. inputs.async /\ (ref0.id = None) # (ref0.name = None)
        BY <1>2 DEF TargetsDone, ValidateAsync
    <3> QED
        BY <2>1, <3>1
  <2> HIDE DEF id
  <2>4. /\ resolved'[o] = id
        /\ \A p \in Places \ {o} : resolved'[p] = resolved[p]
        /\ resolved' \in [Places -> Accounts \cup {None}]
        /\ \A i, ref : Resolves(i, ref)' = Resolves(i, ref)
      BY <2>1, <2>2, PlaceFrame
  <2>5. TypesOfLookups' /\ Remembered'
      BY <1>2, <2>4 DEF TypesOfLookups, Remembered
  <2>6. LookedUp'
      BY <1>2, <2>1, <2>4 DEF LookedUp
  <2>7. TargetsDone' /\ FellBack' /\ RequestMade'
      BY <1>2, <2>3, <2>4 DEF TargetsDone, FellBack, RequestMade, ValidateAsync
  <2> QED
      BY <2>5, <2>6, <2>7
<1> QED
    BY <1>1, <1>2

\* The account of the invocation is looked up: its own, or that of the
\* function when there is none.
LEMMA ResolveInvokerStep ==
    ASSUME IInv, NEW ref0 \in References,
           \/ /\ pc = "invoker" /\ ref0 = inputs.invoker
              /\ Resolve("invoker", ref0, AfterInvoker(ResolvedID(ref0)))
           \/ /\ pc = "fallback" /\ ref0 = inputs.service
              /\ Resolve("invoker", ref0, "secrets"),
           UNCHANGED <<inputs, secrets, request, account, held>>
    PROVE  IInv'
<1> USE NoneAssumption
    DEF IInv, Resolve, Goto, AfterInvoker, Running, Lookups, Places, Outcomes
<1> DEFINE id == ResolvedID(ref0)
<1>1. CASE Missing(ref0)
  <2>1. \A i, ref : Resolves(i, ref)' = Resolves(i, ref)
      BY DEF Resolves
  <2> QED
      BY <1>1, <2>1 DEF TypesOfLookups, Remembered, LookedUp, TargetsDone, FellBack, RequestMade
<1>2. CASE ~Missing(ref0)
  <2>1. Resolves(id, ref0) /\ id \in Accounts \cup {None}
      BY <1>2, ResolvedIDSays
  <2>2. /\ resolved' = [resolved EXCEPT !["invoker"] = id]
        /\ \/ pc = "invoker" /\ pc' = "fallback" /\ id = None
           \/ pc = "invoker" /\ pc' = "secrets" /\ id # None /\ ref0 = inputs.invoker
           \/ pc = "fallback" /\ pc' = "secrets" /\ ref0 = inputs.service
      BY <1>2
  <2> HIDE DEF id
  <2>3. /\ resolved'["invoker"] = id
        /\ \A p \in Places \ {"invoker"} : resolved'[p] = resolved[p]
        /\ resolved' \in [Places -> Accounts \cup {None}]
        /\ \A i, ref : Resolves(i, ref)' = Resolves(i, ref)
      BY <2>1, <2>2, PlaceFrame
  <2>4. TypesOfLookups' /\ Remembered'
      BY <2>2, <2>3 DEF TypesOfLookups, Remembered
  <2>5. LookedUp'
      BY <2>1, <2>2, <2>3 DEF LookedUp
  <2>6. TargetsDone' /\ RequestMade'
      BY <2>2, <2>3 DEF TargetsDone, RequestMade, ValidateAsync
  <2>7. FellBack'
      BY <2>1, <2>2, <2>3 DEF FellBack, NoReference, Resolves
  <2> QED
      BY <2>4, <2>5, <2>6, <2>7
<1> QED
    BY <1>1, <1>2

\* Others delete and create accounts: what has been looked up was held then.
LEMMA OthersStep ==
    ASSUME IInv, Others
    PROVE  IInv'
<1> USE NoneAssumption DEF IInv, run
<1>1. PICK n \in Names : DeleteAccount(n) \/ \E id \in Accounts : CreateAccount(n, id)
    BY DEF Others
<1>2. /\ TypesOfLookups' /\ Remembered'
      /\ UNCHANGED run
      /\ \A m \in Names : held[m] \subseteq held'[m]
    BY <1>1 DEF DeleteAccount, CreateAccount, TypesOfLookups, Remembered
<1>3. \A i : \A ref \in References : Resolves(i, ref) => Resolves(i, ref)'
    BY <1>2 DEF Resolves, References
<1>4. LookedUp' /\ FellBack'
    BY <1>2, <1>3, InputsParts DEF LookedUp, FellBack, Outcomes
<1>5. TargetsDone' /\ RequestMade'
    BY <1>2 DEF TargetsDone, RequestMade, ValidateAsync
<1> QED
    BY <1>2, <1>4, <1>5

\* Every step keeps the invariant.
LEMMA StepIInv == IInv /\ [Next]_vars => IInv'
<1> SUFFICES ASSUME IInv, [Next]_vars PROVE IInv'
    OBVIOUS
<1>1. inputs.service \in References /\ inputs.invoker \in References
    BY InputsParts DEF IInv
<1>2. CASE Run
    BY <1>1, <1>2, PlainStep, ResolveServiceStep, ResolveTargetStep, ResolveInvokerStep
       DEF Run, ResolveInvoker, ResolveFallback, FallbackReference, Outcomes
<1>3. CASE UNCHANGED vars
  <2>1. \A i, ref : Resolves(i, ref)' = Resolves(i, ref)
      BY <1>3 DEF vars, Resolves
  <2> QED
      BY <1>3, <2>1 DEF vars, IInv, TypesOfLookups, Remembered, LookedUp, TargetsDone, FellBack,
                        RequestMade, ValidateAsync
<1> QED
    BY <1>2, <1>3, PlainStep, OthersStep DEF Next
-----------------------------------------------------------------------------
(***************************************************************************)
(* What has been looked up is what the inputs say, or what has had the     *)
(* name that they say since the run began.                                 *)
(***************************************************************************)
THEOREM LookupInvariant == Spec => []IInv
BY InitIInv, StepIInv, PTL DEF Spec

(***************************************************************************)
(* Every queue in a request has an account (TargetsHaveAccounts): the      *)
(* checks of ValidateAsync and of CreateAsyncInvocationConfig agree.       *)
(***************************************************************************)
THEOREM QueuesHaveAccounts == Spec => []TargetsHaveAccounts
<1>1. IInv => TargetsHaveAccounts
  <2> SUFFICES ASSUME IInv, request # None, request.async, NEW o \in inputs.queue
               PROVE  request[o] # None
      BY DEF TargetsHaveAccounts
  <2>1. o \in Outcomes
      BY InputsAssumption DEF IInv, TypesOfLookups, Outcomes
  <2> QED
      BY <2>1 DEF IInv, TargetsDone, RequestMade, Outcomes, Places
<1> QED
    BY <1>1, LookupInvariant, PTL

(***************************************************************************)
(* A request is made with no account but those that were given, by id or   *)
(* by a name they had while the run went on (AccountsAsGiven).             *)
(***************************************************************************)
THEOREM OnlyGivenAccounts == Spec => []AccountsAsGiven
<1>1. IInv => AccountsAsGiven
  <2> SUFFICES ASSUME IInv, request # None, NEW place \in Places, request[place] # None
               PROVE  \E ref \in Source(place) :
                         \/ request[place] = ref.id
                         \/ ref.name # None /\ request[place] \in held[ref.name]
      BY DEF AccountsAsGiven
  <2> DEFINE Given1(ref) == \/ request[place] = ref.id
                            \/ ref.name # None /\ request[place] \in held[ref.name]
  <2>1. resolved[place] = request[place]
      BY DEF IInv, RequestMade
  <2>2. \A ref : Resolves(request[place], ref) => Given1(ref)
      BY DEF Resolves
  <2>3. CASE place = "service"
    <3>1. Resolves(request[place], inputs.service)
        BY <2>1, <2>3 DEF IInv, LookedUp
    <3> QED
        BY <2>2, <2>3, <3>1 DEF Source
  <2>4. CASE place = "invoker"
    <3>1. \/ Resolves(request[place], inputs.invoker)
          \/ Resolves(request[place], inputs.service)
        BY <2>1, <2>4 DEF IInv, LookedUp
    <3> QED
        BY <2>2, <2>4, <3>1 DEF Source
  <2>5. CASE place \in Outcomes
    <3>1. Resolves(request[place], inputs.target[place])
        BY <2>1, <2>5 DEF IInv, LookedUp
    <3>2. Source(place) = {inputs.target[place]}
        BY <2>5 DEF Source, Outcomes
    <3> QED
        BY <2>2, <3>1, <3>2
  <2> QED
      BY <2>3, <2>4, <2>5 DEF Places, Outcomes
<1> QED
    BY <1>1, LookupInvariant, PTL

(***************************************************************************)
(* An invocation without an account of its own is made with the            *)
(* function's, as long as the name of that stays with one account          *)
(* (InvokedAsFunction), though the name is looked up twice.                *)
(***************************************************************************)
THEOREM InvokedAsItself == Spec => []InvokedAsFunction
<1>1. IInv => InvokedAsFunction
  <2> SUFFICES ASSUME IInv, request # None, request.async,
                      inputs.invoker = NoReference, Steady
               PROVE  request.invoker = request.service
      BY DEF InvokedAsFunction, NoReference
  <2>1. /\ Resolves(resolved["service"], inputs.service)
        /\ Resolves(resolved["invoker"], inputs.service)
      BY DEF IInv, LookedUp, FellBack, RequestMade
  <2>2. inputs.service.name \in Names \cup {None}
      BY InputsParts DEF IInv, References
  <2>3. resolved["service"] = resolved["invoker"]
      BY <2>1, <2>2 DEF Resolves, Steady
  <2> QED
      BY <2>3 DEF IInv, RequestMade, Places
<1> QED
    BY <1>1, LookupInvariant, PTL
-----------------------------------------------------------------------------
\* What ParseSecrets returned is all lines that are not empty, or the run
\* ended there; the request has it.
SecretsRead ==
    /\ secrets \in Seq(SecretLines)
    /\ pc \in {"content", "sent"} => secrets = Given(inputs.secrets)
    /\ request # None => request \in Requests /\ request.secrets = secrets

\* The secrets are read once, before the request is made.
LEMMA SecretsStep ==
    ASSUME IInv, SecretsRead, [Next]_vars
    PROVE  SecretsRead'
<1> USE DEF Goto
<1>1. CASE ParseSecrets
  <2>1. inputs.secrets \in Seq(SecretLines)
      BY InputsAssumption DEF IInv, TypesOfLookups
  <2>2. /\ Parsed(inputs.secrets) \in Seq(SecretLines)
        /\ ~SomeBroken(inputs.secrets) => Parsed(inputs.secrets) = Given(inputs.secrets)
      BY <2>1, ParsedLines
  <2>3. request' = None
      BY <1>1 DEF ParseSecrets, IInv, RequestMade
  <2>4. /\ inputs' = inputs /\ secrets' = Parsed(inputs.secrets)
        /\ pc' \in {"content", "sent"} => ~SomeBroken(inputs.secrets)
      BY <1>1 DEF ParseSecrets, AfterBroken
  <2>5. Given(inputs.secrets)' = Given(inputs.secrets)
      BY <2>4
  <2> QED
      BY <2>2, <2>3, <2>4, <2>5 DEF SecretsRead
<1>2. CASE CreateVersion
  <2>1. UNCHANGED <<inputs, secrets>> /\ Given(inputs.secrets)' = Given(inputs.secrets)
      BY <1>2 DEF CreateVersion
  <2>2. secrets = Given(inputs.secrets) /\ secrets \in Seq(SecretLines)
      BY <1>2 DEF CreateVersion, SecretsRead
  <2>3. CASE inputs.fits
    <3>1. /\ \A place \in Places : resolved[place] \in Accounts \cup {None}
          /\ inputs.async \in BOOLEAN
        BY InputsAssumption DEF IInv, TypesOfLookups
    <3>2. request' \in Requests /\ request'.secrets = secrets
        BY <1>2, <2>2, <2>3, <3>1 DEF CreateVersion, Requests, Places
    <3> QED
        BY <2>1, <2>2, <3>2 DEF SecretsRead
  <2>4. CASE ~inputs.fits
      BY <1>2, <2>1, <2>4 DEF CreateVersion, SecretsRead
  <2> QED
      BY <2>3, <2>4
<1>3. CASE UNCHANGED <<inputs, secrets, request>> /\ (pc' \in {"content", "sent"} => pc' = pc)
    BY <1>3 DEF SecretsRead
<1>4. CASE Validate \/ ResolveService \/ ResolveInvoker \/ ResolveFallback
    BY <1>3, <1>4 DEF Validate, ResolveService, ResolveInvoker, ResolveFallback, Resolve,
                      AfterInvoker
<1>5. CASE ResolveTarget("success", "failure") \/ ResolveTarget("failure", "invoker")
    BY <1>3, <1>5 DEF ResolveTarget, Resolve
<1>6. CASE Breaks
    BY <1>3, <1>6 DEF Breaks
<1>7. CASE Others
    BY <1>3, <1>7 DEF Others, DeleteAccount, CreateAccount, run
<1>8. CASE UNCHANGED vars
    BY <1>3, <1>8 DEF vars
<1> QED
    BY <1>1, <1>2, <1>4, <1>5, <1>6, <1>7, <1>8 DEF Next, Run

(***************************************************************************)
(* The secrets of a run are all those it was given, from ParseSecrets on.  *)
(***************************************************************************)
THEOREM SecretsInvariant == Spec => []SecretsRead
<1>1. Init => SecretsRead
    BY EmptySeq DEF Init, SecretsRead
<1> QED
    BY <1>1, SecretsStep, LookupInvariant, PTL DEF Spec

(***************************************************************************)
(* The variables of a run and its request have their types (TypeOK).       *)
(***************************************************************************)
THEOREM VersionTypes == Spec => []TypeOK
<1>1. IInv /\ SecretsRead => TypeOK
    BY DEF IInv, TypesOfLookups, SecretsRead, TypeOK
<1> QED
    BY <1>1, LookupInvariant, SecretsInvariant, PTL

(***************************************************************************)
(* No version is asked for without one of its secrets (SecretsComplete):   *)
(* ParseSecrets loses no line but the empty ones, whatever SECRETS holds.  *)
(***************************************************************************)
THEOREM NoSecretLost == Spec => []SecretsComplete
<1>1. IInv /\ SecretsRead => SecretsComplete
    BY DEF IInv, RequestMade, SecretsRead, SecretsComplete
<1> QED
    BY <1>1, LookupInvariant, SecretsInvariant, PTL
-----------------------------------------------------------------------------
(***************************************************************************)
(* RevisionOptions, in the cube of the container action.                   *)
(***************************************************************************)
\* A set of positions that is not empty has a last one.
LEMMA LastPosition ==
    ASSUME NEW n \in Nat, NEW P \in SUBSET (1 .. n), P # {}
    PROVE  \E i \in P : \A j \in P : j <= i
<1> DEFINE S == {k \in Nat : \A Q \in SUBSET (1 .. k) :
                                Q # {} => \E i \in Q : \A j \in Q : j <= i}
<1>1. 0 \in S
  <2>1. \A Q \in SUBSET (1 .. 0) : Q = {}
      OBVIOUS
  <2> QED
      BY <2>1
<1>2. ASSUME NEW k \in Nat, k \in S
      PROVE  k + 1 \in S
  <2> SUFFICES ASSUME NEW Q \in SUBSET (1 .. k + 1), Q # {}
               PROVE  \E i \in Q : \A j \in Q : j <= i
      OBVIOUS
  <2>1. CASE k + 1 \in Q
    <3>1. \A j \in Q : j <= k + 1
        OBVIOUS
    <3> QED
        BY <2>1, <3>1
  <2>2. CASE k + 1 \notin Q
    <3>1. Q \in SUBSET (1 .. k)
        BY <2>2
    <3> QED
        BY <1>2, <3>1
  <2> QED
      BY <2>1, <2>2
<1> HIDE DEF S
<1>3. n \in S
    BY <1>1, <1>2, NatSetInduction
<1> QED
    BY <1>3 DEF S

\* A line of ENVIRONMENT with a "=" is a name and a value.
LEMMA EnvironmentLine ==
    \A l \in {<<Word>>} \cup {Word, Blank} \X {Word, Blank} :
       Len(l) = 2 => l = <<l[1], l[2]>>
<1>1. Len(<<Word>>) # 2
    OBVIOUS
<1>2. \A l \in {Word, Blank} \X {Word, Blank} : l = <<l[1], l[2]>>
    OBVIOUS
<1> QED
    BY <1>1, <1>2

\* A later line of ENVIRONMENT wins: a variable has the value of a line that
\* no other with its name follows.
LEMMA LastLineWins ==
    ASSUME NEW lines \in Seq({<<Word>>} \cup {Word, Blank} \X {Word, Blank}),
           NEW i \in DOMAIN lines, Len(lines[i]) = 2
    PROVE  \E j \in i .. Len(lines) :
              /\ Len(lines[j]) = 2
              /\ lines[j] = <<lines[i][1], EnvironmentOf(lines)[lines[i][1]]>>
<1> DEFINE used == {j \in DOMAIN lines : Len(lines[j]) = 2}
           name == lines[i][1]
           LastWith(j, x) == /\ lines[j][1] = x
                             /\ \A l \in used : lines[l][1] = x => l <= j
           last(x) == CHOOSE j \in used : LastWith(j, x)
           P == {j \in used : lines[j][1] = name}
<1>1. Len(lines) \in Nat /\ DOMAIN lines = 1 .. Len(lines)
    BY LenProperties
<1>2. P \in SUBSET (1 .. Len(lines)) /\ i \in P
    BY <1>1
<1>3. PICK j0 \in P : \A l \in P : l <= j0
  <2> HIDE DEF P
  <2> QED
      BY <1>1, <1>2, LastPosition
<1>4. last(name) \in used /\ LastWith(last(name), name)
  <2>1. j0 \in used /\ LastWith(j0, name)
      BY <1>3
  <2> HIDE DEF used, LastWith
  <2> QED
      BY <2>1
<1>5. i <= last(name)
  <2>1. i \in used /\ lines[i][1] = name
      OBVIOUS
  <2> QED
      BY <1>4, <2>1
<1>6. EnvironmentOf(lines)[name] = lines[last(name)][2]
  <2>1. EnvironmentOf(lines) = [x \in {lines[l][1] : l \in used} |-> lines[last(x)][2]]
      BY DEF EnvironmentOf
  <2>2. name \in {lines[l][1] : l \in used}
      OBVIOUS
  <2> HIDE DEF last, used, name
  <2> QED
      BY <2>1, <2>2
<1> DEFINE k == last(name)
<1>7. k \in used /\ lines[k][1] = name /\ i <= k /\ EnvironmentOf(lines)[name] = lines[k][2]
    BY <1>4, <1>5, <1>6
<1> HIDE DEF last
<1>8. k \in i .. Len(lines) /\ Len(lines[k]) = 2
    BY <1>1, <1>7
<1> HIDE DEF used, P, k
<1>9. lines[k] = <<lines[k][1], lines[k][2]>>
  <2>1. lines[k] \in {<<Word>>} \cup {Word, Blank} \X {Word, Blank}
      BY <1>1, <1>7, <1>8, ElementOfSeq
  <2> QED
      BY <1>8, <2>1, EnvironmentLine
<1> QED
    BY <1>7, <1>8, <1>9

\* A line of no parts is no mount; a mount has the path of its line.
LEMMA WholePath ==
    ASSUME NEW line \in MountLines, line # <<>>
    PROVE  /\ MountOf(line) \in StorageMounts
           /\ <<MountOf(line).bucketID>> \o MountOf(line).prefix = line.s3Path
           /\ ~MountOf(line).readOnly => line.parts = 3 /\ line.mode = "read-write"
<1> DEFINE s == line.s3Path
<1>1. /\ s \in Seq({Word, Blank}) /\ s # <<>>
      /\ line \in [parts : 1 .. 4, s3Path : S3Paths, path : BOOLEAN, mode : Modes]
    BY DEF MountLines, S3Paths
<1> HIDE DEF s
<1>2. /\ Len(s) \in Nat \ {0} /\ DOMAIN s = 1 .. Len(s) /\ s[1] \in {Word, Blank}
      /\ s \in [1 .. Len(s) -> {Word, Blank}]
    BY <1>1, EmptySeq, LenProperties
<1>3. /\ Tail(s) \in Seq({Word, Blank}) /\ Len(Tail(s)) = Len(s) - 1
      /\ \A i \in 1 .. Len(Tail(s)) : Tail(s)[i] = s[i + 1]
    BY <1>1, HeadTailProperties
<1>4. <<s[1]>> \in Seq({Word, Blank}) /\ Len(<<s[1]>>) = 1
    BY <1>2
<1>5. <<s[1]>> \o Tail(s) = s
  <2> DEFINE t == <<s[1]>> \o Tail(s)
  <2>1. /\ t \in Seq({Word, Blank}) /\ Len(t) = Len(s)
        /\ \A i \in 1 .. Len(s) :
              t[i] = IF i <= 1 THEN <<s[1]>>[i] ELSE Tail(s)[i - 1]
      BY <1>2, <1>3, <1>4, ConcatProperties
  <2> HIDE DEF t
  <2>2. ASSUME NEW i \in 1 .. Len(s)
        PROVE  t[i] = s[i]
    <3>1. CASE i = 1
        BY <2>1, <3>1, <1>2
    <3>2. CASE i # 1
      <4>1. i - 1 \in 1 .. Len(Tail(s)) /\ ~(i <= 1) /\ (i - 1) + 1 = i
          BY <1>2, <1>3, <3>2
      <4> QED
          BY <2>1, <4>1, <1>3
    <3> QED
        BY <3>1, <3>2
  <2> QED
      BY <1>1, <1>2, <2>1, <2>2, SeqEqual DEF t
<1>6. /\ MountOf(line).bucketID = s[1] /\ MountOf(line).prefix = Tail(s)
      /\ MountOf(line).readOnly = ReadOnly(line)
    BY DEF MountOf, Prefix, s
<1>7. MountOf(line) \in StorageMounts
    BY <1>2, <1>3, <1>6 DEF MountOf, Prefix, ReadOnly, StorageMounts, s
<1> QED
    BY <1>5, <1>6, <1>7 DEF ReadOnly, s

\* What a run has of an environment e when it has filled in its options.
Filled(e) ==
    [cores : Integer, coreFraction : Integer, concurrency : Integer,
     executionTimeout : Integer, provisioned : Integer \cup {Unset},
     memory : Integer, environment : {EnvironmentOf(<<>>), EnvironmentOf(e.environment)},
     secrets : Seq(SecretLines), destination : {"group", "folder", Unset},
     level : Levels \cup {Unset}, mounts : Seq(StorageMounts)]

AfterNumbers == {"memory", "secrets", "logOptions", "mounts", "deploy", "sent"}
AfterMemory == AfterNumbers \ {"memory"}
AfterSecrets == AfterMemory \ {"secrets"}
AfterLogOptions == AfterSecrets \ {"logOptions"}
AfterMounts == {"deploy", "sent"}

MountsOf(lines) == [i \in DOMAIN lines |-> MountOf(lines[i])]

\* What each parser that has been passed has found and filled in.
NumbersRead ==
    parser \in AfterNumbers =>
       /\ environ.image # Unset
       /\ ~JunkNumber(environ)
       /\ \A n \in Numbers : options[n] = NumberOf(n)
       /\ options.provisioned = environ.provisioned
       /\ options.environment = EnvironmentOf(environ.environment)
MemoryRead ==
    parser \in AfterMemory =>
       /\ environ.memory \notin {Unset, Junk}
       /\ options.memory = Wrap(Size(environ.memory))
LockboxSecretsRead ==
    parser \in AfterSecrets =>
       /\ ~SomeBroken(environ.secrets)
       /\ options.secrets = Given(environ.secrets)
LogOptionsRead ==
    parser \in AfterLogOptions =>
       /\ Unset \in {environ.logGroup, environ.logFolder}
       /\ environ.logLevel # Junk
MountsRead ==
    parser \in AfterMounts =>
       /\ \A i \in DOMAIN Given(environ.mounts) : ~BadMount(Given(environ.mounts)[i])
       /\ options.mounts = MountsOf(Given(environ.mounts))

\* The request is made of them.
RevisionMade ==
    revision # Unset =>
       parser = "sent" /\ revision = [options EXCEPT !.destination = Destination]

ParsedSoFar ==
    /\ environ \in Environs
    /\ parser \in Parsers \cup {"image", "deploy", "sent", "failed"}
    /\ options \in Filled(environ)
    /\ parser = "numbers" => environ.image # Unset
    /\ NumbersRead /\ MemoryRead /\ LockboxSecretsRead /\ LogOptionsRead /\ MountsRead
    /\ RevisionMade

\* The parts of an environment.
LEMMA EnvironParts ==
    ASSUME NEW e \in Environs
    PROVE  /\ \A n \in Numbers : e.numbers[n] \in Integer \cup {Unset, Junk}
           /\ e.provisioned \in Integer \cup {Unset, Junk}
           /\ e.environment \in Seq({<<Word>>} \cup {Word, Blank} \X {Word, Blank})
           /\ e.memory \in {Unset, Junk} \cup [digits : Nat, unit : {"mb", "gb"}]
           /\ e.secrets \in Seq(SecretLines)
           /\ e.logGroup \in {Unset, "group"} /\ e.logFolder \in {Unset, "folder"}
           /\ e.logLevel \in Levels \cup {Unset, Junk}
           /\ e.mounts \in Seq(MountLines)
BY EnvironsAssumption

LEMMA LimitProperties ==
    /\ Limit \in Nat /\ 100 < Limit
    /\ MB \in 1 .. Limit - 1 /\ GB \in 1 .. Limit - 1
    /\ Integer = -Limit .. Limit - 1
BY WidthAssumption DEF Integer

\* What does not fit is off by a multiple of all the integers there are.
LEMMA WrapProperties ==
    ASSUME NEW n \in Nat
    PROVE  /\ Wrap(n) \in Integer
           /\ n < Limit => Wrap(n) = n
           /\ (n - Wrap(n)) % (2 * Limit) = 0
<1> DEFINE L == Limit
           w == ((n + L) % (2 * L)) - L
<1>1. L \in Nat /\ 100 < L /\ Integer = -L .. L - 1 /\ Wrap(n) = w
    BY LimitProperties DEF Wrap
<1> HIDE DEF L
<1>2. w \in -L .. L - 1
    BY <1>1
<1>3. n < L => w = n
    BY <1>1
<1>4. (n - w) % (2 * L) = 0
    BY <1>1
<1> QED
    BY <1>1, <1>2, <1>3, <1>4 DEF L

LEMMA SizeIsNatural ==
    ASSUME NEW m \in [digits : Nat, unit : {"mb", "gb"}]
    PROVE  Size(m) \in Nat
<1>1. m.digits \in Nat /\ MB \in Nat /\ GB \in Nat
    BY LimitProperties
<1>2. \A a, b \in Nat : a * b \in Nat
    OBVIOUS
<1> QED
    BY <1>1, <1>2 DEF Size

\* A run starts with none of its options filled in.
LEMMA CubeInitParsed == CubeInit => ParsedSoFar
<1> SUFFICES ASSUME CubeInit PROVE ParsedSoFar
    OBVIOUS
<1> USE DEF CubeInit, OptionsInit
<1>1. environ \in Environs
    BY ScenariosAssumption
<1>2. 0 \in Integer
    BY LimitProperties
<1>3. <<>> \in Seq(SecretLines) /\ <<>> \in Seq(StorageMounts)
    BY EmptySeq
<1>4. options \in Filled(environ)
    BY <1>2, <1>3 DEF NoOptions, Filled
<1> QED
    BY <1>1, <1>4
       DEF ParsedSoFar, NumbersRead, MemoryRead, LockboxSecretsRead, LogOptionsRead, MountsRead,
           RevisionMade, Parsers, AfterNumbers, AfterMemory, AfterSecrets, AfterLogOptions,
           AfterMounts

\* What is made of an environment that stays the same stays the same.
EnvironFrame ==
    /\ Given(environ.secrets)' = Given(environ.secrets)
    /\ Given(environ.mounts)' = Given(environ.mounts)
    /\ MountsOf(Given(environ.mounts))' = MountsOf(Given(environ.mounts))
    /\ SomeBroken(environ.secrets)' = SomeBroken(environ.secrets)
    /\ Wrap(Size(environ.memory))' = Wrap(Size(environ.memory))
    /\ JunkNumber(environ)' = JunkNumber(environ)
    /\ Filled(environ)' = Filled(environ)
    /\ EnvironmentOf(environ.environment)' = EnvironmentOf(environ.environment)
    /\ \A n : NumberOf(n)' = NumberOf(n)

LEMMA SameEnviron ==
    ASSUME environ' = environ
    PROVE  EnvironFrame
BY DEF EnvironFrame, NumberOf

\* The parsers that have been passed stay so while others fill in theirs.
LEMMA ParserStep ==
    ASSUME ParsedSoFar, ParseRevOptions
    PROVE  ParsedSoFar'
<1> USE DEF Reach, Fail, Parse, AfterNumbers, AfterMemory, AfterSecrets, AfterLogOptions,
            AfterMounts, Parsers
<1>1. environ' = environ /\ revision' = revision /\ revision = Unset
    BY DEF ParsedSoFar, RevisionMade, ParseRevOptions, ParseImage, ParseNumbers, ParseMemory,
           ParseLockboxSecrets, ParseLogOptions, ParseStorageMounts
<1>2. EnvironFrame
    BY <1>1, SameEnviron
<1>3. options \in Filled(environ)
    BY DEF ParsedSoFar
<1>4. CASE parser' = "failed" /\ options' = options
    BY <1>1, <1>2, <1>4
       DEF EnvironFrame, ParsedSoFar, NumbersRead, MemoryRead, LockboxSecretsRead, LogOptionsRead, MountsRead,
           RevisionMade
<1>5. CASE ParseImage
    BY <1>1, <1>2, <1>4, <1>5
       DEF EnvironFrame, ParseImage, ParsedSoFar, NumbersRead, MemoryRead, LockboxSecretsRead,
           LogOptionsRead, MountsRead, RevisionMade
<1>6. CASE ParseNumbers
  <2> SUFFICES ASSUME ~JunkNumber(environ) PROVE ParsedSoFar'
      BY <1>4, <1>6 DEF ParseNumbers
  <2>1. /\ \A n \in Numbers : NumberOf(n) \in Integer
        /\ environ.provisioned \in Integer \cup {Unset}
    <3>1. /\ environ \in Environs
          /\ \A n \in Numbers : environ.numbers[n] # Junk
          /\ environ.provisioned # Junk
        BY DEF JunkNumber, ParsedSoFar
    <3>2. \A n \in Numbers : Default[n] \in Integer
        BY LimitProperties DEF Default, Numbers
    <3> QED
        BY <3>1, <3>2, EnvironParts DEF NumberOf
  <2>2. /\ options' = [options EXCEPT !.cores            = NumberOf("cores"),
                                      !.coreFraction     = NumberOf("coreFraction"),
                                      !.concurrency      = NumberOf("concurrency"),
                                      !.executionTimeout = NumberOf("executionTimeout"),
                                      !.provisioned      = environ.provisioned,
                                      !.environment      = EnvironmentOf(environ.environment)]
        /\ parser = "numbers" /\ parser' = "memory"
      BY <1>6 DEF ParseNumbers
  <2>3. /\ options'.cores = NumberOf("cores")
        /\ options'.coreFraction = NumberOf("coreFraction")
        /\ options'.concurrency = NumberOf("concurrency")
        /\ options'.executionTimeout = NumberOf("executionTimeout")
        /\ options'.provisioned = environ.provisioned
        /\ options'.environment = EnvironmentOf(environ.environment)
        /\ options' \in Filled(environ)
      BY <1>3, <2>1, <2>2 DEF Filled, Numbers
  <2> QED
      BY <1>1, <1>2, <2>2, <2>3
         DEF EnvironFrame, ParsedSoFar, NumbersRead, MemoryRead, LockboxSecretsRead, LogOptionsRead,
             MountsRead, RevisionMade, Numbers
<1>7. CASE ParseMemory
  <2> SUFFICES ASSUME environ.memory \notin {Unset, Junk} PROVE ParsedSoFar'
      BY <1>4, <1>7 DEF ParseMemory
  <2>1. CASE environ.memory.digits \notin Integer
      BY <1>4, <1>7, <2>1 DEF ParseMemory
  <2>2. CASE environ.memory.digits \in Integer
    <3>1. Wrap(Size(environ.memory)) \in Integer
        BY EnvironParts, SizeIsNatural, WrapProperties DEF ParsedSoFar
    <3>2. /\ options' = [options EXCEPT !.memory = Wrap(Size(environ.memory))]
          /\ parser = "memory" /\ parser' = "secrets"
        BY <1>7, <2>2 DEF ParseMemory
    <3>3. /\ options'.memory = Wrap(Size(environ.memory))
          /\ \A f \in DOMAIN options \ {"memory"} : options'[f] = options[f]
          /\ options' \in Filled(environ)
        BY <1>3, <3>1, <3>2 DEF Filled
    <3>4. \A n \in Numbers : n \in DOMAIN options \ {"memory"}
        BY <1>3 DEF Filled, Numbers
    <3> QED
        BY <1>1, <1>2, <1>3, <3>2, <3>3, <3>4
           DEF EnvironFrame, ParsedSoFar, NumbersRead, MemoryRead, LockboxSecretsRead, LogOptionsRead,
               MountsRead, RevisionMade
  <2> QED
      BY <2>1, <2>2
<1>8. CASE ParseLockboxSecrets
  <2> SUFFICES ASSUME ~SomeBroken(environ.secrets) PROVE ParsedSoFar'
      BY <1>4, <1>8 DEF ParseLockboxSecrets
  <2>1. Parsed(environ.secrets) \in Seq(SecretLines)
        /\ Parsed(environ.secrets) = Given(environ.secrets)
      BY EnvironParts, ParsedLines DEF ParsedSoFar
  <2>2. /\ options' = [options EXCEPT !.secrets = Given(environ.secrets)]
        /\ parser = "secrets" /\ parser' = "logOptions"
      BY <1>8, <2>1 DEF ParseLockboxSecrets
  <2>3. /\ options'.secrets = Given(environ.secrets)
        /\ \A f \in DOMAIN options \ {"secrets"} : options'[f] = options[f]
        /\ options' \in Filled(environ)
      BY <1>3, <2>1, <2>2 DEF Filled
  <2>4. \A n \in Numbers : n \in DOMAIN options \ {"secrets"}
      BY <1>3 DEF Filled, Numbers
  <2> QED
      BY <1>1, <1>2, <1>3, <2>2, <2>3, <2>4
         DEF EnvironFrame, ParsedSoFar, NumbersRead, MemoryRead, LockboxSecretsRead, LogOptionsRead,
             MountsRead, RevisionMade
<1>9. CASE ParseLogOptions
  <2>1. CASE (environ.logGroup # Unset /\ environ.logFolder # Unset) \/ environ.logLevel = Junk
      BY <1>4, <1>9, <2>1 DEF ParseLogOptions
  <2>2. CASE ~((environ.logGroup # Unset /\ environ.logFolder # Unset) \/ environ.logLevel = Junk)
    <3>1. environ.logLevel \in Levels \cup {Unset}
        BY <2>2, EnvironParts DEF ParsedSoFar
    <3>2. /\ options' = [options EXCEPT !.level = environ.logLevel]
          /\ parser = "logOptions" /\ parser' = "mounts"
        BY <1>9, <2>2 DEF ParseLogOptions
    <3>3. /\ \A f \in DOMAIN options \ {"level"} : options'[f] = options[f]
          /\ options' \in Filled(environ)
        BY <1>3, <3>1, <3>2 DEF Filled
    <3>4. \A n \in Numbers : n \in DOMAIN options \ {"level"}
        BY <1>3 DEF Filled, Numbers
    <3> QED
        BY <1>1, <1>2, <1>3, <2>2, <3>2, <3>3, <3>4
           DEF EnvironFrame, ParsedSoFar, NumbersRead, MemoryRead, LockboxSecretsRead, LogOptionsRead,
               MountsRead, RevisionMade
  <2> QED
      BY <2>1, <2>2
<1>10. CASE ParseStorageMounts
  <2> DEFINE lines == Given(environ.mounts)
             ms == MountsOf(lines)
  <2>1. CASE \E i \in DOMAIN lines : BadMount(lines[i])
      BY <1>4, <1>10, <2>1 DEF ParseStorageMounts
  <2>2. CASE ~\E i \in DOMAIN lines : BadMount(lines[i])
    <3>1. ms \in Seq(StorageMounts)
      <4>1. lines \in Seq(MountLines)
          BY EnvironParts, GivenLines DEF ParsedSoFar
      <4> HIDE DEF lines
      <4>2. Len(lines) \in Nat /\ DOMAIN lines = 1 .. Len(lines)
          BY <4>1, LenProperties
      <4>3. ASSUME NEW i \in 1 .. Len(lines)
            PROVE  MountOf(lines[i]) \in StorageMounts
        <5>1. lines[i] \in MountLines /\ lines[i] # <<>>
            BY <4>1, <4>2, ElementOfSeq, GivenNotEmpty, EnvironParts DEF lines, ParsedSoFar
        <5> QED
            BY <5>1, WholePath
      <4>4. ms \in [1 .. Len(lines) -> StorageMounts]
          BY <4>2, <4>3 DEF MountsOf
      <4> QED
          BY <4>2, <4>4, SeqDef
    <3>2. /\ options' = [options EXCEPT !.mounts = ms]
          /\ parser = "mounts" /\ parser' = "deploy"
        BY <1>10, <2>2 DEF ParseStorageMounts, MountsOf
    <3> HIDE DEF ms
    <3>3. /\ options'.mounts = ms
          /\ \A f \in DOMAIN options \ {"mounts"} : options'[f] = options[f]
          /\ options' \in Filled(environ)
        BY <1>3, <3>1, <3>2 DEF Filled
    <3>4. \A n \in Numbers : n \in DOMAIN options \ {"mounts"}
        BY <1>3 DEF Filled, Numbers
    <3> QED
        BY <1>1, <1>2, <1>3, <2>2, <3>2, <3>3, <3>4
           DEF ms, EnvironFrame, ParsedSoFar, NumbersRead, MemoryRead, LockboxSecretsRead, LogOptionsRead,
               MountsRead, RevisionMade
  <2> QED
      BY <2>1, <2>2
<1> QED
    BY <1>5, <1>6, <1>7, <1>8, <1>9, <1>10 DEF ParseRevOptions

\* The request is made of all of them.
LEMMA RevisionStep ==
    ASSUME ParsedSoFar, CreateRevision
    PROVE  ParsedSoFar'
<1> USE DEF Reach, AfterNumbers, AfterMemory, AfterSecrets, AfterLogOptions, AfterMounts, Parsers
<1>1. /\ environ' = environ /\ options' = options
      /\ parser = "deploy" /\ parser' = "sent"
      /\ revision' = [options EXCEPT !.destination = Destination]
    BY DEF CreateRevision
<1>2. /\ NumbersRead' /\ MemoryRead' /\ LockboxSecretsRead' /\ LogOptionsRead' /\ MountsRead'
      /\ options' \in Filled(environ')
    BY <1>1, SameEnviron
       DEF EnvironFrame, ParsedSoFar, NumbersRead, MemoryRead, LockboxSecretsRead, LogOptionsRead,
           MountsRead
<1>3. RevisionMade'
    BY <1>1 DEF RevisionMade, Destination
<1> QED
    BY <1>1, <1>2, <1>3 DEF ParsedSoFar

\* A step that leaves the parsing alone.
LEMMA ParsedFrame ==
    ASSUME ParsedSoFar, UNCHANGED parsing
    PROVE  ParsedSoFar'
<1>1. environ' = environ /\ parser' = parser /\ options' = options /\ revision' = revision
    BY DEF parsing
<1> QED
    BY <1>1, SameEnviron
       DEF EnvironFrame, ParsedSoFar, NumbersRead, MemoryRead, LockboxSecretsRead, LogOptionsRead,
           MountsRead, RevisionMade, Destination

LEMMA ParsedStep ==
    ASSUME ParsedSoFar, [CubeNext]_cubeVars
    PROVE  ParsedSoFar'
<1>1. CASE UNCHANGED parsing
    BY <1>1, ParsedFrame
<1> QED
    BY <1>1, ParserStep, RevisionStep DEF CubeNext, Action, SetOutputs, CubeEnds, cubeVars

(***************************************************************************)
(* Whatever the inputs, what has been parsed of them is in the options,    *)
(* and the request is made when all of them have been.                     *)
(***************************************************************************)
THEOREM ParsingInvariant == CubeSpec => []ParsedSoFar
BY CubeInitParsed, ParsedStep, PTL DEF CubeSpec

\* With all parsers passed, every input is as its format wants it.
LEMMA ParsedIsUnderstood ==
    ASSUME ParsedSoFar, parser = "sent"
    PROVE  Understood
<1> USE DEF ParsedSoFar, AfterNumbers, AfterMemory, AfterSecrets, AfterLogOptions, AfterMounts
<1>1. /\ environ.image # Unset
      /\ \A n \in Numbers : environ.numbers[n] # Junk
      /\ environ.provisioned # Junk
    BY DEF NumbersRead, JunkNumber
<1>2. environ.memory \notin {Unset, Junk}
    BY DEF MemoryRead
<1>3. environ.logLevel # Junk /\ Unset \in {environ.logGroup, environ.logFolder}
    BY DEF LogOptionsRead
<1>4. ASSUME NEW i \in DOMAIN environ.secrets, environ.secrets[i] # <<>>
      PROVE  ~Broken(environ.secrets[i])
    BY <1>4, EnvironParts, BrokenAnywhere DEF LockboxSecretsRead
<1>5. ASSUME NEW i \in DOMAIN environ.mounts, environ.mounts[i] # <<>>
      PROVE  /\ environ.mounts[i].parts \in {2, 3}
             /\ environ.mounts[i].s3Path # <<Blank>> /\ environ.mounts[i].path
             /\ environ.mounts[i].mode # Junk \/ environ.mounts[i].parts = 2
  <2>1. environ.mounts[i] \in ToSet(environ.mounts) \ {<<>>}
      BY <1>5 DEF ToSet
  <2>2. environ.mounts[i] \in ToSet(Given(environ.mounts))
      BY <2>1, EnvironParts, GivenLines
  <2>3. ~BadMount(environ.mounts[i])
      BY <2>2 DEF MountsRead, ToSet
  <2> QED
      BY <2>3 DEF BadMount
<1> QED
    BY <1>1, <1>2, <1>3, <1>4, <1>5 DEF Understood

(***************************************************************************)
(* The request has what was given and the defaults for the rest            *)
(* (RequestAsAsked), for every width of the integers that holds the        *)
(* defaults: no parser loses or mixes up what another has filled in.       *)
(***************************************************************************)
THEOREM EveryRequestAsAsked == CubeSpec => []RequestAsAsked
<1> SUFFICES ParsedSoFar => RequestAsAsked
    BY ParsingInvariant, PTL
<1> SUFFICES ASSUME ParsedSoFar, revision # Unset PROVE RequestAsAsked
    BY DEF RequestAsAsked
<1> USE DEF ParsedSoFar, AfterNumbers, AfterMemory, AfterSecrets, AfterLogOptions, AfterMounts
<1>1. /\ parser = "sent" /\ environ \in Environs /\ options \in Filled(environ)
      /\ revision = [options EXCEPT !.destination = Destination]
    BY DEF RevisionMade
<1>2. /\ revision.destination = Destination
      /\ \A n \in Numbers \cup {"memory", "provisioned", "secrets", "mounts", "environment"} :
            revision[n] = options[n]
    BY <1>1 DEF Filled, Numbers
<1>3. \A n \in Numbers : revision[n] = NumberOf(n)
    BY <1>1, <1>2 DEF NumbersRead
<1>4. SizeUpToWidth
  <2>1. environ.memory \in [digits : Nat, unit : {"mb", "gb"}]
      BY <1>1, EnvironParts DEF MemoryRead
  <2>2. revision.memory = Wrap(Size(environ.memory)) /\ Size(environ.memory) \in Nat
      BY <1>1, <1>2, <2>1, SizeIsNatural DEF MemoryRead
  <2> QED
      BY <2>2, WrapProperties DEF SizeUpToWidth
<1>5. /\ revision.provisioned = environ.provisioned
      /\ revision.secrets = Given(environ.secrets)
    BY <1>1, <1>2 DEF NumbersRead, LockboxSecretsRead
<1>6. {revision.destination} \cup {Unset} = {environ.logGroup, environ.logFolder} \cup {Unset}
  <2>1. Unset \in {environ.logGroup, environ.logFolder}
      BY <1>1 DEF LogOptionsRead
  <2> QED
      BY <1>2, <2>1 DEF Destination
<1>7. /\ Len(revision.mounts) = Len(Given(environ.mounts))
      /\ \A i \in DOMAIN revision.mounts :
            /\ <<revision.mounts[i].bucketID>> \o revision.mounts[i].prefix
                  = Given(environ.mounts)[i].s3Path
            /\ ~revision.mounts[i].readOnly =>
                  /\ Given(environ.mounts)[i].parts = 3
                  /\ Given(environ.mounts)[i].mode = "read-write"
  <2> DEFINE lines == Given(environ.mounts)
  <2>1. lines \in Seq(MountLines)
      BY <1>1, EnvironParts, GivenLines
  <2>2. revision.mounts = MountsOf(lines)
      BY <1>1, <1>2 DEF MountsRead
  <2> HIDE DEF lines
  <2>3. Len(lines) \in Nat /\ DOMAIN lines = 1 .. Len(lines)
      BY <2>1, LenProperties
  <2>4. /\ DOMAIN revision.mounts = 1 .. Len(lines)
        /\ \A i \in 1 .. Len(lines) : revision.mounts[i] = MountOf(lines[i])
      BY <2>2, <2>3 DEF MountsOf
  <2>5. Len(revision.mounts) = Len(lines)
      BY <2>2, <2>3 DEF MountsOf
  <2>6. ASSUME NEW i \in 1 .. Len(lines)
        PROVE  /\ <<MountOf(lines[i]).bucketID>> \o MountOf(lines[i]).prefix = lines[i].s3Path
               /\ ~MountOf(lines[i]).readOnly => lines[i].parts = 3 /\ lines[i].mode = "read-write"
    <3>1. lines[i] \in MountLines /\ lines[i] # <<>>
        BY <1>1, <2>1, <2>3, ElementOfSeq, GivenNotEmpty, EnvironParts DEF lines
    <3> QED
        BY <3>1, WholePath
  <2> QED
      BY <2>4, <2>5, <2>6 DEF lines
<1>8. ASSUME NEW i \in DOMAIN environ.environment, Len(environ.environment[i]) = 2
      PROVE  \E j \in i .. Len(environ.environment) :
                /\ Len(environ.environment[j]) = 2
                /\ environ.environment[j] = <<environ.environment[i][1],
                                              revision.environment[environ.environment[i][1]]>>
  <2>1. revision.environment = EnvironmentOf(environ.environment)
      BY <1>1, <1>2 DEF NumbersRead
  <2> QED
      BY <1>1, <1>8, <2>1, EnvironParts, LastLineWins
<1> QED
    BY <1>3, <1>4, <1>5, <1>6, <1>7, <1>8 DEF RequestAsAsked, NumberOf
-----------------------------------------------------------------------------
(***************************************************************************)
(* Outputs.                                                                *)
(***************************************************************************)
KeyCharacters == Capitals \cup {"_"}
Lines == [key : Seq(KeyCharacters), value : Settings \cup {Garbled, Nothing}]

OutputsTyped ==
    /\ workflow \in Workflows
    /\ failing \in BOOLEAN
    /\ at \in [cube : 1 .. Len(workflow) + 1, done : Nat]
    /\ file \in Seq(Lines)
    /\ torn \in {"nowhere", "key", "value"}
    /\ torn # "nowhere" => file # <<>>
    /\ calls \in Seq([of : Settings, logged : BOOLEAN])

\* The outputs of the container action were set with its revision there.
OutputsOfRevision ==
    \A i \in DOMAIN calls : calls[i].of[1] = 1 => parser = "sent"

\* The names of the cubes and outputs of a workflow.
LEMMA NamesOfSettings ==
    ASSUME workflow \in Workflows
    PROVE  /\ Len(workflow) \in Nat /\ DOMAIN workflow = 1 .. Len(workflow)
           /\ \A c \in DOMAIN workflow :
                 /\ workflow[c].name \in Seq(Characters)
                 /\ workflow[c].outputs \in Seq(Seq(Characters))
                 /\ DOMAIN workflow[c].outputs = 1 .. Len(workflow[c].outputs)
                 /\ \A o \in DOMAIN workflow[c].outputs :
                       /\ workflow[c].outputs[o] \in Seq(Characters)
                       /\ <<c, o>> \in Settings
<1>1. workflow \in Seq([name : Seq(Characters), outputs : Seq(Seq(Characters))])
    BY WorkflowsAssumption
<1>2. Len(workflow) \in Nat /\ DOMAIN workflow = 1 .. Len(workflow)
    BY <1>1, LenProperties
<1>3. ASSUME NEW c \in DOMAIN workflow
      PROVE  workflow[c] \in [name : Seq(Characters), outputs : Seq(Seq(Characters))]
    BY <1>1, <1>2, ElementOfSeq
<1>4. ASSUME NEW c \in DOMAIN workflow
      PROVE  DOMAIN workflow[c].outputs = 1 .. Len(workflow[c].outputs)
    BY <1>3, LenProperties
<1>5. ASSUME NEW c \in DOMAIN workflow, NEW o \in DOMAIN workflow[c].outputs
      PROVE  workflow[c].outputs[o] \in Seq(Characters)
    BY <1>3, <1>4, ElementOfSeq
<1>6. ASSUME NEW c \in DOMAIN workflow, NEW o \in DOMAIN workflow[c].outputs
      PROVE  <<c, o>> \in Settings
    BY DEF Settings
<1> QED
    BY <1>2, <1>3, <1>4, <1>5, <1>6

\* Sequences of one element and of two.
LEMMA ShortSequences ==
    ASSUME NEW T, NEW x \in T, NEW y \in T
    PROVE  <<x>> \in Seq(T) /\ <<y, x>> \in Seq(T)
OBVIOUS

Upper(x) == IF x \in Letters THEN Capital[x] ELSE x

\* The character that stands for another in a key.
InKey(x) == Upper(IF x = "-" THEN "_" ELSE x)

\* The pieces a name in a key is put together from, one for each character.
LEMMA SnakePieces ==
    ASSUME NEW name \in Seq(Characters)
    PROVE  \E p \in Seq(Seq(KeyCharacters)) :
              /\ Len(p) = Len(name)
              /\ UpperSnakeCase(name) = FlattenSeq(p)
              /\ \A i \in 1 .. Len(name) :
                    /\ InKey(name[i]) \in KeyCharacters
                    /\ p[i] \in {<<InKey(name[i])>>, <<"_", InKey(name[i])>>}
<1> DEFINE s == [i \in DOMAIN name |-> IF name[i] = "-" THEN "_" ELSE name[i]]
           p == [i \in DOMAIN s |->
                   IF Starts(s, i) THEN <<"_", Upper(s[i])>> ELSE <<Upper(s[i])>>]
<1>1. /\ Len(name) \in Nat /\ DOMAIN name = 1 .. Len(name)
      /\ \A i \in 1 .. Len(name) : name[i] \in Characters
    BY LenProperties, ElementOfSeq
<1>2. /\ DOMAIN s = 1 .. Len(name)
      /\ \A i \in 1 .. Len(name) : /\ s[i] \in Letters \cup KeyCharacters
                                   /\ InKey(name[i]) = Upper(s[i])
    BY <1>1 DEF Characters, KeyCharacters, InKey
<1>3. \A x \in Letters \cup KeyCharacters : Upper(x) \in KeyCharacters
    BY DEF Upper, KeyCharacters, Capitals
<1>4. \A x \in KeyCharacters : <<x>> \in Seq(KeyCharacters) /\ <<"_", x>> \in Seq(KeyCharacters)
  <2>1. "_" \in KeyCharacters
      BY DEF KeyCharacters
  <2>2. \A x, y \in KeyCharacters : <<x>> \in Seq(KeyCharacters) /\ <<y, x>> \in Seq(KeyCharacters)
      BY ShortSequences
  <2> QED
      BY <2>1, <2>2
<1>7. UpperSnakeCase(name) = FlattenSeq(p)
    BY DEF UpperSnakeCase, Upper
<1> HIDE DEF s
<1>5. p \in [1 .. Len(name) -> Seq(KeyCharacters)]
    BY <1>2, <1>3, <1>4
<1>6. p \in Seq(Seq(KeyCharacters)) /\ Len(p) = Len(name)
  <2>1. p \in Seq(Seq(KeyCharacters))
    <3> HIDE DEF p
    <3> QED
        BY <1>1, <1>5, SeqDef
  <2>2. DOMAIN p = 1 .. Len(name)
      BY <1>2
  <2> HIDE DEF p
  <2> QED
      BY <1>1, <2>1, <2>2, LenProperties
<1>8. \A i \in 1 .. Len(name) : p[i] \in {<<Upper(s[i])>>, <<"_", Upper(s[i])>>}
    BY <1>2
<1> HIDE DEF p
<1> QED
    BY <1>2, <1>3, <1>6, <1>7, <1>8

\* A key is made of capitals and underscores.
LEMMA UpperSnakeCaseType ==
    ASSUME NEW name \in Seq(Characters)
    PROVE  UpperSnakeCase(name) \in Seq(KeyCharacters)
<1>1. PICK p \in Seq(Seq(KeyCharacters)) : UpperSnakeCase(name) = FlattenSeq(p)
    BY SnakePieces
<1>2. PICK f : /\ f \in [0 .. Len(p) -> Seq(KeyCharacters)]
               /\ FlattenSeq(p) = f[Len(p)]
    BY FlattenSteps
<1>3. Len(p) \in 0 .. Len(p)
    BY LenProperties
<1> QED
    BY <1>1, <1>2, <1>3

LEMMA KeyType ==
    ASSUME workflow \in Workflows,
           NEW c \in DOMAIN workflow, NEW o \in DOMAIN workflow[c].outputs
    PROVE  Key(c, o) \in Seq(KeyCharacters)
<1>1. /\ UpperSnakeCase(workflow[c].name) \in Seq(KeyCharacters)
      /\ UpperSnakeCase(workflow[c].outputs[o]) \in Seq(KeyCharacters)
    BY NamesOfSettings, UpperSnakeCaseType
<1>2. <<"_">> \in Seq(KeyCharacters)
    BY DEF KeyCharacters
<1> QED
    BY <1>1, <1>2, ConcatProperties DEF Key

\* What Appended makes of the file.
LEMMA AppendedLines ==
    ASSUME OutputsTyped, NEW line \in Lines
    PROVE  /\ Appended(line) \in Seq(Lines)
           /\ Appended(line) # <<>>
           /\ torn = "nowhere" =>
                 /\ Len(Appended(line)) = Len(file) + 1
                 /\ Appended(line)[Len(file) + 1] = line
                 /\ \A i \in 1 .. Len(file) : Appended(line)[i] = file[i]
           /\ torn # "nowhere" =>
                 /\ Len(file) \in Nat \ {0}
                 /\ Len(Appended(line)) = Len(file)
                 /\ \A i \in 1 .. Len(file) - 1 : Appended(line)[i] = file[i]
           /\ torn = "key" =>
                 Appended(line)[Len(file)] =
                    [key |-> file[Len(file)].key \o line.key, value |-> line.value]
           /\ torn = "value" =>
                 Appended(line)[Len(file)] =
                    [key |-> file[Len(file)].key, value |-> Garbled]
<1> USE DEF OutputsTyped
<1>1. Len(file) \in Nat
    BY LenProperties
<1>2. CASE torn = "nowhere"
    BY <1>1, <1>2, AppendProperties DEF Appended
<1>3. CASE torn # "nowhere"
  <2>1. Len(file) \in Nat \ {0} /\ Len(file) \in 1 .. Len(file)
      BY <1>1, <1>3, EmptySeq
  <2>2. file[Len(file)] \in Lines
      BY <2>1, ElementOfSeq
  <2> DEFINE old == file[Len(file)]
             new == IF torn = "key"
                    THEN [key |-> old.key \o line.key, value |-> line.value]
                    ELSE [key |-> old.key, value |-> Garbled]
  <2>3. old \in Lines /\ old = [key |-> old.key, value |-> old.value]
      BY <2>2 DEF Lines
  <2>4. Appended(line) = [file EXCEPT ![Len(file)] = new]
    <3>1. CASE torn = "key"
        BY <3>1 DEF Appended
    <3>2. CASE torn = "value"
      <4>1. [old EXCEPT !.value = Garbled] = [key |-> old.key, value |-> Garbled]
          BY <2>3
      <4>2. Appended(line) = [file EXCEPT ![Len(file)] = [old EXCEPT !.value = Garbled]]
          BY <3>2, <1>3 DEF Appended
      <4> QED
          BY <3>2, <4>1, <4>2
    <3> QED
        BY <1>3, <3>1, <3>2
  <2>5. new \in Lines
    <3>1. old.key \o line.key \in Seq(KeyCharacters)
        BY <2>3, ConcatProperties DEF Lines
    <3> HIDE DEF old
    <3> QED
        BY <2>3, <3>1 DEF Lines
  <2>6. torn = "key" => new = [key |-> old.key \o line.key, value |-> line.value]
      OBVIOUS
  <2>7. torn = "value" => new = [key |-> old.key, value |-> Garbled]
      OBVIOUS
  <2> HIDE DEF new
  <2>8. /\ [file EXCEPT ![Len(file)] = new] \in Seq(Lines)
        /\ Len([file EXCEPT ![Len(file)] = new]) = Len(file)
        /\ \A j \in 1 .. Len(file) :
              [file EXCEPT ![Len(file)] = new][j] = IF j = Len(file) THEN new ELSE file[j]
      BY <2>1, <2>5, ExceptSeq
  <2>9. \A i \in 1 .. Len(file) - 1 : i \in 1 .. Len(file) /\ i # Len(file)
      BY <2>1
  <2>10. /\ Appended(line) \in Seq(Lines)
         /\ Len(Appended(line)) = Len(file)
         /\ \A i \in 1 .. Len(file) - 1 : Appended(line)[i] = file[i]
         /\ Appended(line)[Len(file)] = new
      BY <2>1, <2>4, <2>8, <2>9
  <2>11. Appended(line) # <<>>
      BY <2>1, <2>10, EmptySeq
  <2> QED
      BY <1>3, <2>1, <2>6, <2>7, <2>10, <2>11
<1> QED
    BY <1>2, <1>3

\* What one call of SetOutput does to the file, and what it says of it.
Wrote(line, s, logged) == file' = Appended(line) /\ Called(s, logged)

LEMMA SetOutputWrites ==
    ASSUME OutputsTyped, NEW c \in DOMAIN workflow, NEW o \in DOMAIN workflow[c].outputs,
           SetOutput(c, o)
    PROVE  \/ Wrote([key |-> Key(c, o), value |-> <<c, o>>], <<c, o>>, FALSE) /\ torn' = "nowhere"
           \/ Called(<<c, o>>, TRUE) /\ file' = file /\ torn' = torn
           \/ /\ \E key \in Seq(KeyCharacters) :
                    Wrote([key |-> key, value |-> Nothing], <<c, o>>, TRUE)
              /\ torn' = IF torn = "value" THEN "value" ELSE "key"
           \/ /\ \E v \in {Garbled, <<c, o>>} :
                    Wrote([key |-> Key(c, o), value |-> v], <<c, o>>, TRUE)
              /\ torn' = "value"
<1> DEFINE k == Key(c, o)
<1>1. k \in Seq(KeyCharacters)
    BY KeyType DEF OutputsTyped
<1>2. CASE Written(c, o)
    BY <1>2 DEF Written, Wrote
<1>3. CASE NotOpened(c, o)
    BY <1>3 DEF NotOpened
<1>4. CASE CutInKey(c, o)
  <2>1. ASSUME NEW n \in 1 .. Len(k)
        PROVE  SubSeq(k, 1, n) \in Seq(KeyCharacters)
    <3>1. Len(k) \in Nat /\ n \in Int /\ \A i \in 1 .. n : i \in 1 .. Len(k)
        BY <1>1, LenProperties
    <3>2. \A i \in 1 .. n : k[i] \in KeyCharacters
        BY <1>1, <3>1, ElementOfSeq
    <3> HIDE DEF k
    <3> QED
        BY <3>1, <3>2, SubSeqProperties
  <2> QED
      BY <1>4, <2>1 DEF CutInKey, Wrote
<1>5. CASE CutInValue(c, o)
    BY <1>5 DEF CutInValue, Wrote
<1> QED
    BY <1>2, <1>3, <1>4, <1>5 DEF SetOutput

\* A call adds itself to the calls.
LEMMA CalledAppends ==
    ASSUME OutputsTyped, NEW s \in Settings, NEW logged \in BOOLEAN, Called(s, logged)
    PROVE  /\ calls' \in Seq([of : Settings, logged : BOOLEAN])
           /\ Len(calls) \in Nat /\ Len(calls') = Len(calls) + 1
           /\ \A i \in 1 .. Len(calls) : calls'[i] = calls[i]
           /\ calls'[Len(calls) + 1] = [of |-> s, logged |-> logged]
<1>1. calls \in Seq([of : Settings, logged : BOOLEAN])
    BY DEF OutputsTyped
<1>2. [of |-> s, logged |-> logged] \in [of : Settings, logged : BOOLEAN]
    OBVIOUS
<1>3. calls' = Append(calls, [of |-> s, logged |-> logged])
    BY DEF Called
<1>4. Len(calls) \in Nat
    BY <1>1, LenProperties
<1> QED
    BY <1>1, <1>2, <1>3, <1>4, AppendProperties

\* The next output is one of the workflow.
LEMMA NextOutputIs ==
    ASSUME OutputsTyped, NextOutput
    PROVE  /\ at.cube \in DOMAIN workflow
           /\ at.done + 1 \in DOMAIN workflow[at.cube].outputs
           /\ <<at.cube, at.done + 1>> \in Settings
           /\ SetOutput(at.cube, at.done + 1)
           /\ at' = [cube |-> at.cube, done |-> at.done + 1]
           /\ workflow' = workflow /\ failing' = failing /\ Settings' = Settings
<1>1. workflow \in Workflows /\ at \in [cube : 1 .. Len(workflow) + 1, done : Nat]
    BY DEF OutputsTyped
<1>2. /\ at.cube \in DOMAIN workflow
      /\ at.done < Len(workflow[at.cube].outputs)
      /\ SetOutput(at.cube, at.done + 1)
      /\ at' = [at EXCEPT !.done = @ + 1]
      /\ workflow' = workflow /\ failing' = failing
    BY DEF NextOutput
<1>3. /\ workflow[at.cube].outputs \in Seq(Seq(Characters))
      /\ DOMAIN workflow[at.cube].outputs = 1 .. Len(workflow[at.cube].outputs)
    BY <1>1, <1>2, NamesOfSettings
<1>4. Len(workflow[at.cube].outputs) \in Nat
    BY <1>3, LenProperties
<1>5. at.done \in Nat /\ at' = [cube |-> at.cube, done |-> at.done + 1]
    BY <1>1, <1>2
<1>6. at.done + 1 \in DOMAIN workflow[at.cube].outputs
    BY <1>2, <1>3, <1>4, <1>5
<1>7. <<at.cube, at.done + 1>> \in Settings
    BY <1>1, <1>2, <1>6, NamesOfSettings
<1>8. Settings' = Settings
    BY <1>2 DEF Settings
<1> QED
    BY <1>2, <1>5, <1>6, <1>7, <1>8

\* The first cube starts with an empty file.
LEMMA CubeInitTyped == CubeInit => OutputsTyped /\ OutputsOfRevision
<1> SUFFICES ASSUME CubeInit PROVE OutputsTyped /\ OutputsOfRevision
    OBVIOUS
<1>1. workflow \in Workflows /\ failing \in BOOLEAN
    BY ScenariosAssumption DEF CubeInit
<1>2. Len(workflow) \in Nat
    BY <1>1, NamesOfSettings
<1>3. file = <<>> /\ calls = <<>> /\ torn = "nowhere" /\ at = [cube |-> 1, done |-> 0]
    BY DEF CubeInit, OutputsInit
<1>4. at \in [cube : 1 .. Len(workflow) + 1, done : Nat]
    BY <1>2, <1>3
<1>5. file \in Seq(Lines) /\ calls \in Seq([of : Settings, logged : BOOLEAN])
    BY <1>3, EmptySeq
<1> QED
    BY <1>1, <1>3, <1>4, <1>5 DEF OutputsTyped, OutputsOfRevision

\* Setting an output keeps the types.
LEMMA NextOutputTyped ==
    ASSUME OutputsTyped, NextOutput
    PROVE  OutputsTyped'
<1> DEFINE c == at.cube
           o == at.done + 1
<1>1. /\ c \in DOMAIN workflow /\ o \in DOMAIN workflow[c].outputs
      /\ <<c, o>> \in Settings
      /\ SetOutput(c, o)
      /\ at' = [cube |-> c, done |-> o]
      /\ workflow' = workflow /\ failing' = failing /\ Settings' = Settings
    BY NextOutputIs
<1>2. /\ workflow \in Workflows /\ failing \in BOOLEAN
      /\ at \in [cube : 1 .. Len(workflow) + 1, done : Nat]
      /\ file \in Seq(Lines) /\ torn \in {"nowhere", "key", "value"}
      /\ torn # "nowhere" => file # <<>>
    BY DEF OutputsTyped
<1>3. at' \in [cube : 1 .. Len(workflow) + 1, done : Nat]
    BY <1>1, <1>2
<1> HIDE DEF c, o
<1>4. Lines' = Lines
    BY <1>1 DEF Lines
<1>5. Key(c, o) \in Seq(KeyCharacters)
    BY <1>1, <1>2, KeyType
<1>6. /\ [key |-> Key(c, o), value |-> <<c, o>>] \in Lines
      /\ \A key \in Seq(KeyCharacters) : [key |-> key, value |-> Nothing] \in Lines
      /\ \A v \in {Garbled, <<c, o>>} : [key |-> Key(c, o), value |-> v] \in Lines
    BY <1>1, <1>5 DEF Lines
<1>7. \E logged \in BOOLEAN : Called(<<c, o>>, logged)
    BY <1>1, SetOutputWrites DEF Wrote
<1>8. calls' \in Seq([of : Settings, logged : BOOLEAN])
    BY <1>1, <1>7, CalledAppends
<1>9. /\ file' \in Seq(Lines) /\ torn' \in {"nowhere", "key", "value"}
      /\ torn' # "nowhere" => file' # <<>>
  <2>1. \A line \in Lines : Appended(line) \in Seq(Lines) /\ Appended(line) # <<>>
      BY AppendedLines
  <2>2. \/ file' = file /\ torn' = torn
        \/ torn' \in {"nowhere", "key", "value"} /\ \E line \in Lines : file' = Appended(line)
    <3>1. \/ Wrote([key |-> Key(c, o), value |-> <<c, o>>], <<c, o>>, FALSE) /\ torn' = "nowhere"
          \/ Called(<<c, o>>, TRUE) /\ file' = file /\ torn' = torn
          \/ /\ \E key \in Seq(KeyCharacters) :
                   Wrote([key |-> key, value |-> Nothing], <<c, o>>, TRUE)
             /\ torn' = IF torn = "value" THEN "value" ELSE "key"
          \/ /\ \E v \in {Garbled, <<c, o>>} :
                   Wrote([key |-> Key(c, o), value |-> v], <<c, o>>, TRUE)
             /\ torn' = "value"
        BY <1>1, SetOutputWrites
    <3> HIDE DEF Lines
    <3> QED
        BY <1>6, <3>1 DEF Wrote
  <2> QED
      BY <1>2, <2>1, <2>2
<1> QED
    BY <1>1, <1>2, <1>3, <1>4, <1>8, <1>9 DEF OutputsTyped

LEMMA TypedStep ==
    ASSUME OutputsTyped, [CubeNext]_cubeVars
    PROVE  OutputsTyped'
<1>1. CASE UNCHANGED writing
  <2>1. Settings' = Settings /\ Lines' = Lines
      BY <1>1 DEF writing, Settings, Lines
  <2> QED
      BY <1>1, <2>1 DEF writing, OutputsTyped
<1>2. CASE NextCube
  <2>1. /\ at.cube \in DOMAIN workflow
        /\ at' = [cube |-> at.cube + 1, done |-> 0]
        /\ UNCHANGED <<workflow, failing, file, torn, calls>>
        /\ Settings' = Settings /\ Lines' = Lines
      BY <1>2 DEF NextCube, Settings, Lines
  <2>2. Len(workflow) \in Nat /\ at.cube \in 1 .. Len(workflow)
      BY <2>1, NamesOfSettings DEF OutputsTyped
  <2>3. at' \in [cube : 1 .. Len(workflow) + 1, done : Nat]
      BY <2>1, <2>2
  <2> QED
      BY <2>1, <2>3 DEF OutputsTyped
<1> QED
    BY <1>1, <1>2, NextOutputTyped DEF CubeNext, Action, SetOutputs, CubeEnds, cubeVars

(***************************************************************************)
(* The variables of the cube and of its outputs have their types, whatever *)
(* the width of its integers (CubeTypeOK).                                 *)
(***************************************************************************)
THEOREM CubeTypes == CubeSpec => []CubeTypeOK
<1>1. OutputsTyped => OutputsTypeOK
  <2> SUFFICES ASSUME OutputsTyped PROVE OutputsTypeOK
      OBVIOUS
  <2>1. DOMAIN file = 1 .. Len(file) /\ \A i \in 1 .. Len(file) : file[i] \in Lines
      BY LenProperties, ElementOfSeq DEF OutputsTyped
  <2> QED
      BY <2>1 DEF OutputsTyped, OutputsTypeOK, Lines, KeyCharacters
<1>2. ParsedSoFar => OptionsTypeOK
  <2> SUFFICES ASSUME ParsedSoFar PROVE OptionsTypeOK
      OBVIOUS
  <2>1. environ \in Environs /\ options \in Filled(environ)
      BY DEF ParsedSoFar
  <2>2. Destination \in {"group", "folder", Unset}
      BY <2>1, EnvironParts DEF Destination
  <2>3. revision # Unset => revision \in Filled(environ)
      BY <2>1, <2>2 DEF ParsedSoFar, RevisionMade, Filled
  <2>4. ASSUME NEW r \in Filled(environ)
        PROVE  /\ DOMAIN r = DOMAIN NoOptions
               /\ \A n \in Numbers \cup {"memory"} : r[n] \in Integer
               /\ r.provisioned \in Integer \cup {Unset}
               /\ r.secrets \in Seq(SecretLines)
               /\ r.level \in Levels \cup {Unset}
               /\ r.destination \in {"group", "folder", Unset}
               /\ r.mounts \in Seq(StorageMounts)
      BY DEF Filled, Numbers, NoOptions
  <2> QED
    <3>1. \A r \in {options} \cup ({revision} \ {Unset}) : r \in Filled(environ)
        BY <2>1, <2>3
    <3>2. parser \in Parsers \cup {"deploy", "sent", "failed"}
        BY DEF ParsedSoFar, Parsers
    <3> QED
        BY <2>4, <3>1, <3>2 DEF OptionsTypeOK
<1>3. CubeInit => OutputsTyped
    BY CubeInitTyped
<1> QED
    BY <1>1, <1>2, <1>3, TypedStep, ParsingInvariant, PTL DEF CubeSpec, CubeTypeOK

\* The outputs of the action follow its revision.
LEMMA OutputsOfRevisionStep ==
    ASSUME OutputsTyped, OutputsOfRevision, [CubeNext]_cubeVars
    PROVE  OutputsOfRevision'
<1>1. CASE calls' = calls /\ (parser = "sent" => parser' = "sent")
    BY <1>1 DEF OutputsOfRevision
<1>2. CASE SetOutputs
  <2> DEFINE s == <<at.cube, at.done + 1>>
  <2>1. /\ NextOutput /\ parser' = parser
        /\ at.cube = 1 => parser = "sent"
      BY <1>2 DEF SetOutputs, HasRevision, parsing
  <2>2. s \in Settings /\ \E logged \in BOOLEAN : Called(s, logged)
      BY <2>1, NextOutputIs, SetOutputWrites DEF Wrote
  <2>3. s[1] = at.cube
      OBVIOUS
  <2> HIDE DEF s
  <2>4. /\ Len(calls) \in Nat /\ DOMAIN calls' = 1 .. Len(calls) + 1
        /\ \A i \in 1 .. Len(calls) : calls'[i] = calls[i]
        /\ calls'[Len(calls) + 1].of = s
    <3>1. PICK logged \in BOOLEAN : Called(s, logged)
        BY <2>2
    <3>2. /\ calls' \in Seq([of : Settings, logged : BOOLEAN])
          /\ Len(calls) \in Nat /\ Len(calls') = Len(calls) + 1
          /\ \A i \in 1 .. Len(calls) : calls'[i] = calls[i]
          /\ calls'[Len(calls) + 1] = [of |-> s, logged |-> logged]
        BY <2>2, <3>1, CalledAppends
    <3>3. DOMAIN calls' = 1 .. Len(calls')
        BY <3>2, LenProperties
    <3> QED
        BY <3>2, <3>3
  <2>5. DOMAIN calls = 1 .. Len(calls)
      BY LenProperties DEF OutputsTyped
  <2> QED
      BY <2>1, <2>3, <2>4, <2>5 DEF OutputsOfRevision
<1> QED
    BY <1>1, <1>2
       DEF CubeNext, Action, CubeEnds, NextCube, ParseRevOptions, ParseImage, ParseNumbers,
           ParseMemory, ParseLockboxSecrets, ParseLogOptions, ParseStorageMounts, CreateRevision,
           Reach, cubeVars, parsing, writing

(***************************************************************************)
(* No revision is asked for, and no output of the action is set, unless    *)
(* every input was understood (RefusedUnlessUnderstood): no parser lets a  *)
(* bad line through, wherever in its list it is.                           *)
(***************************************************************************)
THEOREM NothingFromBadInputs == CubeSpec => []RefusedUnlessUnderstood
<1>1. ParsedSoFar /\ OutputsOfRevision => RefusedUnlessUnderstood
    BY ParsedIsUnderstood DEF RefusedUnlessUnderstood, OutputsOfRevision, ParsedSoFar, RevisionMade
<1>2. CubeInit => OutputsTyped /\ OutputsOfRevision
    BY CubeInitTyped
<1> QED
    BY <1>1, <1>2, TypedStep, OutputsOfRevisionStep, ParsingInvariant, PTL DEF CubeSpec

(***************************************************************************)
(* What a key says of its name.                                            *)
(***************************************************************************)
Big(a) == [i \in 1 .. Len(a) |-> Upper(a[i])]

KeyAt(s) == Key(s[1], s[2])
NameAt(s) == workflow[s[1]].name \o workflow[s[1]].outputs[s[2]]

Separators == {"-", "_"}
Alphabet == Letters \cup Capitals

LEMMA BigConcat ==
    ASSUME NEW T, NEW a \in Seq(T), NEW b \in Seq(T)
    PROVE  Big(a \o b) = Big(a) \o Big(b)
<1>1. /\ Len(a) \in Nat /\ Len(b) \in Nat
      /\ a \o b \in Seq(T) /\ Len(a \o b) = Len(a) + Len(b)
      /\ \A i \in 1 .. Len(a) + Len(b) :
            (a \o b)[i] = IF i <= Len(a) THEN a[i] ELSE b[i - Len(a)]
    BY ConcatProperties, LenProperties
<1> DEFINE U == {Upper(x) : x \in T}
<1>2. ASSUME NEW s \in Seq(T)
      PROVE  /\ Big(s) \in Seq(U) /\ Len(Big(s)) = Len(s)
             /\ \A i \in 1 .. Len(s) : Big(s)[i] = Upper(s[i])
  <2>1. Len(s) \in Nat /\ \A i \in 1 .. Len(s) : s[i] \in T
      BY LenProperties, ElementOfSeq
  <2>2. Big(s) \in [1 .. Len(s) -> U] /\ DOMAIN Big(s) = 1 .. Len(s)
      BY <2>1 DEF Big
  <2>3. \A i \in 1 .. Len(s) : Big(s)[i] = Upper(s[i])
      BY DEF Big
  <2> HIDE DEF U
  <2>4. Big(s) \in Seq(U)
      BY <2>1, <2>2, SeqDef
  <2>5. Len(Big(s)) = Len(s)
      BY <2>1, <2>2, <2>4, LenProperties
  <2> QED
      BY <2>3, <2>4, <2>5
<1> HIDE DEF U
<1>3. /\ Big(a) \in Seq(U) /\ Len(Big(a)) = Len(a)
      /\ Big(b) \in Seq(U) /\ Len(Big(b)) = Len(b)
      /\ Big(a \o b) \in Seq(U) /\ Len(Big(a \o b)) = Len(a) + Len(b)
    BY <1>1, <1>2
<1> DEFINE x == Big(a)
           y == Big(b)
           z == Big(a \o b)
<1>4. /\ \A i \in 1 .. Len(a) : x[i] = Upper(a[i])
      /\ \A i \in 1 .. Len(b) : y[i] = Upper(b[i])
      /\ \A i \in 1 .. Len(a) + Len(b) : z[i] = Upper((a \o b)[i])
    BY <1>1, <1>2
<1>5. x \in Seq(U) /\ y \in Seq(U) /\ z \in Seq(U) /\ Len(x) = Len(a) /\ Len(y) = Len(b)
      /\ Len(z) = Len(a) + Len(b)
    BY <1>3
<1> HIDE DEF x, y, z
<1>6. /\ x \o y \in Seq(U) /\ Len(x \o y) = Len(x) + Len(y)
      /\ \A i \in 1 .. Len(x) + Len(y) :
            (x \o y)[i] = IF i <= Len(x) THEN x[i] ELSE y[i - Len(x)]
  <2>1. \A S : \A u, v \in Seq(S) :
           /\ u \o v \in Seq(S) /\ Len(u \o v) = Len(u) + Len(v)
           /\ \A i \in 1 .. Len(u) + Len(v) :
                 (u \o v)[i] = IF i <= Len(u) THEN u[i] ELSE v[i - Len(u)]
      BY ConcatProperties
  <2>2. x \in Seq(U) /\ y \in Seq(U)
      BY <1>5
  <2> QED
      BY <2>1, <2>2
<1>7. ASSUME NEW i \in 1 .. Len(a) + Len(b)
      PROVE  z[i] = (x \o y)[i]
  <2>1. CASE i <= Len(a)
    <3>1. i \in 1 .. Len(a)
        BY <1>1, <2>1
    <3> QED
        BY <1>1, <1>4, <1>5, <1>6, <2>1, <3>1
  <2>2. CASE ~(i <= Len(a))
    <3>1. i - Len(a) \in 1 .. Len(b)
        BY <1>1, <2>2
    <3> QED
        BY SMTT(60), <1>1, <1>4, <1>5, <1>6, <2>2, <3>1
  <2> QED
      BY <2>1, <2>2
<1>8. z = x \o y
    BY <1>5, <1>6, <1>7, SeqEqual
<1> QED
    BY <1>8 DEF x, y, z

\* What a single character leaves in a key.
LEMMA BigOfOne ==
    ASSUME NEW c \in Characters
    PROVE  /\ Kept(InKey(c), {"_"}) = Big(Kept(c, Separators))
           /\ Kept(c, Separators) \in Seq(Characters)
<1>1. Big(<<>>) = <<>>
    BY DEF Big
<1>4. Kept(c, Separators) \in Seq(Characters)
    BY DEF Kept
<1>2. CASE c \in Separators
  <2>1. InKey(c) = "_"
      BY <1>2, CapitalAssumption DEF InKey, Upper, Separators
  <2> QED
      BY <1>1, <1>2, <1>4, <2>1 DEF Kept
<1>3. CASE c \notin Separators
  <2>1. InKey(c) = Upper(c) /\ Upper(c) \in Capitals
      BY <1>3 DEF InKey, Upper, Separators, Characters, Capitals
  <2>2. Upper(c) # "_"
      BY <2>1, CapitalAssumption
  <2>3. Big(<<c>>) = <<Upper(c)>>
    <3> DEFINE s == <<c>>
    <3>1. Len(s) = 1 /\ s[1] = c
        OBVIOUS
    <3> HIDE DEF s
    <3>2. Big(s) = [i \in 1 .. 1 |-> Upper(c)]
        BY <3>1 DEF Big
    <3>3. [i \in 1 .. 1 |-> Upper(c)] = <<Upper(c)>>
        OBVIOUS
    <3> QED
        BY <3>2, <3>3 DEF s
  <2> QED
      BY <1>3, <1>4, <2>1, <2>2, <2>3 DEF Kept
<1> QED
    BY <1>2, <1>3

\* Without its underscores a name in a key is the name in capitals without
\* what separates its words.
LEMMA KeyOfName ==
    ASSUME NEW name \in Seq(Characters)
    PROVE  Without(UpperSnakeCase(name), {"_"}) = Big(Without(name, Separators))
<1> DEFINE n == Len(name)
           D == {"_"}
<1>1. n \in Nat /\ \A i \in 1 .. n : name[i] \in Characters
    BY LenProperties, ElementOfSeq
<1>2. PICK p \in Seq(Seq(KeyCharacters)) :
         /\ Len(p) = n
         /\ UpperSnakeCase(name) = FlattenSeq(p)
         /\ \A i \in 1 .. n :
               /\ InKey(name[i]) \in KeyCharacters
               /\ p[i] \in {<<InKey(name[i])>>, <<"_", InKey(name[i])>>}
    BY SnakePieces
<1>3. PICK g : /\ g \in [0 .. n -> Seq(KeyCharacters)]
               /\ g[0] = <<>>
               /\ \A i \in 0 .. n - 1 : g[i + 1] = g[i] \o p[i + 1]
               /\ UpperSnakeCase(name) = g[n]
  <2>1. PICK g : /\ g \in [0 .. Len(p) -> Seq(KeyCharacters)]
                 /\ g[0] = <<>>
                 /\ \A i \in 0 .. Len(p) - 1 : g[i + 1] = g[i] \o p[i + 1]
                 /\ FlattenSeq(p) = g[Len(p)]
      BY FlattenSteps
  <2> QED
      BY <1>2, <2>1
<1>4. PICK h : /\ h \in [0 .. n -> Seq(Characters)]
               /\ h[0] = <<>>
               /\ \A i \in 0 .. n - 1 : h[i + 1] = h[i] \o Kept(name[i + 1], Separators)
               /\ Without(name, Separators) = h[n]
    BY ZenonT(60), WithoutSteps
<1> HIDE DEF n
<1> DEFINE S == {k \in Nat : k \in 0 .. n => Without(g[k], D) = Big(h[k])}
<1>5. "_" \in KeyCharacters /\ "_" \in D
    BY DEF KeyCharacters
<1> HIDE DEF D
<1>10. \A a, b \in Seq(KeyCharacters) : Without(a \o b, D) = Without(a, D) \o Without(b, D)
    BY WithoutConcat
<1>6. 0 \in S
  <2>1. Without(<<>>, D) = <<>>
      BY <1>5, WithoutShort
  <2>2. Big(<<>>) = <<>>
      BY DEF Big
  <2> QED
      BY <1>3, <1>4, <2>1, <2>2
<1>7. ASSUME NEW k \in Nat, k \in S
      PROVE  k + 1 \in S
  <2> SUFFICES ASSUME k + 1 \in 0 .. n
               PROVE  Without(g[k + 1], D) = Big(h[k + 1])
      OBVIOUS
  <2>1. k \in 0 .. n - 1 /\ k \in 0 .. n /\ k + 1 \in 1 .. n
      BY <1>1
  <2>2. Without(g[k], D) = Big(h[k])
      BY <1>7, <2>1
  <2> HIDE DEF S
  <2> DEFINE c == name[k + 1]
             q == p[k + 1]
             z == Kept(c, Separators)
  <2>3. /\ g[k] \in Seq(KeyCharacters) /\ g[k + 1] = g[k] \o q
        /\ h[k] \in Seq(Characters) /\ h[k + 1] = h[k] \o z
      BY <1>3, <1>4, <2>1
  <2>4. /\ c \in Characters /\ InKey(c) \in KeyCharacters
        /\ q \in {<<InKey(c)>>, <<"_", InKey(c)>>}
      BY <1>1, <1>2, <2>1
  <2> HIDE DEF c, q
  <2>5. q \in Seq(KeyCharacters)
    <3>1. /\ <<InKey(c)>> \in Seq(KeyCharacters)
          /\ <<"_", InKey(c)>> \in Seq(KeyCharacters)
        BY <1>5, <2>4, ShortSequences
    <3> QED
        BY <2>4, <3>1
  <2>6. Without(q, D) = Kept(InKey(c), D)
    <3>1. /\ Without(<<InKey(c)>>, D) = Kept(InKey(c), D)
          /\ Without(<<"_", InKey(c)>>, D) = Kept(InKey(c), D)
        BY <1>5, <2>4, WithoutShort
    <3> QED
        BY <2>4, <3>1
  <2>7. Kept(InKey(c), D) = Big(z) /\ z \in Seq(Characters)
      BY <2>4, BigOfOne DEF D
  <2> HIDE DEF z
  <2>8. Without(g[k] \o q, D) = Without(g[k], D) \o Without(q, D)
      BY <1>10, <2>3, <2>5
  <2>9. Big(h[k] \o z) = Big(h[k]) \o Big(z)
      BY <2>3, <2>7, BigConcat
  <2> QED
      BY <2>2, <2>3, <2>6, <2>7, <2>8, <2>9
<1>8. \A k \in Nat : k \in S
  <2> HIDE DEF S
  <2> QED
      BY <1>6, <1>7, NatSetInduction
<1>9. Without(g[n], D) = Big(h[n])
  <2>1. n \in S /\ n \in 0 .. n
      BY <1>1, <1>8
  <2> QED
      BY <2>1
<1> QED
    BY <1>3, <1>4, <1>9 DEF D

LEMMA KeyOfSetting ==
    ASSUME workflow \in Workflows, NEW s \in Settings
    PROVE  /\ NameAt(s) \in Seq(Characters)
           /\ Without(KeyAt(s), {"_"}) = Big(Without(NameAt(s), Separators))
<1>0. \A a, b \in Seq(KeyCharacters) :
         Without(a \o b, {"_"}) = Without(a, {"_"}) \o Without(b, {"_"})
  <2> DEFINE D == {"_"}
  <2> HIDE DEF D
  <2>1. \A a, b \in Seq(KeyCharacters) : Without(a \o b, D) = Without(a, D) \o Without(b, D)
      BY WithoutConcat
  <2> QED
      BY <2>1 DEF D
<1>14. \A a, b \in Seq(Characters) :
          Without(a \o b, Separators) = Without(a, Separators) \o Without(b, Separators)
    BY WithoutConcat
<1>15. \A a, b \in Seq(Characters) : Big(a \o b) = Big(a) \o Big(b)
    BY BigConcat
<1>16. \A a, b \in Seq(Characters) : a \o b \in Seq(Characters)
    BY ConcatProperties
<1>17. <<"_">> \in Seq(KeyCharacters) /\ Without(<<"_">>, {"_"}) = <<>>
  <2>1. "_" \in KeyCharacters
      BY DEF KeyCharacters
  <2>2. <<"_">> \in Seq(KeyCharacters)
      BY <2>1, ShortSequences
  <2>3. Without(<<"_">>, {"_"}) = Kept("_", {"_"})
    <3>1. "_" \in {"_"}
        OBVIOUS
    <3> QED
        BY <2>1, <3>1, WithoutShort
  <2> QED
      BY <2>2, <2>3 DEF Kept
<1>1. PICK c \in DOMAIN workflow : s \in {c} \X DOMAIN workflow[c].outputs
    BY DEF Settings
<1>13. PICK o \in DOMAIN workflow[c].outputs : s = <<c, o>>
    BY <1>1
<1> DEFINE n == workflow[c].name
           m == workflow[c].outputs[o]
<1>2. n \in Seq(Characters) /\ m \in Seq(Characters)
    BY NamesOfSettings
<1>3. NameAt(s) = n \o m /\ KeyAt(s) = (UpperSnakeCase(n) \o <<"_">>) \o UpperSnakeCase(m)
    BY <1>13 DEF NameAt, KeyAt, Key
<1> HIDE DEF n, m
<1> DEFINE u == UpperSnakeCase(n)
           v == UpperSnakeCase(m)
           w == <<"_">>
<1>4. /\ u \in Seq(KeyCharacters) /\ Without(u, {"_"}) = Big(Without(n, Separators))
      /\ v \in Seq(KeyCharacters) /\ Without(v, {"_"}) = Big(Without(m, Separators))
    BY <1>2, UpperSnakeCaseType, KeyOfName
<1>5. w \in Seq(KeyCharacters) /\ Without(w, {"_"}) = <<>>
    BY <1>17
<1> HIDE DEF u, v, w
<1>6. u \o w \in Seq(KeyCharacters)
    BY <1>4, <1>5, ConcatProperties
<1>7. Without((u \o w) \o v, {"_"}) = (Without(u, {"_"}) \o <<>>) \o Without(v, {"_"})
  <2>1. Without((u \o w) \o v, {"_"}) = Without(u \o w, {"_"}) \o Without(v, {"_"})
      BY <1>0, <1>4, <1>6
  <2>2. Without(u \o w, {"_"}) = Without(u, {"_"}) \o Without(w, {"_"})
      BY <1>0, <1>4, <1>5
  <2> QED
      BY <1>5, <2>1, <2>2
<1>8. Without(u, {"_"}) \o <<>> = Without(u, {"_"})
  <2>1. Without(u, {"_"}) \in Seq(KeyCharacters)
      BY <1>4, WithoutRange
  <2> QED
      BY <2>1, ConcatEmptySeq
<1>9. /\ Without(n, Separators) \in Seq(Characters)
      /\ Without(m, Separators) \in Seq(Characters)
    BY <1>2, WithoutRange
<1>10. Big(Without(n \o m, Separators)) = Big(Without(n, Separators)) \o Big(Without(m, Separators))
  <2>1. Without(n \o m, Separators) = Without(n, Separators) \o Without(m, Separators)
      BY <1>2, <1>14
  <2> QED
      BY <1>9, <1>15, <2>1
<1>11. n \o m \in Seq(Characters)
    BY <1>2, <1>16
<1>12. KeyAt(s) = (u \o w) \o v
    BY <1>3 DEF u, v, w
<1> QED
    BY <1>3, <1>4, <1>7, <1>8, <1>10, <1>11, <1>12

LEMMA SameInterval ==
    ASSUME NEW m \in Nat, NEW n \in Nat, 1 .. m = 1 .. n
    PROVE  m = n
<1>1. \A i \in Nat : i \in 1 .. m <=> i \in 1 .. n
    OBVIOUS
<1>2. m # 0 => m \in 1 .. n
    BY <1>1
<1>3. n # 0 => n \in 1 .. m
    BY <1>1
<1> QED
    BY <1>2, <1>3

\* The letter is the only one with its capital.
LEMMA LetterOf ==
    ASSUME NEW c \in Alphabet, NEW x \in Letters
    PROVE  c \in {x, Capital[x]} <=> Capital[x] = Upper(c)
<1>1. CASE c \in Letters
    BY <1>1, CapitalAssumption DEF Upper, Capitals
<1>2. CASE c \notin Letters
    BY <1>2 DEF Upper
<1> QED
    BY <1>1, <1>2

\* Outputs with the same key have the same letters.
LEMMA SameKey ==
    ASSUME workflow \in Workflows, NEW s \in Settings, NEW t \in Settings, KeyAt(s) = KeyAt(t)
    PROVE  Squashed(s) = Squashed(t)
<1> DEFINE a == Without(NameAt(s), Separators)
           b == Without(NameAt(t), Separators)
           L(c) == CHOOSE x \in Letters : c \in {x, Capital[x]}
<1>1. Big(a) = Big(b) /\ NameAt(s) \in Seq(Characters) /\ NameAt(t) \in Seq(Characters)
    BY KeyOfSetting
<1>2. ASSUME NEW n \in Seq(Characters)
      PROVE  /\ Without(n, Separators) \in Seq(Characters)
             /\ \A i \in 1 .. Len(Without(n, Separators)) : Without(n, Separators)[i] \in Alphabet
  <2> DEFINE d == Without(n, Separators)
  <2>1. d \in Seq(Characters) /\ ToSet(d) = ToSet(n) \ Separators
      BY WithoutRange
  <2> HIDE DEF d
  <2>2. \A i \in 1 .. Len(d) : d[i] \in ToSet(d) /\ d[i] \in Characters
      BY <2>1, ElementOfSeq, LenProperties DEF ToSet
  <2>3. \A i \in 1 .. Len(d) : d[i] \in Alphabet
      BY <2>1, <2>2 DEF Characters, Separators, Alphabet
  <2> QED
      BY <2>1, <2>3 DEF d
<1>3. /\ a \in Seq(Characters) /\ \A i \in 1 .. Len(a) : a[i] \in Alphabet
      /\ b \in Seq(Characters) /\ \A i \in 1 .. Len(b) : b[i] \in Alphabet
    BY <1>1, <1>2
<1>4. Squashed(s) = [i \in DOMAIN a |-> L(a[i])] /\ Squashed(t) = [i \in DOMAIN b |-> L(b[i])]
    BY DEF Squashed, NameAt, Separators
<1> HIDE DEF a, b
<1>5. Len(a) \in Nat /\ DOMAIN a = 1 .. Len(a) /\ Len(b) \in Nat /\ DOMAIN b = 1 .. Len(b)
    BY <1>3, LenProperties
<1>6. Len(a) = Len(b) /\ \A i \in 1 .. Len(a) : Upper(a[i]) = Upper(b[i])
  <2>1. DOMAIN Big(a) = 1 .. Len(a) /\ DOMAIN Big(b) = 1 .. Len(b)
      BY DEF Big
  <2>2. 1 .. Len(a) = 1 .. Len(b)
      BY <1>1, <2>1
  <2>3. Len(a) = Len(b)
      BY <1>5, <2>2, SameInterval
  <2>4. ASSUME NEW i \in 1 .. Len(a)
        PROVE  Upper(a[i]) = Upper(b[i])
    <3>1. Big(a)[i] = Upper(a[i])
        BY DEF Big
    <3>2. Big(b)[i] = Upper(b[i])
        BY <2>3 DEF Big
    <3> QED
        BY <1>1, <3>1, <3>2
  <2> QED
      BY <2>3, <2>4
<1>7. ASSUME NEW i \in 1 .. Len(a)
      PROVE  L(a[i]) = L(b[i])
  <2>1. a[i] \in Alphabet /\ b[i] \in Alphabet /\ Upper(a[i]) = Upper(b[i])
      BY <1>3, <1>6
  <2>2. \A x \in Letters : a[i] \in {x, Capital[x]} <=> b[i] \in {x, Capital[x]}
      BY <2>1, LetterOf
  <2> QED
      BY <2>2
<1> QED
    BY <1>4, <1>5, <1>6, <1>7

(***************************************************************************)
(* What is read of the outputs.                                            *)
(***************************************************************************)
\* The calls are of different outputs, those before the next one.
Before(s) == s[1] < at.cube \/ (s[1] = at.cube /\ s[2] <= at.done)

CallsInOrder ==
    /\ \A i \in DOMAIN calls : Before(calls[i].of)
    /\ torn # "nowhere" => calls # <<>> /\ calls[Len(calls)].logged

\* A value stands under its own key or went on with one that broke off.
ValuesPlaced ==
    \A i \in DOMAIN file :
       \/ file[i].value \in {Nothing, Garbled}
       \/ file[i].value \in Settings /\ file[i].key = KeyAt(file[i].value)
       \/ \E j \in Continued : file[i].value = calls[j].of

\* An output whose call went well has its line, and no later line with its
\* key, as long as no call had to go on with a line.
Stands(s) ==
    \E p \in DOMAIN file :
       /\ file[p] = [key |-> KeyAt(s), value |-> s]
       /\ \A q \in DOMAIN file : q > p => file[q].value = Nothing \/ file[q].key # KeyAt(s)

LinesStand ==
    Unambiguous =>
       \A i \in DOMAIN calls :
          ~calls[i].logged /\ i .. Len(calls) \cap Continued = {} => Stands(calls[i].of)

ReadInv == CallsInOrder /\ ValuesPlaced /\ LinesStand

\* Settings are pairs of numbers.
LEMMA SettingsAreNumbers ==
    ASSUME workflow \in Workflows, NEW s \in Settings
    PROVE  s \in Nat \X Nat
<1>1. PICK c \in DOMAIN workflow : s \in {c} \X DOMAIN workflow[c].outputs
    BY DEF Settings
<1>2. /\ c \in Nat
      /\ DOMAIN workflow[c].outputs = 1 .. Len(workflow[c].outputs)
    BY NamesOfSettings
<1> QED
    BY <1>1, <1>2

LEMMA ReadStart == CubeInit => ReadInv
<1> SUFFICES ASSUME CubeInit
             PROVE  ReadInv
    OBVIOUS
<1>1. DOMAIN calls = {} /\ DOMAIN file = {} /\ torn = "nowhere"
    BY DEF CubeInit, OutputsInit
<1> QED
    BY <1>1 DEF ReadInv, CallsInOrder, ValuesPlaced, LinesStand

\* What a call comes to: the line it writes, if any, and what is logged.
Writes(line, s, logged) ==
    \/ ~logged /\ line = [key |-> KeyAt(s), value |-> s]
    \/ logged /\ line.value = Nothing
    \/ logged /\ line.key = KeyAt(s) /\ line.value \in {Garbled, s}

LEMMA CallDoes ==
    ASSUME OutputsTyped, NextOutput,
           NEW s, s = <<at.cube, at.done + 1>>
    PROVE  \E logged \in BOOLEAN :
              /\ Called(s, logged)
              /\ torn' # "nowhere" => logged
              /\ \/ logged /\ file' = file
                 \/ \E line \in Lines : file' = Appended(line) /\ Writes(line, s, logged)
<1> DEFINE c == at.cube
           o == at.done + 1
<1>1. /\ c \in DOMAIN workflow /\ o \in DOMAIN workflow[c].outputs
      /\ s = <<c, o>> /\ s \in Settings
      /\ SetOutput(c, o)
    BY NextOutputIs
<1> HIDE DEF c, o
<1>2. KeyAt(s) = Key(c, o) /\ Key(c, o) \in Seq(KeyCharacters)
    BY <1>1, KeyType DEF KeyAt, OutputsTyped
<1>3. /\ [key |-> Key(c, o), value |-> s] \in Lines
      /\ \A key \in Seq(KeyCharacters) : [key |-> key, value |-> Nothing] \in Lines
      /\ \A v \in {Garbled, s} : [key |-> Key(c, o), value |-> v] \in Lines
    BY <1>1, <1>2 DEF Lines
<1>4. \/ Wrote([key |-> Key(c, o), value |-> s], s, FALSE) /\ torn' = "nowhere"
      \/ Called(s, TRUE) /\ file' = file /\ torn' = torn
      \/ \E key \in Seq(KeyCharacters) : Wrote([key |-> key, value |-> Nothing], s, TRUE)
      \/ \E v \in {Garbled, s} : Wrote([key |-> Key(c, o), value |-> v], s, TRUE)
    BY <1>1, SetOutputWrites
<1>5. CASE Wrote([key |-> Key(c, o), value |-> s], s, FALSE) /\ torn' = "nowhere"
  <2>1. Writes([key |-> Key(c, o), value |-> s], s, FALSE)
      BY <1>2 DEF Writes
  <2> QED
      BY <1>3, <1>5, <2>1 DEF Wrote
<1>6. CASE Called(s, TRUE) /\ file' = file
    BY <1>6
<1>7. CASE \E key \in Seq(KeyCharacters) : Wrote([key |-> key, value |-> Nothing], s, TRUE)
  <2>1. PICK key \in Seq(KeyCharacters) : Wrote([key |-> key, value |-> Nothing], s, TRUE)
      BY <1>7
  <2>2. Writes([key |-> key, value |-> Nothing], s, TRUE)
      BY DEF Writes
  <2> QED
      BY <1>3, <2>1, <2>2 DEF Wrote
<1>8. CASE \E v \in {Garbled, s} : Wrote([key |-> Key(c, o), value |-> v], s, TRUE)
  <2>1. PICK v \in {Garbled, s} : Wrote([key |-> Key(c, o), value |-> v], s, TRUE)
      BY <1>8
  <2>2. Writes([key |-> Key(c, o), value |-> v], s, TRUE)
      BY <1>2 DEF Writes
  <2> QED
      BY <1>3, <2>1, <2>2 DEF Wrote
<1> QED
    BY <1>4, <1>5, <1>6, <1>7, <1>8

LEMMA ReadNextOutput ==
    ASSUME OutputsTyped, ReadInv, NextOutput
    PROVE  ReadInv'
<1> DEFINE s == <<at.cube, at.done + 1>>
           n == Len(calls) + 1
<1>0. CallsInOrder /\ ValuesPlaced /\ LinesStand
    BY DEF ReadInv
<1>1. /\ s \in Settings /\ workflow' = workflow /\ Settings' = Settings
      /\ at' = [cube |-> at.cube, done |-> at.done + 1]
    BY NextOutputIs
<1>2. /\ workflow \in Workflows /\ at \in [cube : 1 .. Len(workflow) + 1, done : Nat]
      /\ Len(workflow) \in Nat
      /\ file \in Seq(Lines) /\ calls \in Seq([of : Settings, logged : BOOLEAN])
      /\ torn \in {"nowhere", "key", "value"}
    BY NamesOfSettings DEF OutputsTyped
<1>3. PICK logged \in BOOLEAN :
         /\ Called(s, logged)
         /\ torn' # "nowhere" => logged
         /\ \/ logged /\ file' = file
            \/ \E line \in Lines : file' = Appended(line) /\ Writes(line, s, logged)
    BY CallDoes
<1>4. /\ calls' \in Seq([of : Settings, logged : BOOLEAN])
      /\ Len(calls) \in Nat /\ Len(calls') = n
      /\ \A i \in 1 .. Len(calls) : calls'[i] = calls[i]
      /\ calls'[n] = [of |-> s, logged |-> logged]
    BY <1>1, <1>3, CalledAppends
<1>5. /\ DOMAIN calls = 1 .. Len(calls) /\ DOMAIN calls' = 1 .. n
      /\ \A i \in DOMAIN calls : calls[i].of \in Settings
  <2>1. \A i \in 1 .. Len(calls) : calls[i] \in [of : Settings, logged : BOOLEAN]
      BY <1>2, ElementOfSeq
  <2>2. DOMAIN calls = 1 .. Len(calls) /\ DOMAIN calls' = 1 .. Len(calls')
      BY <1>2, <1>4, LenProperties
  <2> QED
      BY <1>4, <2>1, <2>2
<1>6. /\ calls'[n].of = s /\ calls'[n].logged = logged /\ n \in Nat /\ n \in DOMAIN calls'
      /\ \A i \in DOMAIN calls' : i # n => i \in DOMAIN calls /\ calls'[i] = calls[i]
      /\ \A i \in DOMAIN calls : i \in DOMAIN calls' /\ i # n /\ i < n /\ calls'[i] = calls[i]
    BY <1>4, <1>5
<1>7. DOMAIN file = 1 .. Len(file) /\ Len(file) \in Nat /\ \A i \in DOMAIN file : file[i] \in Lines
    BY <1>2, LenProperties, ElementOfSeq
<1>8. /\ \A j \in Continued : j \in Continued' /\ calls'[j] = calls[j]
      /\ torn # "nowhere" => n \in Continued'
  <2>1. ASSUME NEW j \in Continued
        PROVE  j \in Continued' /\ calls'[j] = calls[j]
    <3>1. j \in DOMAIN calls /\ j > 1 /\ calls[j - 1].logged
        BY DEF Continued
    <3>2. j - 1 \in 1 .. Len(calls)
        BY <1>4, <1>5, <3>1
    <3>3. calls'[j - 1] = calls[j - 1]
        BY <1>4, <3>2
    <3> QED
        BY <1>6, <3>1, <3>3 DEF Continued
  <2>2. ASSUME torn # "nowhere"
        PROVE  n \in Continued'
    <3>1. calls # <<>> /\ calls[Len(calls)].logged
        BY <1>0, <2>2 DEF CallsInOrder
    <3>2. Len(calls) # 0
        BY <1>2, <3>1, EmptySeq
    <3>3. Len(calls) \in 1 .. Len(calls) /\ n > 1 /\ n - 1 = Len(calls)
        BY <1>4, <3>2
    <3>4. calls'[n - 1].logged
        BY <1>4, <3>1, <3>3
    <3> HIDE DEF n
    <3> QED
        BY <1>6, <3>3, <3>4 DEF Continued
  <2> QED
      BY <2>1, <2>2
<1>9. \A x : KeyAt(x)' = KeyAt(x)
    BY <1>1 DEF KeyAt, Key
<1>10. Unambiguous' = Unambiguous
    BY <1>1 DEF Unambiguous, Squashed
<1>11. CallsInOrder'
  <2>1. ASSUME NEW i \in DOMAIN calls'
        PROVE  \/ calls'[i].of[1] < at'.cube
               \/ calls'[i].of[1] = at'.cube /\ calls'[i].of[2] <= at'.done
    <3>1. CASE i = n
      <4>1. calls'[i].of = <<at.cube, at.done + 1>>
          BY <1>6, <3>1
      <4>2. calls'[i].of[1] = at'.cube /\ calls'[i].of[2] = at'.done /\ at'.done \in Nat
          BY <1>1, <1>2, <4>1
      <4> QED
          BY <4>2
    <3>2. CASE i # n
      <4>1. i \in DOMAIN calls /\ calls'[i] = calls[i]
          BY <1>6, <3>2
      <4>2. Before(calls[i].of) /\ calls[i].of \in Nat \X Nat
          BY <1>0, <1>2, <1>5, <4>1, SettingsAreNumbers DEF CallsInOrder
      <4>3. at'.cube = at.cube /\ at'.done = at.done + 1 /\ at.done \in Nat
          BY <1>1, <1>2
      <4>4. calls[i].of[2] \in Nat
          BY <4>2
      <4> QED
          BY <4>1, <4>2, <4>3, <4>4 DEF Before
    <3> QED
        BY <3>1, <3>2
  <2>2. torn' # "nowhere" => calls' # <<>> /\ calls'[Len(calls')].logged
    <3>1. calls' # <<>>
        BY <1>4, <1>5, <1>6, EmptySeq
    <3> QED
        BY <1>3, <1>4, <1>6, <3>1
  <2> QED
      BY <2>1, <2>2 DEF CallsInOrder, Before
<1> HIDE DEF s, n
\* A line that was there stays as it is, but for the last one if it is torn.
<1>12. ValuesPlaced'
  <2> SUFFICES ASSUME NEW i \in DOMAIN file'
               PROVE  \/ file'[i].value \in {Nothing, Garbled}
                      \/ file'[i].value \in Settings /\ file'[i].key = KeyAt(file'[i].value)
                      \/ \E j \in Continued' : file'[i].value = calls'[j].of
      BY <1>1 DEF ValuesPlaced, KeyAt, Key
  <2>1. CASE i \in DOMAIN file /\ file'[i] = file[i]
    <3>1. \/ file[i].value \in {Nothing, Garbled}
          \/ file[i].value \in Settings /\ file[i].key = KeyAt(file[i].value)
          \/ \E j \in Continued : file[i].value = calls[j].of
        BY <1>0, <2>1 DEF ValuesPlaced
    <3> QED
        BY <1>8, <2>1, <3>1
  <2>2. CASE ~(i \in DOMAIN file /\ file'[i] = file[i])
    <3>1. PICK line \in Lines : file' = Appended(line) /\ Writes(line, s, logged)
        BY <1>3, <2>2
    <3>2. /\ Appended(line) \in Seq(Lines)
          /\ torn = "nowhere" =>
                /\ Len(Appended(line)) = Len(file) + 1
                /\ Appended(line)[Len(file) + 1] = line
                /\ \A k \in 1 .. Len(file) : Appended(line)[k] = file[k]
          /\ torn # "nowhere" =>
                /\ Len(file) \in Nat \ {0}
                /\ Len(Appended(line)) = Len(file)
                /\ \A k \in 1 .. Len(file) - 1 : Appended(line)[k] = file[k]
          /\ torn = "key" =>
                Appended(line)[Len(file)] =
                   [key |-> file[Len(file)].key \o line.key, value |-> line.value]
          /\ torn = "value" =>
                Appended(line)[Len(file)] = [key |-> file[Len(file)].key, value |-> Garbled]
        BY AppendedLines
    <3>3. DOMAIN file' = 1 .. Len(Appended(line))
        BY <3>1, <3>2, LenProperties
    <3>4. \/ line.value \in {Nothing, Garbled}
          \/ line.value = s /\ line.key = KeyAt(s)
        BY <3>1 DEF Writes
    <3>5. CASE torn = "nowhere"
      <4>1. i = Len(file) + 1
          BY <1>7, <2>2, <3>1, <3>2, <3>3, <3>5
      <4>2. file'[i] = line
          BY <3>1, <3>2, <3>5, <4>1
      <4> QED
          BY <1>1, <3>4, <4>2
    <3>6. CASE torn # "nowhere"
      <4>1. i = Len(file)
        <5>1. i \in 1 .. Len(file)
            BY <3>1, <3>2, <3>3, <3>6
        <5>2. i # Len(file) => i \in 1 .. Len(file) - 1
            BY <1>7, <5>1
        <5>3. i # Len(file) => file'[i] = file[i]
            BY <3>1, <3>2, <3>6, <5>2
        <5> QED
            BY <1>7, <2>2, <5>1, <5>3
      <4>2. file'[i].value \in {Garbled, line.value}
        <5>1. CASE torn = "key"
          <6>1. file'[i] = [key |-> file[Len(file)].key \o line.key, value |-> line.value]
              BY <3>1, <3>2, <4>1, <5>1
          <6> QED
              BY <6>1
        <5>2. CASE torn = "value"
          <6>1. file'[i] = [key |-> file[Len(file)].key, value |-> Garbled]
              BY <3>1, <3>2, <4>1, <5>2
          <6> QED
              BY <6>1
        <5> QED
            BY <1>2, <3>6, <5>1, <5>2
      <4>3. n \in Continued' /\ calls'[n].of = s
          BY <1>6, <1>8, <3>6
      <4> QED
          BY <3>4, <4>2, <4>3
    <3> QED
        BY <3>5, <3>6
  <2> QED
      BY <2>1, <2>2
<1>13. LinesStand'
  <2> SUFFICES ASSUME Unambiguous, NEW i \in DOMAIN calls', ~calls'[i].logged,
                      i .. Len(calls') \cap Continued' = {}
               PROVE  \E p \in DOMAIN file' :
                         /\ file'[p] = [key |-> KeyAt(calls'[i].of), value |-> calls'[i].of]
                         /\ \A q \in DOMAIN file' : q > p =>
                               file'[q].value = Nothing \/ file'[q].key # KeyAt(calls'[i].of)
      BY <1>1, <1>10 DEF LinesStand, Stands, KeyAt, Key
  <2>1. i \in Nat /\ i <= n /\ i \in i .. n /\ n \in i .. n
      BY <1>4, <1>5, <1>6 DEF n
  <2>2. torn = "nowhere"
      BY <1>4, <1>8, <2>1
  <2>3. CASE i = n
    <3>1. ~logged /\ calls'[i].of = s
        BY <1>6, <2>3
    <3>2. PICK line \in Lines : file' = Appended(line) /\ Writes(line, s, logged)
        BY <1>3, <3>1
    <3>3. line = [key |-> KeyAt(s), value |-> s]
        BY <3>1, <3>2 DEF Writes
    <3>4. /\ file' \in Seq(Lines) /\ Len(file') = Len(file) + 1 /\ file'[Len(file) + 1] = line
        BY <2>2, <3>2, AppendedLines
    <3>5. DOMAIN file' = 1 .. Len(file) + 1
        BY <3>4, LenProperties
    <3>6. /\ Len(file) + 1 \in DOMAIN file'
          /\ \A q \in DOMAIN file' : ~(q > Len(file) + 1)
        BY <1>7, <3>5
    <3> QED
        BY <3>1, <3>3, <3>4, <3>6
  <2>4. CASE i # n
    <3>1. i \in DOMAIN calls /\ calls'[i] = calls[i] /\ i < n
        BY <1>6, <2>4
    <3> DEFINE t == calls[i].of
    <3>2. t \in Settings /\ Before(t)
        BY <1>0, <1>5, <3>1 DEF CallsInOrder
    <3>3. i .. Len(calls) \cap Continued = {}
      <4>1. \A j \in i .. Len(calls) : j \in i .. Len(calls')
          BY <1>4, <2>1 DEF n
      <4> QED
          BY <1>8, <4>1
    <3>4. PICK p \in DOMAIN file :
             /\ file[p] = [key |-> KeyAt(t), value |-> t]
             /\ \A q \in DOMAIN file : q > p => file[q].value = Nothing \/ file[q].key # KeyAt(t)
        BY <1>0, <3>1, <3>3 DEF LinesStand, Stands
    <3>5. KeyAt(s) # KeyAt(t)
      <4>1. s # t
        <5>1. t \in Nat \X Nat /\ at.done \in Nat /\ at.cube \in Nat
            BY <1>2, <3>2, SettingsAreNumbers
        <5>2. t[1] \in Nat /\ t[2] \in Nat
            BY <5>1
        <5>3. t[1] < at.cube \/ (t[1] = at.cube /\ t[2] <= at.done)
            BY <3>2 DEF Before
        <5>4. t[1] # at.cube \/ t[2] # at.done + 1
            BY <5>1, <5>2, <5>3
        <5>5. s[1] = at.cube /\ s[2] = at.done + 1
            BY DEF s
        <5> QED
            BY <5>4, <5>5
      <4>2. Squashed(s) # Squashed(t)
          BY <1>1, <3>2, <4>1 DEF Unambiguous
      <4> QED
          BY <1>1, <1>2, <3>2, <4>2, SameKey
    <3>6. calls'[i].of = t
        BY <3>1
    <3> HIDE DEF t
    <3>7. CASE file' = file
        BY <3>4, <3>6, <3>7
    <3>8. CASE \E line \in Lines : file' = Appended(line) /\ Writes(line, s, logged)
      <4>1. PICK line \in Lines : file' = Appended(line) /\ Writes(line, s, logged)
          BY <3>8
      <4>2. /\ file' \in Seq(Lines) /\ Len(file') = Len(file) + 1 /\ file'[Len(file) + 1] = line
            /\ \A k \in 1 .. Len(file) : file'[k] = file[k]
          BY <2>2, <4>1, AppendedLines
      <4>3. DOMAIN file' = 1 .. Len(file) + 1
          BY <4>2, LenProperties
      <4>4. p \in DOMAIN file' /\ file'[p] = file[p]
          BY <1>7, <3>4, <4>2, <4>3
      <4>5. line.value = Nothing \/ line.key # KeyAt(t)
          BY <3>5, <4>1 DEF Writes
      <4>6. ASSUME NEW q \in DOMAIN file', q > p
            PROVE  file'[q].value = Nothing \/ file'[q].key # KeyAt(t)
        <5>1. CASE q = Len(file) + 1
            BY <4>2, <4>5, <5>1
        <5>2. CASE q # Len(file) + 1
          <6>1. q \in DOMAIN file /\ file'[q] = file[q]
              BY <1>7, <4>2, <4>3, <5>2
          <6> QED
              BY <3>4, <4>6, <6>1
        <5> QED
            BY <5>1, <5>2
      <4> QED
          BY <3>4, <3>6, <4>4, <4>6
    <3> QED
        BY <1>3, <3>7, <3>8
  <2> QED
      BY <2>3, <2>4
<1> QED
    BY <1>11, <1>12, <1>13 DEF ReadInv

LEMMA ReadStep ==
    ASSUME OutputsTyped, ReadInv, [CubeNext]_cubeVars
    PROVE  ReadInv'
<1>1. CASE NextOutput
    BY <1>1, ReadNextOutput
<1>2. CASE UNCHANGED <<workflow, file, torn, calls>> /\ (NextCube \/ at' = at)
  <2>1. ASSUME NEW i \in DOMAIN calls, Before(calls[i].of)
        PROVE  Before(calls[i].of)'
    <3>1. calls[i].of \in Nat \X Nat
      <4>1. calls \in Seq([of : Settings, logged : BOOLEAN]) /\ workflow \in Workflows
          BY DEF OutputsTyped
      <4>2. calls[i].of \in Settings
        <5>1. i \in 1 .. Len(calls)
            BY <4>1, LenProperties
        <5>2. calls[i] \in [of : Settings, logged : BOOLEAN]
            BY <4>1, <5>1, ElementOfSeq
        <5> QED
            BY <5>2
      <4> QED
          BY <4>1, <4>2, SettingsAreNumbers
    <3>2. calls[i].of[1] \in Nat
        BY <3>1
    <3>3. CASE at' = at
        BY <1>2, <2>1, <3>3 DEF Before
    <3>4. CASE NextCube
      <4>1. at'.cube = at.cube + 1 /\ at.cube \in Nat
        <5>1. workflow \in Workflows /\ at \in [cube : 1 .. Len(workflow) + 1, done : Nat]
            BY DEF OutputsTyped
        <5>2. Len(workflow) \in Nat
            BY <5>1, NamesOfSettings
        <5> QED
            BY <3>4, <5>1, <5>2 DEF NextCube
      <4>2. calls[i].of[1] <= at.cube
          BY <2>1, <3>2, <4>1 DEF Before
      <4>3. calls[i].of[1] < at'.cube
          BY <3>2, <4>1, <4>2
      <4> QED
          BY <1>2, <4>3 DEF Before
    <3> QED
        BY <1>2, <3>3, <3>4
  <2>2. CallsInOrder'
      BY <1>2, <2>1 DEF ReadInv, CallsInOrder
  <2>3. ValuesPlaced'
      BY <1>2 DEF ReadInv, ValuesPlaced, KeyAt, Key, Continued, Settings
  <2>4. LinesStand'
    <3>1. Settings' = Settings /\ \A x : Squashed(x)' = Squashed(x)
        BY <1>2 DEF Settings, Squashed
    <3>2. Unambiguous' = Unambiguous
        BY <3>1 DEF Unambiguous
    <3>3. Continued' = Continued
        BY <1>2 DEF Continued
    <3>5. calls' = calls
        BY <1>2
    <3>6. \A i \in DOMAIN calls : Stands(calls[i].of)' = Stands(calls[i].of)
        BY <1>2 DEF Stands, KeyAt, Key
    <3> QED
        BY <3>2, <3>3, <3>5, <3>6 DEF ReadInv, LinesStand
  <2> QED
      BY <2>2, <2>3, <2>4 DEF ReadInv
<1> QED
    BY <1>1, <1>2 DEF CubeNext, Action, SetOutputs, CubeEnds, NextCube, cubeVars, writing

\* The line that is read under a key is the last with a value.
LEMMA LineRead ==
    ASSUME OutputsTyped, NEW s
    PROVE  LET lines == {i \in DOMAIN file : file[i].key = KeyAt(s) /\ file[i].value # Nothing}
           IN  \/ lines = {} /\ Read(s) = Nothing
               \/ \E m \in lines : Read(s) = file[m].value /\ \A i \in lines : i <= m
<1> DEFINE lines == {i \in DOMAIN file : file[i].key = KeyAt(s) /\ file[i].value # Nothing}
           Most(m) == \A i \in lines : m >= i
<1>1. Read(s) = IF lines = {} THEN Nothing ELSE file[Max(lines)].value
    BY DEF Read, KeyAt
<1>2. Len(file) \in Nat /\ DOMAIN file = 1 .. Len(file)
    BY LenProperties DEF OutputsTyped
<1>3. lines \in SUBSET (1 .. Len(file))
    BY <1>2
<1>4. lines # {} => Max(lines) \in lines /\ Most(Max(lines))
  <2> SUFFICES ASSUME lines # {} PROVE Max(lines) \in lines /\ Most(Max(lines))
      OBVIOUS
  <2>1. PICK m \in lines : \A i \in lines : i <= m
    <3> HIDE DEF lines
    <3> QED
        BY <1>2, <1>3, LastPosition
  <2>2. \A i \in lines : i \in Nat
      BY <1>2, <1>3
  <2> HIDE DEF lines
  <2>3. Most(m)
      BY <2>1, <2>2
  <2>4. Max(lines) = CHOOSE x \in lines : Most(x)
      BY DEF Max
  <2> HIDE DEF Most
  <2> QED
      BY <2>1, <2>3, <2>4
<1>5. \A i \in lines : i \in Nat
    BY <1>2, <1>3
<1>6. CASE lines = {}
    BY <1>1, <1>6
<1>7. CASE lines # {}
  <2>1. Max(lines) \in lines /\ Most(Max(lines)) /\ Read(s) = file[Max(lines)].value
      BY <1>1, <1>4, <1>7
  <2>2. \A i \in lines : i <= Max(lines)
    <3> HIDE DEF lines
    <3> QED
        BY <1>5, <2>1
  <2> HIDE DEF lines
  <2>3. \E m \in lines : Read(s) = file[m].value /\ \A i \in lines : i <= m
      BY <2>1, <2>2
  <2> QED
      BY <2>3 DEF lines
<1> QED
    BY <1>6, <1>7

LEMMA ReadNotAnothers ==
    ASSUME OutputsTyped, ReadInv
    PROVE  NeverAnothers
<1> SUFFICES ASSUME Unambiguous, NEW s \in Settings
             PROVE  Read(s) \in {Nothing, Garbled, s} \cup {calls[j].of : j \in Continued}
    BY DEF NeverAnothers
<1>1. \/ Read(s) = Nothing
      \/ \E m \in DOMAIN file : Read(s) = file[m].value /\ file[m].key = KeyAt(s)
    BY LineRead
<1>2. CASE Read(s) = Nothing
    BY <1>2
<1>3. CASE \E m \in DOMAIN file : Read(s) = file[m].value /\ file[m].key = KeyAt(s)
  <2>1. PICK m \in DOMAIN file : Read(s) = file[m].value /\ file[m].key = KeyAt(s)
      BY <1>3
  <2>2. \/ file[m].value \in {Nothing, Garbled}
        \/ file[m].value \in Settings /\ file[m].key = KeyAt(file[m].value)
        \/ \E j \in Continued : file[m].value = calls[j].of
      BY DEF ReadInv, ValuesPlaced
  <2>3. ASSUME Read(s) \in Settings, KeyAt(Read(s)) = KeyAt(s)
        PROVE  Read(s) = s
    <3>1. Squashed(Read(s)) = Squashed(s)
        BY <2>3, SameKey DEF OutputsTyped
    <3> QED
        BY <2>3, <3>1 DEF Unambiguous
  <2> QED
      BY <2>1, <2>2, <2>3
<1> QED
    BY <1>1, <1>2, <1>3

LEMMA ReadLosesLittle ==
    ASSUME OutputsTyped, ReadInv
    PROVE  LosesOnlyByTheNext
<1> SUFFICES ASSUME Unambiguous, NEW i \in DOMAIN calls, ~calls[i].logged,
                    i .. Len(calls) \cap Continued = {}
             PROVE  Read(calls[i].of) = calls[i].of
    BY DEF LosesOnlyByTheNext
<1> DEFINE t == calls[i].of
<1>1. t # Nothing
  <2>1. calls \in Seq([of : Settings, logged : BOOLEAN]) /\ workflow \in Workflows
      BY DEF OutputsTyped
  <2>2. i \in 1 .. Len(calls)
      BY <2>1, LenProperties
  <2>3. calls[i] \in [of : Settings, logged : BOOLEAN]
      BY <2>1, <2>2, ElementOfSeq
  <2>4. t \in Nat \X Nat
      BY <2>1, <2>3, SettingsAreNumbers
  <2> HIDE DEF t
  <2> QED
      BY <2>4, ValuesAssumption
<1>2. Stands(t)
    BY DEF ReadInv, LinesStand
<1> HIDE DEF t
<1>3. PICK p \in DOMAIN file :
         /\ file[p] = [key |-> KeyAt(t), value |-> t]
         /\ \A q \in DOMAIN file : q > p => file[q].value = Nothing \/ file[q].key # KeyAt(t)
    BY <1>2 DEF Stands
<1>4. \/ Read(t) = Nothing /\ \A q \in DOMAIN file : ~(file[q].key = KeyAt(t) /\ file[q].value # Nothing)
      \/ \E m \in DOMAIN file :
            /\ Read(t) = file[m].value /\ file[m].key = KeyAt(t) /\ file[m].value # Nothing
            /\ \A q \in DOMAIN file : file[q].key = KeyAt(t) /\ file[q].value # Nothing => q <= m
    BY LineRead
<1>5. PICK m \in DOMAIN file :
            /\ Read(t) = file[m].value /\ file[m].key = KeyAt(t) /\ file[m].value # Nothing
            /\ \A q \in DOMAIN file : file[q].key = KeyAt(t) /\ file[q].value # Nothing => q <= m
    BY <1>1, <1>3, <1>4
<1>6. p <= m /\ ~(m > p)
    BY <1>1, <1>3, <1>5
<1>7. p \in Nat /\ m \in Nat
    BY LenProperties DEF OutputsTyped
<1>8. p = m
    BY <1>6, <1>7
<1> QED
    BY <1>3, <1>5, <1>8 DEF t

(***************************************************************************)
(* What a cube reads of the outputs of those before it is what SetOutput   *)
(* was called with, but for the errors it logged and the line after each   *)
(* of them (ReadAsSet), for names and workflows of any length.             *)
(***************************************************************************)
THEOREM WhatIsReadWasSet == CubeSpec => []ReadAsSet
<1>1. OutputsTyped /\ ReadInv => ReadAsSet
    BY ReadNotAnothers, ReadLosesLittle DEF ReadAsSet
<1>2. CubeInit => OutputsTyped
    BY CubeInitTyped
<1> QED
    BY <1>1, <1>2, ReadStart, TypedStep, ReadStep, PTL DEF CubeSpec
=============================================================================
