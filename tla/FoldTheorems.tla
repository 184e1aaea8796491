----------------------------- MODULE FoldTheorems ----------------------------
(* Induction without operator parameters, and what it proves of FoldLeft:  *)
(* facts that the proofs about several components share.                   *)
EXTENDS Integers, SequencesExt, FiniteSetTheorems, WellFoundedInduction, TLAPS

(***************************************************************************)
(* Induction over the natural numbers for a set: the least number that is  *)
(* not in it would have a predecessor that is.                             *)
(***************************************************************************)
LEMMA SetInduction ==
  ASSUME NEW T \in SUBSET Nat, 0 \in T, \A n \in T : n + 1 \in T
  PROVE  T = Nat
<1> DEFINE R == OpToRel(<, Nat)
           U == Nat \ T
<1>1. SUFFICES ASSUME U # {}
               PROVE  FALSE
  OBVIOUS
<1>2. IsWellFoundedOn(R, Nat)
  BY NatLessThanWellFounded, Zenon
<1>3. \A i, j \in Nat : <<i, j>> \in R <=> i < j
  BY DEF OpToRel
<1> HIDE DEF R
<1>4. PICK m \in U : \A k \in U : ~ (<<k, m>> \in R)
  BY <1>1, <1>2, WFMin
<1>5. m \in Nat /\ m # 0 /\ m - 1 \in Nat /\ m - 1 < m
  BY <1>4
<1>6. m - 1 \in T
  BY <1>3, <1>4, <1>5
<1>7. m \in T
  BY <1>5, <1>6
<1> QED BY <1>4, <1>7

(* The greatest position is the last.                                      *)
LEMMA MaxIs ==
  ASSUME NEW k \in Nat, NEW s \in SUBSET (1..k), k \in s
  PROVE  Max(s) = k
<1>1. \A y \in s : k >= y
  OBVIOUS
<1>2. \A x \in s : (\A y \in s : x >= y) => x = k
  OBVIOUS
<1> QED BY <1>1, <1>2 DEF Max
(* There is a greatest position among any.                                 *)
LEMMA LastIsIn ==
  ASSUME NEW n \in Nat, NEW s \in SUBSET (1..n), s # {}
  PROVE  Max(s) \in s /\ \A y \in s : y <= Max(s)
<1> DEFINE P(m) == \A r \in SUBSET (1..m) : r # {} => \E x \in r : \A y \in r : x >= y
           T == {m \in Nat : P(m)}
<1>1. P(0)
  <2>1. 1..0 = {}
    OBVIOUS
  <2> QED BY <2>1
<1>2. ASSUME NEW m \in Nat, P(m) PROVE P(m + 1)
  <2>1. SUFFICES ASSUME NEW r \in SUBSET (1..(m + 1)), r # {}
                 PROVE  \E x \in r : \A y \in r : x >= y
    OBVIOUS
  <2>2. CASE m + 1 \in r
    BY <2>2
  <2>3. CASE m + 1 \notin r
    <3>1. r \in SUBSET (1..m)
      BY <2>3
    <3> QED BY <1>2, <2>1, <3>1
  <2> QED BY <2>2, <2>3
<1>3. T \in SUBSET Nat /\ 0 \in T /\ \A m \in T : m + 1 \in T
  <2> HIDE DEF P
  <2> QED BY <1>1, <1>2
<1>4. T = Nat
  <2> HIDE DEF T
  <2> QED BY <1>3, SetInduction
<1>5. P(n)
  <2> HIDE DEF P
  <2> QED BY <1>4
<1>6. \E x \in s : \A y \in s : x >= y
  BY <1>5
<1> QED BY <1>6 DEF Max
-----------------------------------------------------------------------------
(***************************************************************************)
(* FoldLeft is a function on the sets of positions: without its last       *)
(* position it gives what the last step starts from.  A step is a function *)
(* here, on the values A and the elements B.  One exists, because one on   *)
(* the sets up to m extends to one up to m + 1.                            *)
(***************************************************************************)
CanFold(A, B, step, base, n, seq) ==
  /\ step \in [A \X B -> A] /\ base \in A
  /\ n \in Nat /\ seq \in [1..n -> B]

SetFold(A, step, base, n, seq, f) ==
  /\ f \in [SUBSET (1..n) -> A]
  /\ \A s \in SUBSET (1..n) :
       f[s] = IF s = {} THEN base ELSE step[<<f[s \ {Max(s)}], seq[Max(s)]>>]

(* A step that stays within its type can be folded over every set of       *)
(* places.                                                                 *)
LEMMA SetFoldExists ==
  ASSUME NEW A, NEW B, NEW step, NEW base, NEW n, NEW seq, CanFold(A, B, step, base, n, seq)
  PROVE  \E f : SetFold(A, step, base, n, seq, f)
<1> USE DEF CanFold
<1> DEFINE Fold(m, f) ==
             /\ f \in [SUBSET (1..m) -> A]
             /\ \A s \in SUBSET (1..m) :
                  f[s] = IF s = {} THEN base ELSE step[<<f[s \ {Max(s)}], seq[Max(s)]>>]
           P(m) == m <= n => \E f : Fold(m, f)
           T == {m \in Nat : P(m)}
<1>1. P(0)
  <2>1. 1..0 = {} /\ SUBSET {} = {{}}
    OBVIOUS
  <2>2. Fold(0, [s \in {{}} |-> base])
    BY <2>1
  <2> QED BY <2>2
<1>2. ASSUME NEW m \in Nat, P(m)
      PROVE  P(m + 1)
  <2>1. SUFFICES ASSUME m + 1 <= n
                 PROVE  \E f : Fold(m + 1, f)
    OBVIOUS
  <2>2. PICK f : Fold(m, f)
    <3>1. m <= n
      BY <2>1
    <3> HIDE DEF Fold
    <3> QED BY <1>2, <3>1
  <2> DEFINE g == [s \in SUBSET (1..(m + 1)) |->
                     IF m + 1 \in s THEN step[<<f[s \ {m + 1}], seq[m + 1]>>] ELSE f[s]]
  <2>3. ASSUME NEW s \in SUBSET (1..(m + 1))
        PROVE  /\ g[s] \in A
               /\ g[s] = IF s = {} THEN base
                         ELSE step[<<g[s \ {Max(s)}], seq[Max(s)]>>]
    <3>1. CASE m + 1 \in s
      <4>1. s \ {m + 1} \in SUBSET (1..m) /\ Max(s) = m + 1 /\ s # {}
        BY <3>1, MaxIs
      <4>2. s \ {m + 1} \in SUBSET (1..(m + 1)) /\ m + 1 \notin s \ {m + 1}
        OBVIOUS
      <4>3. g[s \ {m + 1}] = f[s \ {m + 1}] /\ f[s \ {m + 1}] \in A
        BY <2>2, <4>1, <4>2
      <4>4. g[s] = step[<<f[s \ {m + 1}], seq[m + 1]>>] /\ seq[m + 1] \in B
        BY <2>1, <3>1
      <4> QED BY <4>1, <4>3, <4>4
    <3>2. CASE m + 1 \notin s
      <4>1. s \in SUBSET (1..m) /\ g[s] = f[s]
        BY <3>2
      <4>2. \A x : s \ {x} \in SUBSET (1..(m + 1)) /\ m + 1 \notin s \ {x}
        BY <3>2
      <4>3. \A x : g[s \ {x}] = f[s \ {x}]
        BY <4>2
      <4> QED BY <2>2, <4>1, <4>3
    <3> QED BY <3>1, <3>2
  <2>4. g \in [SUBSET (1..(m + 1)) -> A]
    BY <2>3
  <2>5. Fold(m + 1, g)
    <3> HIDE DEF g
    <3> QED BY <2>3, <2>4
  <2> QED BY <2>5
<1>3. T \in SUBSET Nat /\ 0 \in T /\ \A m \in T : m + 1 \in T
  <2> HIDE DEF P
  <2> QED BY <1>1, <1>2
<1>4. PICK f : Fold(n, f)
  <2>1. T = Nat
    <3> HIDE DEF T
    <3> QED BY <1>3, SetInduction
  <2>2. P(n)
    <3> HIDE DEF P
    <3> QED BY <2>1
  <2> HIDE DEF Fold
  <2> QED BY <2>2
<1> QED BY <1>4 DEF SetFold

(***************************************************************************)
(* A function that takes the step wherever what it starts from is in A     *)
(* iterates it along the sequence.                                         *)
(***************************************************************************)
Continues(A, step, base, n, seq, f) ==
  /\ f[{}] = base
  /\ \A s \in SUBSET (1..n) :
       s # {} /\ f[s \ {Max(s)}] \in A => f[s] = step[<<f[s \ {Max(s)}], seq[Max(s)]>>]

Iterates(A, step, base, n, seq, f) ==
  /\ \A i \in 0..n : f[1..i] \in A
  /\ f[1..0] = base
  /\ \A i \in 1..n : f[1..i] = step[<<f[1..(i - 1)], seq[i]>>]

(* Folded over the first places of a sequence, a step is applied place     *)
(* after place.                                                            *)
LEMMA SetFoldIterates ==
  ASSUME NEW A, NEW B, NEW step, NEW base, NEW n, NEW seq, NEW f,
         CanFold(A, B, step, base, n, seq), Continues(A, step, base, n, seq, f)
  PROVE  Iterates(A, step, base, n, seq, f)
<1> USE DEF CanFold, Continues
<1> DEFINE P(m) == m <= n => /\ f[1..m] \in A
                             /\ m # 0 => f[1..m] = step[<<f[1..(m - 1)], seq[m]>>]
           T == {m \in Nat : P(m)}
<1>1. f[1..0] = base
  <2>1. 1..0 = {}
    OBVIOUS
  <2> QED BY <2>1
<1>2. P(0)
  BY <1>1
<1>3. ASSUME NEW m \in Nat, P(m)
      PROVE  P(m + 1)
  <2>1. SUFFICES ASSUME m + 1 <= n
                 PROVE  /\ f[1..(m + 1)] \in A
                        /\ f[1..(m + 1)] = step[<<f[1..m], seq[m + 1]>>]
    OBVIOUS
  <2>2. f[1..m] \in A
    BY <1>3, <2>1
  <2>3. 1..(m + 1) \in SUBSET (1..n) /\ 1..(m + 1) # {} /\ m + 1 \in 1..(m + 1)
    BY <2>1
  <2>4. Max(1..(m + 1)) = m + 1
    BY <2>3, MaxIs
  <2>5. (1..(m + 1)) \ {m + 1} = 1..m
    OBVIOUS
  <2>6. f[1..(m + 1)] = step[<<f[1..m], seq[m + 1]>>]
    BY <2>2, <2>3, <2>4, <2>5
  <2>7. seq[m + 1] \in B
    BY <2>1
  <2> QED BY <2>2, <2>6, <2>7
<1>4. T \in SUBSET Nat /\ 0 \in T /\ \A m \in T : m + 1 \in T
  <2> HIDE DEF P
  <2> QED BY <1>2, <1>3
<1>5. ASSUME NEW m \in 0..n
      PROVE  f[1..m] \in A /\ (m # 0 => f[1..m] = step[<<f[1..(m - 1)], seq[m]>>])
  <2>1. T = Nat
    <3> HIDE DEF T
    <3> QED BY <1>4, SetInduction
  <2>2. P(m)
    <3>1. m \in Nat
      OBVIOUS
    <3> HIDE DEF P
    <3> QED BY <2>1, <3>1
  <2> QED BY <2>2
<1>6. \A m \in 1..n : f[1..m] = step[<<f[1..(m - 1)], seq[m]>>]
  BY <1>5
<1> QED BY <1>1, <1>5, <1>6 DEF Iterates
-----------------------------------------------------------------------------
(* A finite set as a sequence: each element, once.                         *)
LEMMA SetToSeqIs ==
  ASSUME NEW S, IsFiniteSet(S)
  PROVE  /\ SetToSeq(S) \in Seq(S)
         /\ Len(SetToSeq(S)) = Cardinality(S)
         /\ ToSet(SetToSeq(S)) = S
         /\ \A i, j \in DOMAIN SetToSeq(S) : SetToSeq(S)[i] = SetToSeq(S)[j] => i = j
<1> DEFINE n == Cardinality(S)
           g == SetToSeq(S)
<1>1. n \in Nat /\ ExistsBijection(1..n, S)
  BY FS_CardinalityType
<1>2. \E f \in [1..n -> S] : IsInjective(f)
  <2>1. PICK f : f \in Bijection(1..n, S)
    BY <1>1 DEF ExistsBijection
  <2> QED BY <2>1 DEF Bijection, Injection
<1>3. g \in [1..n -> S] /\ IsInjective(g)
  BY <1>2 DEF SetToSeq
<1> HIDE DEF g
<1>4. g \in Surjection(1..n, S)
  <2>1. g \in Injection(1..n, S)
    BY <1>3 DEF Injection
  <2>2. IsFiniteSet(1..n) /\ Cardinality(1..n) = n
    BY <1>1, FS_Interval
  <2> QED BY <2>1, <2>2, FS_Injection
<1>5. g \in Seq(S) /\ Len(g) = n /\ DOMAIN g = 1..n
  BY <1>1, <1>3
<1>6. ToSet(g) = S
  BY <1>4, <1>5 DEF ToSet, Surjection
<1>7. \A i, j \in DOMAIN g : g[i] = g[j] => i = j
  BY <1>3 DEF IsInjective
<1> QED BY <1>5, <1>6, <1>7 DEF g

(* A concatenation holds the elements of its parts, each at its place.     *)
LEMMA ConcatElements ==
  ASSUME NEW E, NEW s \in Seq(E), NEW t \in Seq(E)
  PROVE  /\ Len(s \o t) = Len(s) + Len(t)
         /\ \A i \in 1..Len(s) : i \in DOMAIN (s \o t) /\ (s \o t)[i] = s[i]
         /\ \A i \in 1..Len(t) : i + Len(s) \in DOMAIN (s \o t) /\ (s \o t)[i + Len(s)] = t[i]
<1>1. /\ Len(s) \in Nat /\ Len(t) \in Nat /\ DOMAIN s = 1..Len(s) /\ DOMAIN t = 1..Len(t)
      /\ Len(s \o t) = Len(s) + Len(t) /\ DOMAIN (s \o t) = 1..(Len(s) + Len(t))
  OBVIOUS
<1>2. \A i \in 1..Len(s) : i \in DOMAIN (s \o t) /\ (s \o t)[i] = s[i]
  BY <1>1
<1>3. \A i \in 1..Len(t) : i + Len(s) \in DOMAIN (s \o t) /\ (s \o t)[i + Len(s)] = t[i]
  BY <1>1
<1> QED BY <1>1, <1>2, <1>3

(* What is in two sequences is in the one after the other.                 *)
LEMMA ToSetConcat ==
  ASSUME NEW E, NEW s \in Seq(E), NEW t \in Seq(E)
  PROVE  /\ ToSet(s \o t) = ToSet(s) \cup ToSet(t)
         /\ Len(s \o t) = Len(s) + Len(t)
<1>1. /\ Len(s) \in Nat /\ Len(t) \in Nat /\ DOMAIN s = 1..Len(s) /\ DOMAIN t = 1..Len(t)
      /\ Len(s \o t) = Len(s) + Len(t) /\ DOMAIN (s \o t) = 1..(Len(s) + Len(t))
  OBVIOUS
<1>2. \A i \in 1..Len(s) : i \in DOMAIN (s \o t) /\ (s \o t)[i] = s[i]
  BY ConcatElements
<1>3. \A i \in 1..Len(t) : i + Len(s) \in DOMAIN (s \o t) /\ (s \o t)[i + Len(s)] = t[i]
  BY ConcatElements
<1>4. ASSUME NEW i \in DOMAIN (s \o t)
      PROVE  (s \o t)[i] \in ToSet(s) \cup ToSet(t)
  <2>1. CASE i \in 1..Len(s)
    BY <1>1, <1>2, <2>1 DEF ToSet
  <2>2. CASE i \notin 1..Len(s)
    <3>1. i - Len(s) \in 1..Len(t) /\ (i - Len(s)) + Len(s) = i
      BY <1>1, <2>2
    <3> QED BY <1>1, <1>3, <3>1 DEF ToSet
  <2> QED BY <2>1, <2>2
<1>5. ToSet(s) \cup ToSet(t) \subseteq ToSet(s \o t)
  BY <1>1, <1>2, <1>3 DEF ToSet
<1>6. ToSet(s \o t) \subseteq ToSet(s) \cup ToSet(t)
  BY <1>4 DEF ToSet
<1> QED BY <1>1, <1>5, <1>6
-----------------------------------------------------------------------------
(***************************************************************************)
(* Where the pieces begin that FlattenSeq joins.                           *)
(***************************************************************************)
Elements(seqs) == UNION {ToSet(seqs[i]) : i \in DOMAIN seqs}

ArePieces(seqs) ==
  /\ Len(seqs) \in Nat /\ DOMAIN seqs = 1..Len(seqs) /\ seqs \in Seq(ToSet(seqs))
  /\ \A i \in 1..Len(seqs) : /\ seqs[i] \in Seq(Elements(seqs))
                              /\ Len(seqs[i]) \in Nat /\ DOMAIN seqs[i] = 1..Len(seqs[i])

Offsets(seqs, O) ==
  /\ O \in [0..Len(seqs) -> Nat]
  /\ O[0] = 0
  /\ \A i \in 1..Len(seqs) : O[i] = O[i - 1] + Len(seqs[i])

Joined(seqs, O, m, s) ==
  /\ s \in Seq(Elements(seqs)) /\ Len(s) = O[m]
  /\ \A i \in 1..m : \A j \in 1..Len(seqs[i]) : s[O[i - 1] + j] = seqs[i][j]

(* Sequences of sequences are pieces.                                      *)
LEMMA PiecesType ==
  ASSUME NEW V, NEW seqs \in Seq(Seq(V))
  PROVE  ArePieces(seqs)
<1>1. /\ Len(seqs) \in Nat /\ DOMAIN seqs = 1..Len(seqs)
      /\ \A i \in 1..Len(seqs) : seqs[i] \in Seq(V)
  OBVIOUS
<1>2. seqs \in Seq(ToSet(seqs))
  BY DEF ToSet
<1>3. ASSUME NEW i \in 1..Len(seqs)
      PROVE  /\ seqs[i] \in Seq(Elements(seqs))
             /\ Len(seqs[i]) \in Nat /\ DOMAIN seqs[i] = 1..Len(seqs[i])
  <2>1. seqs[i] \in Seq(V)
    BY <1>1
  <2>2. \A j \in DOMAIN seqs[i] : seqs[i][j] \in Elements(seqs)
    BY <1>1 DEF Elements, ToSet
  <2> DEFINE p == seqs[i]
             W == Elements(seqs)
  <2>3. p \in Seq(V) /\ \A j \in DOMAIN p : p[j] \in W
    BY <2>1, <2>2
  <2> HIDE DEF p, W
  <2>4. p \in Seq(W) /\ Len(p) \in Nat /\ DOMAIN p = 1..Len(p)
    BY <2>3
  <2> QED BY <2>4 DEF p, W
<1> QED BY <1>1, <1>2, <1>3 DEF ArePieces

(* Later pieces begin later.                                               *)
LEMMA OffsetsGrow ==
  ASSUME NEW seqs, ArePieces(seqs), NEW O, Offsets(seqs, O),
         NEW n \in 0..Len(seqs), NEW m \in 0..n
  PROVE  O[m] <= O[n]
<1>0. /\ Len(seqs) \in Nat /\ n \in Nat /\ m \in Nat /\ m \in 0..Len(seqs)
      /\ \A i \in 1..Len(seqs) : Len(seqs[i]) \in Nat
  BY DEF ArePieces
<1> DEFINE T == {x \in Nat : m + x <= Len(seqs) => O[m] <= O[m + x]}
<1>1. 0 \in T
  <2>1. m + 0 = m /\ O[m] \in Nat
    BY <1>0 DEF Offsets
  <2> QED BY <2>1
<1>2. ASSUME NEW x \in T PROVE x + 1 \in T
  <2>1. SUFFICES ASSUME m + (x + 1) <= Len(seqs) PROVE O[m] <= O[m + (x + 1)]
    OBVIOUS
  <2>2. m + (x + 1) \in 1..Len(seqs) /\ (m + (x + 1)) - 1 = m + x /\ m + x \in 0..Len(seqs)
    BY <1>0, <2>1
  <2>3. O[m + (x + 1)] = O[m + x] + Len(seqs[m + (x + 1)])
    BY <2>2 DEF Offsets
  <2>4. O[m] \in Nat /\ O[m + x] \in Nat /\ O[m] <= O[m + x] /\ Len(seqs[m + (x + 1)]) \in Nat
    <3>1. m + x <= Len(seqs)
      BY <1>0, <2>2
    <3> QED BY <1>0, <2>2, <3>1 DEF Offsets
  <2> QED BY <2>3, <2>4
<1> HIDE DEF T
<1>3. T = Nat
  <2>1. T \in SUBSET Nat
    BY DEF T
  <2> QED BY <1>1, <1>2, <2>1, SetInduction
<1>4. n - m \in T
  BY <1>0, <1>3
<1>5. m + (n - m) = n /\ n <= Len(seqs)
  BY <1>0
<1> QED BY <1>4, <1>5 DEF T

(* There is one way to add up the lengths.                                 *)
LEMMA OffsetsExist ==
  ASSUME NEW seqs, ArePieces(seqs)
  PROVE  \E O : Offsets(seqs, O)
<1>0. Len(seqs) \in Nat /\ \A i \in 1..Len(seqs) : Len(seqs[i]) \in Nat
  BY DEF ArePieces
<1> DEFINE P(m) == \E O : /\ O \in [0..m -> Nat] /\ O[0] = 0
                          /\ \A i \in 1..m : O[i] = O[i - 1] + Len(seqs[i])
           T == {m \in Nat : m <= Len(seqs) => P(m)}
<1>1. 0 \in T
  <2>1. [i \in 0..0 |-> 0] \in [0..0 -> Nat] /\ [i \in 0..0 |-> 0][0] = 0 /\ 1..0 = {}
    OBVIOUS
  <2>2. P(0)
    BY <2>1
  <2> QED BY <2>2
<1>2. ASSUME NEW m \in T PROVE m + 1 \in T
  <2>1. SUFFICES ASSUME m + 1 <= Len(seqs) PROVE P(m + 1)
    <3>1. m + 1 \in Nat
      OBVIOUS
    <3> HIDE DEF P
    <3> QED BY <3>1
  <2>2. m \in Nat /\ m <= Len(seqs) /\ m + 1 \in 1..Len(seqs) /\ Len(seqs[m + 1]) \in Nat
    BY <1>0, <2>1
  <2>3. PICK O : /\ O \in [0..m -> Nat] /\ O[0] = 0
                 /\ \A i \in 1..m : O[i] = O[i - 1] + Len(seqs[i])
    BY <2>2
  <2> DEFINE Q == [i \in 0..(m + 1) |-> IF i = m + 1 THEN O[m] + Len(seqs[m + 1]) ELSE O[i]]
  <2>4. Q \in [0..(m + 1) -> Nat] /\ Q[0] = 0
    BY <2>2, <2>3
  <2>5. ASSUME NEW i \in 1..(m + 1) PROVE Q[i] = Q[i - 1] + Len(seqs[i])
    <3>1. CASE i = m + 1
      BY <2>2, <3>1
    <3>2. CASE i # m + 1
      <4>1. i \in 1..m /\ i - 1 \in 0..m /\ i - 1 # m + 1
        BY <2>2, <3>2
      <4> QED BY <2>3, <3>2, <4>1
    <3> QED BY <3>1, <3>2
  <2> HIDE DEF Q
  <2> QED BY <2>4, <2>5
<1> HIDE DEF T
<1>3. T = Nat
  <2>1. T \in SUBSET Nat
    BY DEF T
  <2> QED BY <1>1, <1>2, <2>1, SetInduction
<1>4. P(Len(seqs))
  <2>1. Len(seqs) \in T
    BY <1>0, <1>3
  <2> QED BY <1>0, <2>1 DEF T
<1> QED BY <1>4 DEF Offsets

(* Every position is in a piece.                                           *)
LEMMA PlaceExists ==
  ASSUME NEW seqs, ArePieces(seqs), NEW O, Offsets(seqs, O), NEW k \in 1..O[Len(seqs)]
  PROVE  \E i \in 1..Len(seqs) : \E j \in 1..Len(seqs[i]) : k = O[i - 1] + j
<1> DEFINE T == {m \in Nat : m <= Len(seqs) /\ k <= O[m] =>
                  \E i \in 1..Len(seqs) : \E j \in 1..Len(seqs[i]) : k = O[i - 1] + j}
<1>0. Len(seqs) \in Nat /\ (\A i \in 1..Len(seqs) : Len(seqs[i]) \in Nat) /\ k \in Nat /\ k >= 1
  <2>1. Len(seqs) \in Nat /\ \A i \in 1..Len(seqs) : Len(seqs[i]) \in Nat
    BY DEF ArePieces
  <2> QED BY <2>1 DEF Offsets
<1>1. 0 \in T
  BY <1>0 DEF Offsets
<1>2. ASSUME NEW m \in T PROVE m + 1 \in T
  <2>1. SUFFICES ASSUME m + 1 <= Len(seqs), k <= O[m + 1]
                 PROVE  \E i \in 1..Len(seqs) : \E j \in 1..Len(seqs[i]) : k = O[i - 1] + j
    OBVIOUS
  <2>2. m + 1 \in 1..Len(seqs) /\ (m + 1) - 1 = m /\ m \in 0..Len(seqs) /\ m \in Nat
    BY <1>0, <2>1
  <2>3. CASE k <= O[m]
    BY <1>0,  <2>2, <2>3
  <2>4. CASE ~(k <= O[m])
    <3>1. O[m + 1] = O[m] + Len(seqs[m + 1]) /\ O[m] \in Nat /\ Len(seqs[m + 1]) \in Nat
      BY <1>0, <2>2 DEF Offsets
    <3>2. k - O[m] \in 1..Len(seqs[m + 1]) /\ k = O[m] + (k - O[m])
      BY <1>0, <2>1, <2>4, <3>1
    <3> QED BY <2>2, <3>2
  <2> QED BY <2>3, <2>4
<1> HIDE DEF T
<1>3. T = Nat
  <2>1. T \in SUBSET Nat
    BY DEF T
  <2> QED BY <1>1, <1>2, <2>1, SetInduction
<1>4. Len(seqs) \in T /\ k <= O[Len(seqs)]
  BY <1>0, <1>3 DEF Offsets
<1> QED BY <1>0, <1>4 DEF T

(* What is joined of the first m pieces is, with one more, joined.         *)
LEMMA JoinOne ==
  ASSUME NEW seqs, ArePieces(seqs), NEW O, Offsets(seqs, O),
         NEW m \in Nat, m + 1 <= Len(seqs), NEW s, Joined(seqs, O, m, s)
  PROVE  Joined(seqs, O, m + 1, s \o seqs[m + 1])
<1> DEFINE W == Elements(seqs)
           t == seqs[m + 1]
<1>0. /\ Len(seqs) \in Nat /\ DOMAIN seqs = 1..Len(seqs)
      /\ \A i \in 1..Len(seqs) : seqs[i] \in Seq(Elements(seqs)) /\ Len(seqs[i]) \in Nat
  BY DEF ArePieces
<1>1. /\ m + 1 \in DOMAIN seqs /\ (m + 1) - 1 = m /\ t \in Seq(W)
      /\ O[m + 1] = O[m] + Len(t) /\ O[m] \in Nat /\ Len(t) \in Nat
  <2>1. m + 1 \in 1..Len(seqs) /\ m \in 0..Len(seqs) /\ (m + 1) - 1 = m
    BY <1>0
  <2> QED BY <1>0, <2>1 DEF Offsets
<1>2. t \in Seq(W)
  BY <1>1
<1>3. s \in Seq(W) /\ Len(s) = O[m]
  BY DEF Joined
<1>4. ASSUME NEW i \in 1..(m + 1), NEW j \in 1..Len(seqs[i])
      PROVE  (s \o t)[O[i - 1] + j] = seqs[i][j]
  <2>1. CASE i = m + 1
    <3> HIDE DEF W, t
    <3> QED BY <1>1, <1>2, <1>3, <2>1 DEF t
  <2>2. CASE i # m + 1
    <3>1. /\ i \in 1..m /\ i - 1 \in 0..Len(seqs) /\ i \in 0..m /\ i \in 1..Len(seqs)
          /\ m \in 0..Len(seqs)
      BY <1>0, <2>2
    <3>2. O[i] <= O[m] /\ O[i] = O[i - 1] + Len(seqs[i]) /\ O[i - 1] \in Nat
      <4>1. O[i] <= O[m]
        BY <3>1, OffsetsGrow
      <4> QED BY <3>1, <4>1 DEF Offsets
    <3>3. O[i - 1] + j \in 1..Len(s) /\ s[O[i - 1] + j] = seqs[i][j]
      <4>1. Len(seqs[i]) \in Nat
        BY <1>0, <3>1
      <4>2. /\ O[i - 1] + j \in 1..O[m]
            /\ s[O[i - 1] + j] = seqs[i][j]
        <5>1. s[O[i - 1] + j] = seqs[i][j]
          BY <3>1 DEF Joined
        <5>2. O[i - 1] \in Nat /\ O[i] \in Nat /\ O[m] \in Nat
          BY <1>1, <3>1, <3>2, <4>1
        <5>3. j \in Nat /\ 1 <= j /\ j <= Len(seqs[i])
          BY <4>1
        <5> HIDE DEF t
        <5> QED BY <3>2, <4>1, <5>1, <5>2, <5>3
      <4> QED BY <1>3, <4>2
    <3> HIDE DEF W, t
    <3> QED BY <1>2, <1>3, <3>3
  <2> QED BY <2>1, <2>2
<1>5. s \o t \in Seq(W) /\ Len(s \o t) = O[m + 1]
  <2> HIDE DEF W, t
  <2> QED BY <1>1, <1>2, <1>3
<1> QED BY <1>4, <1>5 DEF Joined

(* FlattenSeq joins the pieces in their order.                             *)
LEMMA FlattenSeqIs ==
  ASSUME NEW seqs, ArePieces(seqs)
  PROVE  \E O : Offsets(seqs, O) /\ Joined(seqs, O, Len(seqs), FlattenSeq(seqs))
<1> DEFINE n == Len(seqs)
<1>1. PICK O : Offsets(seqs, O)
  BY OffsetsExist
<1>2. n \in Nat /\ DOMAIN seqs = 1..n
  BY DEF ArePieces
<1>3. CASE n = 0
  <2>1. FlattenSeq(seqs) = seqs /\ seqs = <<>>
    BY <1>3 DEF FlattenSeq
  <2>2. Joined(seqs, O, 0, <<>>)
    BY <1>1, <1>3 DEF Joined, Offsets
  <2> QED BY <1>1, <1>3, <2>1, <2>2
<1>4. CASE n # 0
  <2> DEFINE Body(f) == [i \in 1..n |-> IF i = 1 THEN seqs[i] ELSE f[i - 1] \o seqs[i]]
             G == CHOOSE g : g = Body(g)
             P(m) == \E f : /\ DOMAIN f = 1..m
                            /\ \A i \in 1..m : f[i] = IF i = 1 THEN seqs[i] ELSE f[i - 1] \o seqs[i]
             T == {m \in Nat : m <= n => P(m)}
  <2>1. 0 \in T
    <3>1. DOMAIN <<>> = 1..0 /\ 1..0 = {}
      OBVIOUS
    <3>2. P(0)
      BY <3>1
    <3> QED BY <3>2
  <2>2. ASSUME NEW m \in T PROVE m + 1 \in T
    <3>1. SUFFICES ASSUME m + 1 <= n PROVE P(m + 1)
      OBVIOUS
    <3>2. PICK f : /\ DOMAIN f = 1..m
                   /\ \A i \in 1..m : f[i] = IF i = 1 THEN seqs[i] ELSE f[i - 1] \o seqs[i]
      BY <1>2, <3>1
    <3> DEFINE g == [i \in 1..(m + 1) |-> IF i = m + 1 THEN IF m = 0 THEN seqs[1]
                                                            ELSE f[m] \o seqs[m + 1]
                                          ELSE f[i]]
    <3>3. DOMAIN g = 1..(m + 1)
      OBVIOUS
    <3>4. ASSUME NEW i \in 1..(m + 1)
          PROVE  g[i] = IF i = 1 THEN seqs[i] ELSE g[i - 1] \o seqs[i]
      <4>1. CASE i = m + 1
        <5>1. m = 0 => i = 1
          BY <4>1
        <5>2. m # 0 => i # 1 /\ i - 1 = m /\ m \in 1..(m + 1) /\ m # m + 1
          BY <4>1
        <5> QED BY <4>1, <5>1, <5>2
      <4>2. CASE i # m + 1
        <5>1. i \in 1..m /\ i - 1 # m + 1 /\ (i # 1 => i - 1 \in 1..(m + 1))
          BY <4>2
        <5> QED BY <3>2, <4>2, <5>1
      <4> QED BY <4>1, <4>2
    <3> HIDE DEF g
    <3> QED BY <3>3, <3>4
  <2>3. n \in T
    <3> HIDE DEF T
    <3>1. T \in SUBSET Nat
      BY DEF T
    <3>2. T = Nat
      BY <2>1, <2>2, <3>1, SetInduction
    <3> QED BY <1>2, <3>2
  <2>4. PICK f : /\ DOMAIN f = 1..n
                 /\ \A i \in 1..n : f[i] = IF i = 1 THEN seqs[i] ELSE f[i - 1] \o seqs[i]
    BY <1>2, <2>3
  <2>5. \E g : g = Body(g)
    <3> DEFINE g == [i \in 1..n |-> f[i]]
    <3>1. ASSUME NEW i \in 1..n PROVE g[i] = IF i = 1 THEN seqs[i] ELSE g[i - 1] \o seqs[i]
      <4>1. i # 1 => i - 1 \in 1..n
        BY <1>2
      <4> QED BY <2>4, <4>1
    <3>2. g = [i \in 1..n |-> g[i]]
      OBVIOUS
    <3> HIDE DEF g
    <3>3. g = Body(g)
      BY <3>1, <3>2
    <3> QED BY <3>3
  <2>6. FlattenSeq(seqs) = G[n]
    BY <1>4, Zenon DEF FlattenSeq
  <2>7. G = Body(G)
    <3> HIDE DEF Body
    <3> QED BY <2>5
  <2>8. \A i \in 1..n : G[i] = IF i = 1 THEN seqs[i] ELSE G[i - 1] \o seqs[i]
    <3> HIDE DEF G
    <3> QED BY <2>7
  <2> HIDE DEF G
  <2> DEFINE S == {m \in Nat : m + 1 <= n => Joined(seqs, O, m + 1, G[m + 1])}
  <2>9. 0 \in S
    <3>1. /\ 1 \in 1..n /\ G[1] = seqs[1] /\ 1 \in DOMAIN seqs
          /\ seqs[1] \in Seq(Elements(seqs))
          /\ O[1] = O[0] + Len(seqs[1]) /\ O[0] = 0 /\ Len(seqs[1]) \in Nat
      <4>1. 1 \in 1..n /\ 1 - 1 = 0
        BY <1>2, <1>4
      <4> QED BY <1>1, <1>2, <2>8, <4>1 DEF Offsets, ArePieces
    <3>2. \A i \in 1..1 : i = 1 /\ i - 1 = 0
      OBVIOUS
    <3>3. Joined(seqs, O, 1, G[1])
      BY <3>1, <3>2 DEF Joined
    <3> QED BY <3>3
  <2>10. ASSUME NEW m \in S PROVE m + 1 \in S
    <3>1. SUFFICES ASSUME (m + 1) + 1 <= n PROVE Joined(seqs, O, (m + 1) + 1, G[(m + 1) + 1])
      OBVIOUS
    <3>2. m \in Nat /\ m + 1 \in Nat /\ m + 1 <= n /\ (m + 1) + 1 \in 1..n
          /\ (m + 1) + 1 # 1 /\ ((m + 1) + 1) - 1 = m + 1
      BY <1>2, <3>1
    <3>3. Joined(seqs, O, m + 1, G[m + 1])
      BY <3>2
    <3>4. G[(m + 1) + 1] = G[m + 1] \o seqs[(m + 1) + 1]
      BY <2>8, <3>2
    <3>5. Joined(seqs, O, (m + 1) + 1, G[m + 1] \o seqs[(m + 1) + 1])
      BY <1>1, <3>1, <3>2, <3>3, JoinOne
    <3> QED BY <3>4, <3>5
  <2>11. n - 1 \in S
    <3> HIDE DEF S
    <3>1. S \in SUBSET Nat
      BY DEF S
    <3>2. S = Nat
      BY <2>9, <2>10, <3>1, SetInduction
    <3> QED BY <1>2, <1>4, <3>2
  <2>12. Joined(seqs, O, n, G[n])
    <3>1. (n - 1) + 1 = n
      BY <1>2
    <3> QED BY <2>11, <3>1
  <2> QED BY <1>1, <2>6, <2>12
<1> QED BY <1>3, <1>4
=============================================================================
