-------------------------- MODULE DecisionProofs ---------------------------
(* Theorems about the analysis of decisions, for every value of the        *)
(* constants: UniqueCause, and the pool that builds a report's decisions.  *)
EXTENDS Criteria, DecisionPool, FiniteSetTheorems, WellFoundedInduction, TLAPS

(* A set of natural numbers has a least element.                           *)
LEMMA LeastIsIn ==
  ASSUME NEW S \in SUBSET Nat, S # {}
  PROVE  Min(S) \in S /\ \A y \in S : Min(S) <= y
<1> DEFINE R == OpToRel(<, Nat)
<1>1. IsWellFoundedOn(R, Nat)
  BY NatLessThanWellFounded, Zenon
<1>2. \A i, j \in Nat : <<i, j>> \in R <=> i < j
  BY DEF OpToRel
<1> HIDE DEF R
<1>3. PICK m \in S : \A k \in S : ~ (<<k, m>> \in R)
  BY <1>1, WFMin
<1>4. ASSUME NEW y \in S
      PROVE  m <= y
  <2>1. y \in Nat /\ m \in Nat /\ ~(y < m)
    BY <1>2, <1>3
  <2> QED BY <2>1
<1> QED BY <1>4 DEF Min

-----------------------------------------------------------------------------
(***************************************************************************)
(* The nodes of a decision.  What holds of a node if it holds of those     *)
(* before it holds of all, and so does what holds if it holds of those     *)
(* after it.                                                               *)
(***************************************************************************)
LEMMA FromTheRoot ==
  ASSUME NEW N \in Nat, NEW T \in SUBSET (1..N),
         \A n \in 1..N : (\A m \in 1..(n - 1) : m \in T) => n \in T
  PROVE  T = 1..N
<1> DEFINE U == (1..N) \ T
<1>1. SUFFICES ASSUME U # {} PROVE FALSE
  OBVIOUS
<1>2. U \in SUBSET Nat /\ \A n \in U : n \in 1..N /\ n \notin T
  OBVIOUS
<1>3. \A n \in 1..N : n \in U \/ n \in T
  OBVIOUS
<1> HIDE DEF U
<1>4. PICK least \in U : \A y \in U : least <= y
  BY <1>1, <1>2, LeastIsIn
<1>5. \A m \in 1..(least - 1) : m \in T
  <2>1. TAKE m \in 1..(least - 1)
  <2>2. m \in 1..N /\ ~(least <= m)
    BY <1>2, <1>4
  <2> QED BY <1>3, <1>4, <2>2
<1> QED BY <1>2, <1>4, <1>5

(* From the last node to the root.                                         *)
LEMMA FromTheLeaves ==
  ASSUME NEW N \in Nat, NEW T \in SUBSET (1..N),
         \A n \in 1..N : (\A m \in (n + 1)..N : m \in T) => n \in T
  PROVE  T = 1..N
<1> DEFINE S == {k \in 1..N : N + 1 - k \in T}
<1>1. ASSUME NEW k \in 1..N, \A m \in 1..(k - 1) : m \in S
      PROVE  k \in S
  <2>1. N + 1 - k \in 1..N
    OBVIOUS
  <2>2. ASSUME NEW m \in ((N + 1 - k) + 1)..N
        PROVE  m \in T
    <3>1. N + 1 - m \in 1..(k - 1) /\ N + 1 - (N + 1 - m) = m
      OBVIOUS
    <3> QED BY <1>1, <3>1
  <2>3. N + 1 - k \in T
    BY <2>1, <2>2
  <2> QED BY <2>3
<1>2. S = 1..N
  <2>1. S \in SUBSET (1..N)
    OBVIOUS
  <2> HIDE DEF S
  <2> QED BY <1>1, <2>1, FromTheRoot
<1>3. ASSUME NEW n \in 1..N
      PROVE  n \in T
  <2>1. N + 1 - n \in 1..N /\ N + 1 - (N + 1 - n) = n
    OBVIOUS
  <2> QED BY <1>2, <2>1
<1> QED BY <1>3

(***************************************************************************)
(* A function on the nodes that computes the value of each from those of   *)
(* later nodes exists.                                                     *)
(***************************************************************************)
CanRecur(N, V, step) ==
  /\ N \in Nat /\ V # {}
  /\ step \in [(1..N) \X [1..N -> V] -> V]
  /\ \A n \in 1..N : \A f, g \in [1..N -> V] :
       (\A m \in (n + 1)..N : f[m] = g[m]) => step[<<n, f>>] = step[<<n, g>>]

Recursion(N, V, step, f) ==
  /\ f \in [1..N -> V]
  /\ \A n \in 1..N : f[n] = step[<<n, f>>]

(* Nodes are given their values from the last to the first.                *)
LEMMA RecursionExists ==
  ASSUME NEW N, NEW V, NEW step, CanRecur(N, V, step)
  PROVE  \E f : Recursion(N, V, step, f)
<1> USE DEF CanRecur
<1> DEFINE From(k, f) == /\ f \in [1..N -> V]
                         /\ \A n \in k..N : f[n] = step[<<n, f>>]
           T == {k \in 1..N : \E f : From(k, f)}
<1>1. ASSUME NEW k \in 1..N, \A m \in (k + 1)..N : m \in T
      PROVE  k \in T
  <2>1. PICK f : f \in [1..N -> V] /\ \A n \in (k + 1)..N : f[n] = step[<<n, f>>]
    <3>1. CASE k = N
      <4>1. PICK v \in V : TRUE
        OBVIOUS
      <4>2. (k + 1)..N = {} /\ [n \in 1..N |-> v] \in [1..N -> V]
        BY <3>1
      <4> QED BY <4>2
    <3>2. CASE k # N
      <4>1. k + 1 \in (k + 1)..N
        BY <3>2
      <4>2. k + 1 \in T
        BY <1>1, <4>1
      <4> QED BY <4>2
    <3> QED BY <3>1, <3>2
  <2> DEFINE g == [f EXCEPT ![k] = step[<<k, f>>]]
  <2>2. g \in [1..N -> V] /\ g[k] = step[<<k, f>>] /\ \A m \in 1..N : m # k => g[m] = f[m]
    BY <2>1
  <2> HIDE DEF g
  <2>3. ASSUME NEW n \in k..N
        PROVE  g[n] = step[<<n, g>>]
    <3>1. n \in 1..N /\ \A m \in (n + 1)..N : m \in 1..N /\ m # k
      OBVIOUS
    <3>2. step[<<n, f>>] = step[<<n, g>>]
      BY <2>1, <2>2, <3>1
    <3>3. CASE n = k
      BY <2>2, <3>2, <3>3
    <3>4. CASE n # k
      <4>1. n \in (k + 1)..N
        BY <3>4
      <4>2. f[n] = step[<<n, f>>] /\ g[n] = f[n]
        BY <2>1, <2>2, <3>1, <3>4, <4>1
      <4> QED BY <3>2, <4>2
    <3> QED BY <3>3, <3>4
  <2> QED BY <2>2, <2>3
<1>2. T = 1..N
  <2>1. T \in SUBSET (1..N)
    OBVIOUS
  <2> HIDE DEF T
  <2> QED BY <1>1, <2>1, FromTheLeaves
<1>3. CASE N = 0
  <2>1. PICK v \in V : TRUE
    OBVIOUS
  <2>2. Recursion(N, V, step, [n \in 1..N |-> v])
    BY <1>3 DEF Recursion
  <2> QED BY <2>2
<1>4. CASE N # 0
  <2>1. 1 \in T
    <3>1. 1 \in 1..N
      BY <1>4
    <3> HIDE DEF T
    <3> QED BY <1>2, <3>1
  <2>2. PICK f : From(1, f)
    BY <2>1
  <2>3. Recursion(N, V, step, f)
    BY <2>2 DEF Recursion
  <2> QED BY <2>3
<1> QED BY <1>3, <1>4

-----------------------------------------------------------------------------
(***************************************************************************)
(* Decisions with constants or without: their nodes, inductions over the   *)
(* operands from the leaves and from the root, and what is computed from   *)
(* the root down.                                                          *)
(***************************************************************************)
Nodes(E) == 1..Len(E)
IsBinary(E, n) == E[n].kind \in {"and", "or"}
Skipped(E, s, n) == \A i \in Below(E)[n] : s[i] = "notEvaluated"

(* The shape of a decision.                                                *)
LEMMA NodeIs ==
  ASSUME NEW E, WellFormed(E), NEW n \in Nodes(E)
  PROVE  /\ Len(E) \in Nat /\ n \in Nat /\ 1 \in Nodes(E) /\ DOMAIN E = Nodes(E)
         /\ E[n].kind \in {"condition", "constant", "not", "and", "or"}
         /\ E[n].kind = "condition" => E[n].index \in Conditions(E)
         /\ E[n].kind = "constant" => E[n].constant \in BOOLEAN
         /\ E[n].kind = "not" => E[n].left \in Nodes(E) /\ E[n].left \in (n + 1)..Len(E)
         /\ IsBinary(E, n) => /\ E[n].left \in Nodes(E) /\ E[n].left \in (n + 1)..Len(E)
                              /\ E[n].right \in Nodes(E) /\ E[n].right \in (n + 1)..Len(E)
                              /\ E[n].left # E[n].right
                              /\ Below(E)[E[n].left] \cap Below(E)[E[n].right] = {}
<1>1. Len(E) \in Nat \ {0} /\ DOMAIN E = Nodes(E)
  BY DEF WellFormed, Nodes
<1>2. /\ E[n].kind \in {"condition", "constant", "not", "and", "or"}
      /\ E[n].kind = "constant" => E[n].constant \in BOOLEAN
      /\ Operands(E, n) \subseteq (n + 1)..Len(E)
      /\ E[n].kind \in {"and", "or"} =>
           E[n].left # E[n].right /\ Below(E)[E[n].left] \cap Below(E)[E[n].right] = {}
  BY <1>1 DEF WellFormed
<1>3. E[n].kind = "condition" => E[n].index \in Conditions(E)
  BY <1>1 DEF Conditions
<1>4. \A m \in (n + 1)..Len(E) : m \in Nodes(E)
  BY <1>1 DEF Nodes
<1>5. E[n].kind = "not" => E[n].left \in (n + 1)..Len(E)
  BY <1>2 DEF Operands
<1>6. E[n].kind \in {"and", "or"} => /\ E[n].left \in (n + 1)..Len(E)
                                     /\ E[n].right \in (n + 1)..Len(E)
  BY <1>2 DEF Operands
<1>7. n \in Nat /\ 1 \in Nodes(E)
  BY <1>1 DEF Nodes
<1> QED BY <1>1, <1>2, <1>3, <1>4, <1>5, <1>6, <1>7 DEF IsBinary

HasOperand(E, n) == E[n].kind \in {"not", "and", "or"}

(* What holds of a node if it holds of its operands holds of all.          *)
LEMMA OperandsFirst ==
  ASSUME NEW E, WellFormed(E), NEW T \in SUBSET Nodes(E),
         \A n \in Nodes(E) :
           /\ HasOperand(E, n) => E[n].left \in T
           /\ IsBinary(E, n) => E[n].right \in T
           => n \in T
  PROVE  T = Nodes(E)
<1>1. Len(E) \in Nat
  BY DEF WellFormed
<1>2. ASSUME NEW n \in Nodes(E), \A m \in (n + 1)..Len(E) : m \in T
      PROVE  n \in T
  <2>1. /\ HasOperand(E, n) => E[n].left \in T
        /\ IsBinary(E, n) => E[n].right \in T
    BY <1>2, NodeIs DEF IsBinary, HasOperand
  <2> QED BY <2>1
<1> QED BY <1>1, <1>2, FromTheLeaves DEF Nodes

(* A node that is not the root is the operand of one node, before it.      *)
LEMMA ParentIs ==
  ASSUME NEW E, WellFormed(E), NEW n \in Nodes(E), n # 1
  PROVE  /\ Parent(E, n) \in Nodes(E) /\ Parent(E, n) \in 1..(n - 1)
         /\ HasOperand(E, Parent(E, n))
         /\ n = E[Parent(E, n)].left
              \/ (IsBinary(E, Parent(E, n)) /\ n = E[Parent(E, n)].right)
<1>1. Len(E) \in Nat /\ DOMAIN E = Nodes(E)
  BY DEF WellFormed, Nodes
<1>2. \E m \in DOMAIN E : n \in Operands(E, m)
  BY <1>1 DEF WellFormed
<1>3. Parent(E, n) \in DOMAIN E /\ n \in Operands(E, Parent(E, n))
  BY <1>2, Zenon DEF Parent
<1> DEFINE m == Parent(E, n)
<1> HIDE DEF m
<1>4. m \in Nodes(E) /\ n \in Operands(E, m)
  BY <1>1, <1>3 DEF m
<1>5. n \in (m + 1)..Len(E)
  BY <1>1, <1>4 DEF WellFormed
<1>6. m \in 1..(n - 1)
  BY <1>1, <1>4, <1>5 DEF Nodes
<1>7. HasOperand(E, m) /\ (n = E[m].left \/ (IsBinary(E, m) /\ n = E[m].right))
  <2>1. CASE E[m].kind = "not"
    BY <1>4, <2>1 DEF Operands, HasOperand
  <2>2. CASE E[m].kind \in {"and", "or"}
    <3>1. Operands(E, m) = {E[m].left, E[m].right}
      BY <2>2 DEF Operands
    <3> QED BY <1>4, <2>2, <3>1 DEF HasOperand, IsBinary
  <2>3. CASE E[m].kind \notin {"not", "and", "or"}
    <3>1. Operands(E, m) = {}
      BY <2>3 DEF Operands
    <3> QED BY <1>4, <3>1
  <2> QED BY <2>1, <2>2, <2>3
<1> QED BY <1>4, <1>6, <1>7 DEF m

(* The node of which an operand is one is its parent.                      *)
LEMMA OperandParent ==
  ASSUME NEW E, WellFormed(E), NEW n \in Nodes(E), HasOperand(E, n),
         NEW m, m = E[n].left \/ (IsBinary(E, n) /\ m = E[n].right)
  PROVE  m \in Nodes(E) /\ m # 1 /\ Parent(E, m) = n
<1>1. Len(E) \in Nat /\ DOMAIN E = Nodes(E)
  BY DEF WellFormed, Nodes
<1>2. m \in Operands(E, n)
  BY DEF Operands, HasOperand, IsBinary
<1>3. m \in Nodes(E) /\ m \in (n + 1)..Len(E)
  BY NodeIs DEF HasOperand, IsBinary
<1>4. m # 1
  BY <1>1, <1>3 DEF Nodes
<1>5. \E k \in DOMAIN E : \A j \in DOMAIN E : m \in Operands(E, j) <=> j = k
  <2>1. m \in DOMAIN E \ {1}
    BY <1>1, <1>3, <1>4
  <2> QED BY <2>1, Zenon DEF WellFormed
<1>6. Parent(E, m) \in DOMAIN E /\ m \in Operands(E, Parent(E, m))
  BY <1>5, Zenon DEF Parent
<1> QED BY <1>1, <1>2, <1>3, <1>4, <1>5, <1>6

(* What holds of the root and, if it holds of a node, of its operands holds*)
(* of all.                                                                 *)
LEMMA OperandsLast ==
  ASSUME NEW E, WellFormed(E), NEW T \in SUBSET Nodes(E), 1 \in T,
         \A n \in T : /\ HasOperand(E, n) => E[n].left \in T
                      /\ IsBinary(E, n) => E[n].right \in T
  PROVE  T = Nodes(E)
<1>1. Len(E) \in Nat
  BY DEF WellFormed
<1>2. ASSUME NEW n \in Nodes(E), \A m \in 1..(n - 1) : m \in T
      PROVE  n \in T
  <2>1. CASE n = 1
    BY <2>1
  <2>2. CASE n # 1
    <3>1. /\ Parent(E, n) \in 1..(n - 1) /\ HasOperand(E, Parent(E, n))
          /\ n = E[Parent(E, n)].left
               \/ (IsBinary(E, Parent(E, n)) /\ n = E[Parent(E, n)].right)
      BY <2>2, ParentIs
    <3>2. Parent(E, n) \in T
      BY <1>2, <3>1
    <3> QED BY <3>1, <3>2
  <2> QED BY <2>1, <2>2
<1> QED BY <1>1, <1>2, FromTheRoot DEF Nodes

(* A function on the nodes that computes the value of each from those of   *)
(* earlier nodes exists.                                                   *)
CanDescend(N, V, step) ==
  /\ N \in Nat /\ V # {}
  /\ step \in [(1..N) \X [1..N -> V] -> V]
  /\ \A n \in 1..N : \A f, g \in [1..N -> V] :
       (\A m \in 1..(n - 1) : f[m] = g[m]) => step[<<n, f>>] = step[<<n, g>>]

(* Nodes are given their values from the first to the last.                *)
LEMMA DescentExists ==
  ASSUME NEW N, NEW V, NEW step, CanDescend(N, V, step)
  PROVE  \E f : Recursion(N, V, step, f)
<1> DEFINE F == [1..N -> V]
           At(k) == N + 1 - k
           turned(f) == [k \in 1..N |-> f[At(k)]]
           back == [x \in (1..N) \X F |-> step[<<At(x[1]), turned(x[2])>>]]
<1>1. /\ N \in Nat /\ V # {} /\ step \in [(1..N) \X F -> V]
      /\ \A n \in 1..N : \A f, g \in F :
           (\A m \in 1..(n - 1) : f[m] = g[m]) => step[<<n, f>>] = step[<<n, g>>]
  BY DEF CanDescend
<1>2. \A k \in 1..N : At(k) \in 1..N /\ At(At(k)) = k
  BY <1>1
<1>3. \A f \in F : turned(f) \in F /\ \A k \in 1..N : turned(f)[k] = f[At(k)]
  BY <1>2
<1>4. \A k \in 1..N : \A m \in 1..(At(k) - 1) : m \in 1..N /\ At(m) \in (k + 1)..N
  BY <1>1
<1> HIDE DEF At, F, turned
<1>5. /\ back \in [(1..N) \X F -> V]
      /\ \A k \in 1..N, f \in F : back[<<k, f>>] = step[<<At(k), turned(f)>>]
  BY <1>1, <1>2, <1>3
<1> HIDE DEF back
<1>6. ASSUME NEW k \in 1..N, NEW f \in F, NEW g \in F, \A m \in (k + 1)..N : f[m] = g[m]
      PROVE  back[<<k, f>>] = back[<<k, g>>]
  <2>1. \A m \in 1..(At(k) - 1) : turned(f)[m] = turned(g)[m]
    BY <1>3, <1>4, <1>6
  <2>2. At(k) \in 1..N /\ turned(f) \in F /\ turned(g) \in F
    BY <1>2, <1>3
  <2>3. step[<<At(k), turned(f)>>] = step[<<At(k), turned(g)>>]
    BY <1>1, <2>1, <2>2
  <2> QED BY <1>5, <2>3
<1>7. CanRecur(N, V, back)
  BY <1>1, <1>5, <1>6 DEF CanRecur, F
<1>8. PICK f : Recursion(N, V, back, f)
  BY <1>7, RecursionExists
<1>9. f \in F /\ \A k \in 1..N : f[k] = step[<<At(k), turned(f)>>]
  BY <1>5, <1>8 DEF Recursion, F
<1>10. \A n \in 1..N : turned(f)[n] = step[<<n, turned(f)>>]
  BY <1>2, <1>3, <1>9
<1> QED BY <1>3, <1>9, <1>10 DEF Recursion, F

(* containsCondition is computed from the leaves to the root.              *)
LEMMA BelowComputed ==
  ASSUME NEW E, WellFormed(E)
  PROVE  /\ Below(E) \in [Nodes(E) -> SUBSET Conditions(E)]
         /\ \A n \in Nodes(E) :
              /\ E[n].kind = "condition" => Below(E)[n] = {E[n].index}
              /\ E[n].kind = "constant" => Below(E)[n] = {}
              /\ E[n].kind = "not" => Below(E)[n] = Below(E)[E[n].left]
              /\ IsBinary(E, n) => Below(E)[n] = Below(E)[E[n].left] \cup Below(E)[E[n].right]
<1> DEFINE V == SUBSET Conditions(E)
           At(n, f) == IF E[n].kind = "condition" THEN {E[n].index}
                       ELSE UNION {f[m] : m \in Operands(E, n)}
           F == [Nodes(E) -> V]
           step == [x \in Nodes(E) \X F |-> At(x[1], x[2])]
           Body(g) == [n \in DOMAIN E |-> At(n, g)]
           O == Below(E)
<1>1. Len(E) \in Nat /\ DOMAIN E = Nodes(E)
  BY DEF WellFormed, Nodes
<1>2. \A n \in Nodes(E) :
        /\ E[n].kind \in {"condition", "constant", "not", "and", "or"}
        /\ E[n].kind = "condition" => E[n].index \in Conditions(E)
        /\ E[n].kind = "constant" => E[n].constant \in BOOLEAN
        /\ HasOperand(E, n) => E[n].left \in (n + 1)..Len(E) /\ E[n].left \in Nodes(E)
        /\ IsBinary(E, n) => E[n].right \in (n + 1)..Len(E) /\ E[n].right \in Nodes(E)
  BY NodeIs DEF HasOperand, IsBinary
<1>3. ASSUME NEW n \in Nodes(E), NEW f, \A m \in (n + 1)..Len(E) : f[m] \in V
      PROVE  At(n, f) \in V
  <2>1. \A m \in Operands(E, n) : m \in (n + 1)..Len(E)
    BY <1>1 DEF WellFormed
  <2> QED BY <1>2, <1>3, <2>1
<1>4. ASSUME NEW n \in Nodes(E), NEW f \in F, NEW g \in F,
             \A m \in (n + 1)..Len(E) : f[m] = g[m]
      PROVE  At(n, f) = At(n, g)
  <2>1. HasOperand(E, n) => f[E[n].left] = g[E[n].left]
    BY <1>2, <1>4
  <2>2. IsBinary(E, n) => f[E[n].right] = g[E[n].right]
    BY <1>2, <1>4
  <2>3. \A m \in Operands(E, n) : f[m] = g[m]
    BY <1>1, <1>4 DEF WellFormed
  <2> QED BY <2>3
<1>5. \E f : f = Body(f)
  <2>1. \A n \in Nodes(E), f \in F : step[<<n, f>>] = At(n, f) /\ At(n, f) \in V
    <3>1. \A n \in Nodes(E) : \A m \in (n + 1)..Len(E) : m \in Nodes(E)
      BY <1>1 DEF Nodes
    <3>2. ASSUME NEW n \in Nodes(E), NEW f \in F
          PROVE  At(n, f) \in V
      <4> HIDE DEF At, V
      <4> QED BY <1>3, <3>1
    <3> HIDE DEF At, V
    <3> QED BY <3>2
  <2>2. V # {} /\ step \in [Nodes(E) \X F -> V]
    <3>1. V # {}
      OBVIOUS
    <3> HIDE DEF At, V
    <3> QED BY <2>1, <3>1
  <2> HIDE DEF At, step, V
  <2>3. \A n \in Nodes(E) : \A f, g \in F :
          (\A m \in (n + 1)..Len(E) : f[m] = g[m]) => step[<<n, f>>] = step[<<n, g>>]
    BY <1>4, <2>1
  <2>4. CanRecur(Len(E), V, step)
    BY <1>1, <2>2, <2>3 DEF CanRecur, Nodes
  <2>5. PICK f : Recursion(Len(E), V, step, f)
    BY <2>4, RecursionExists
  <2>6. f \in F /\ \A n \in Nodes(E) : f[n] = At(n, f)
    BY <2>1, <2>5 DEF Recursion, Nodes
  <2> QED BY <1>1, <2>6
<1>6. O = Body(O)
  <2>1. O = CHOOSE g : g = Body(g)
    BY Zenon DEF Below
  <2> HIDE DEF O, Body
  <2> QED BY <1>5, <2>1
<1>7. DOMAIN O = Nodes(E) /\ O = [n \in Nodes(E) |-> O[n]] /\ \A n \in Nodes(E) : O[n] = At(n, O)
  <2> HIDE DEF O, At
  <2> QED BY <1>1, <1>6
<1>8. O \in F
  <2> DEFINE T == {n \in Nodes(E) : O[n] \in V}
  <2>1. /\ T \in SUBSET (1..Len(E))
        /\ \A n \in 1..Len(E) : (\A m \in (n + 1)..Len(E) : m \in T) => n \in T
    <3> HIDE DEF O, At, V
    <3> QED BY <1>3, <1>7 DEF Nodes
  <2>2. T = Nodes(E)
    <3> HIDE DEF T
    <3> QED BY <1>1, <2>1, FromTheLeaves DEF Nodes
  <2>3. \A n \in Nodes(E) : O[n] \in V
    <3> HIDE DEF O, V
    <3> QED BY <2>2
  <2> HIDE DEF O, V
  <2> QED BY <1>7, <2>3
<1>9. ASSUME NEW n \in Nodes(E)
      PROVE  /\ E[n].kind = "condition" => O[n] = {E[n].index}
             /\ E[n].kind = "constant" => O[n] = {}
             /\ E[n].kind = "not" => O[n] = O[E[n].left]
             /\ IsBinary(E, n) => O[n] = O[E[n].left] \cup O[E[n].right]
  <2>1. O[n] = At(n, O)
    BY <1>7
  <2> HIDE DEF O
  <2>2. E[n].kind = "constant" => Operands(E, n) = {}
    BY DEF Operands
  <2>3. E[n].kind = "not" => Operands(E, n) = {E[n].left}
    BY DEF Operands
  <2>4. IsBinary(E, n) => Operands(E, n) = {E[n].left, E[n].right}
    BY DEF Operands, IsBinary
  <2>5. UNION {B : B \in {}} = {} /\ \A b : UNION {b} = b
    OBVIOUS
  <2>6. E[n].kind = "constant" => O[n] = UNION {O[m] : m \in {}}
    BY <2>1, <2>2
  <2>7. E[n].kind = "not" => O[n] = UNION {O[m] : m \in {E[n].left}}
    BY <2>1, <2>3
  <2>8. IsBinary(E, n) => O[n] = UNION {O[m] : m \in {E[n].left, E[n].right}}
    BY <2>1, <2>4 DEF IsBinary
  <2>9. IsBinary(E, n) => O[n] = O[E[n].left] \cup O[E[n].right]
    BY <2>8
  <2>10. E[n].kind = "not" => O[n] = O[E[n].left]
    BY <2>7
  <2>11. E[n].kind = "constant" => O[n] = {}
    BY <2>6
  <2> QED BY <2>1, <2>9, <2>10, <2>11
<1> QED BY <1>8, <1>9

(* evaluateObserved is computed from the leaves to the root.               *)
LEMMA OutcomesComputed ==
  ASSUME NEW E, NEW s, WellFormed(E)
  PROVE  /\ NodeOutcomes(E, s) \in [Nodes(E) -> SUBSET BOOLEAN]
         /\ \A n \in Nodes(E) :
              /\ E[n].kind = "condition" =>
                   NodeOutcomes(E, s)[n] = {b \in BOOLEAN : s[E[n].index] = StateOf(b)}
              /\ E[n].kind = "constant" => NodeOutcomes(E, s)[n] = {E[n].constant}
              /\ E[n].kind = "not" =>
                   NodeOutcomes(E, s)[n] = {~b : b \in NodeOutcomes(E, s)[E[n].left]}
              /\ IsBinary(E, n) =>
                   NodeOutcomes(E, s)[n] =
                     {b \in BOOLEAN :
                        \E l \in NodeOutcomes(E, s)[E[n].left] :
                          IF l = (E[n].kind = "or") THEN b = l /\ Skipped(E, s, E[n].right)
                          ELSE b \in NodeOutcomes(E, s)[E[n].right]}
<1> DEFINE V == SUBSET BOOLEAN
           At(n, f) ==
             IF E[n].kind = "condition"
             THEN {b \in BOOLEAN : s[E[n].index] = StateOf(b)}
             ELSE IF E[n].kind = "constant" THEN {E[n].constant}
             ELSE IF E[n].kind = "not" THEN {~b : b \in f[E[n].left]}
             ELSE {b \in BOOLEAN :
                     \E l \in f[E[n].left] :
                       IF l = (E[n].kind = "or")
                       THEN b = l /\ \A i \in Below(E)[E[n].right] : s[i] = "notEvaluated"
                       ELSE b \in f[E[n].right]}
           F == [Nodes(E) -> V]
           step == [x \in Nodes(E) \X F |-> At(x[1], x[2])]
           Body(g) == [n \in DOMAIN E |-> At(n, g)]
           O == NodeOutcomes(E, s)
<1>1. Len(E) \in Nat /\ DOMAIN E = Nodes(E)
  BY DEF WellFormed, Nodes
<1>2. \A n \in Nodes(E) :
        /\ E[n].kind \in {"condition", "constant", "not", "and", "or"}
        /\ E[n].kind = "condition" => E[n].index \in Conditions(E)
        /\ E[n].kind = "constant" => E[n].constant \in BOOLEAN
        /\ HasOperand(E, n) => E[n].left \in (n + 1)..Len(E) /\ E[n].left \in Nodes(E)
        /\ IsBinary(E, n) => E[n].right \in (n + 1)..Len(E) /\ E[n].right \in Nodes(E)
  BY NodeIs DEF HasOperand, IsBinary
<1>3. ASSUME NEW n \in Nodes(E), NEW f, \A m \in (n + 1)..Len(E) : f[m] \in V
      PROVE  At(n, f) \in V
  BY <1>2, <1>3 DEF HasOperand, IsBinary
<1>4. ASSUME NEW n \in Nodes(E), NEW f \in F, NEW g \in F,
             \A m \in (n + 1)..Len(E) : f[m] = g[m]
      PROVE  At(n, f) = At(n, g)
  <2>1. HasOperand(E, n) => f[E[n].left] = g[E[n].left]
    BY <1>2, <1>4
  <2>2. IsBinary(E, n) => f[E[n].right] = g[E[n].right]
    BY <1>2, <1>4
  <2> QED BY <1>2, <2>1, <2>2 DEF HasOperand, IsBinary
<1>5. \E f : f = Body(f)
  <2>1. \A n \in Nodes(E), f \in F : step[<<n, f>>] = At(n, f) /\ At(n, f) \in V
    <3>1. \A n \in Nodes(E) : \A m \in (n + 1)..Len(E) : m \in Nodes(E)
      BY <1>1 DEF Nodes
    <3>2. ASSUME NEW n \in Nodes(E), NEW f \in F
          PROVE  At(n, f) \in V
      <4> HIDE DEF At, V
      <4> QED BY <1>3, <3>1
    <3> HIDE DEF At, V
    <3> QED BY <3>2
  <2>2. V # {} /\ step \in [Nodes(E) \X F -> V]
    <3>1. V # {}
      OBVIOUS
    <3> HIDE DEF At, V
    <3> QED BY <2>1, <3>1
  <2> HIDE DEF At, step, V
  <2>3. \A n \in Nodes(E) : \A f, g \in F :
          (\A m \in (n + 1)..Len(E) : f[m] = g[m]) => step[<<n, f>>] = step[<<n, g>>]
    BY <1>4, <2>1
  <2>4. CanRecur(Len(E), V, step)
    BY <1>1, <2>2, <2>3 DEF CanRecur, Nodes
  <2>5. PICK f : Recursion(Len(E), V, step, f)
    BY <2>4, RecursionExists
  <2>6. f \in F /\ \A n \in Nodes(E) : f[n] = At(n, f)
    BY <2>1, <2>5 DEF Recursion, Nodes
  <2> QED BY <1>1, <2>6
<1>6. O = Body(O)
  <2>1. O = CHOOSE g : g = Body(g)
    BY Zenon DEF NodeOutcomes
  <2> HIDE DEF O, Body
  <2> QED BY <1>5, <2>1
<1>7. DOMAIN O = Nodes(E) /\ O = [n \in Nodes(E) |-> O[n]] /\ \A n \in Nodes(E) : O[n] = At(n, O)
  <2> HIDE DEF O, At
  <2> QED BY <1>1, <1>6
<1>8. O \in F
  <2> DEFINE T == {n \in Nodes(E) : O[n] \in V}
  <2>1. /\ T \in SUBSET (1..Len(E))
        /\ \A n \in 1..Len(E) : (\A m \in (n + 1)..Len(E) : m \in T) => n \in T
    <3> HIDE DEF O, At, V
    <3> QED BY <1>3, <1>7 DEF Nodes
  <2>2. T = Nodes(E)
    <3> HIDE DEF T
    <3> QED BY <1>1, <2>1, FromTheLeaves DEF Nodes
  <2>3. \A n \in Nodes(E) : O[n] \in V
    <3> HIDE DEF O, V
    <3> QED BY <2>2
  <2> HIDE DEF O, V
  <2> QED BY <1>7, <2>3
<1>9. ASSUME NEW n \in Nodes(E)
      PROVE  /\ E[n].kind = "condition" =>
                  O[n] = {b \in BOOLEAN : s[E[n].index] = StateOf(b)}
             /\ E[n].kind = "constant" => O[n] = {E[n].constant}
             /\ E[n].kind = "not" =>
                  O[n] = {~b : b \in O[E[n].left]}
             /\ IsBinary(E, n) =>
                  O[n] =
                    {b \in BOOLEAN :
                       \E l \in O[E[n].left] :
                         IF l = (E[n].kind = "or") THEN b = l /\ Skipped(E, s, E[n].right)
                         ELSE b \in O[E[n].right]}
  <2>1. O[n] = At(n, O)
    BY <1>7
  <2> HIDE DEF O
  <2> QED BY <2>1 DEF IsBinary, Skipped
<1> QED BY <1>8, <1>9

(* evaluateFull is computed from the leaves to the root.                   *)
LEMMA ValuesComputed ==
  ASSUME NEW E, NEW z, WellFormed(E), z \in Assignments(E)
  PROVE  /\ NodeValues(E, z) \in [Nodes(E) -> BOOLEAN]
         /\ \A n \in Nodes(E) :
              /\ E[n].kind = "condition" => NodeValues(E, z)[n] = z[E[n].index]
              /\ E[n].kind = "constant" => NodeValues(E, z)[n] = E[n].constant
              /\ E[n].kind = "not" => NodeValues(E, z)[n] = ~NodeValues(E, z)[E[n].left]
              /\ E[n].kind = "and" =>
                   NodeValues(E, z)[n] = (NodeValues(E, z)[E[n].left] /\ NodeValues(E, z)[E[n].right])
              /\ E[n].kind = "or" =>
                   NodeValues(E, z)[n] = (NodeValues(E, z)[E[n].left] \/ NodeValues(E, z)[E[n].right])
<1> DEFINE V == BOOLEAN
           At(n, f) ==
             IF E[n].kind = "condition" THEN z[E[n].index]
             ELSE IF E[n].kind = "constant" THEN E[n].constant
             ELSE IF E[n].kind = "not" THEN ~f[E[n].left]
             ELSE IF E[n].kind = "and" THEN f[E[n].left] /\ f[E[n].right]
             ELSE f[E[n].left] \/ f[E[n].right]
           F == [Nodes(E) -> V]
           step == [x \in Nodes(E) \X F |-> At(x[1], x[2])]
           Body(g) == [n \in DOMAIN E |-> At(n, g)]
           O == NodeValues(E, z)
<1>1. Len(E) \in Nat /\ DOMAIN E = Nodes(E)
  BY DEF WellFormed, Nodes
<1>2. \A n \in Nodes(E) :
        /\ E[n].kind \in {"condition", "constant", "not", "and", "or"}
        /\ E[n].kind = "condition" => E[n].index \in Conditions(E)
        /\ E[n].kind = "constant" => E[n].constant \in BOOLEAN
        /\ HasOperand(E, n) => E[n].left \in (n + 1)..Len(E) /\ E[n].left \in Nodes(E)
        /\ IsBinary(E, n) => E[n].right \in (n + 1)..Len(E) /\ E[n].right \in Nodes(E)
  BY NodeIs DEF HasOperand, IsBinary
<1>3. ASSUME NEW n \in Nodes(E), NEW f, \A m \in (n + 1)..Len(E) : f[m] \in V
      PROVE  At(n, f) \in V
  <2>1. E[n].kind = "condition" => z[E[n].index] \in BOOLEAN
    BY <1>2 DEF Assignments
  <2> QED BY <1>2, <1>3, <2>1 DEF HasOperand, IsBinary
<1>4. ASSUME NEW n \in Nodes(E), NEW f \in F, NEW g \in F,
             \A m \in (n + 1)..Len(E) : f[m] = g[m]
      PROVE  At(n, f) = At(n, g)
  <2>1. HasOperand(E, n) => f[E[n].left] = g[E[n].left]
    BY <1>2, <1>4
  <2>2. IsBinary(E, n) => f[E[n].right] = g[E[n].right]
    BY <1>2, <1>4
  <2> QED BY <1>2, <2>1, <2>2 DEF HasOperand, IsBinary
<1>5. \E f : f = Body(f)
  <2>1. \A n \in Nodes(E), f \in F : step[<<n, f>>] = At(n, f) /\ At(n, f) \in V
    <3>1. \A n \in Nodes(E) : \A m \in (n + 1)..Len(E) : m \in Nodes(E)
      BY <1>1 DEF Nodes
    <3>2. ASSUME NEW n \in Nodes(E), NEW f \in F
          PROVE  At(n, f) \in V
      <4> HIDE DEF At, V
      <4> QED BY <1>3, <3>1
    <3> HIDE DEF At, V
    <3> QED BY <3>2
  <2>2. V # {} /\ step \in [Nodes(E) \X F -> V]
    <3>1. V # {}
      OBVIOUS
    <3> HIDE DEF At, V
    <3> QED BY <2>1, <3>1
  <2> HIDE DEF At, step, V
  <2>3. \A n \in Nodes(E) : \A f, g \in F :
          (\A m \in (n + 1)..Len(E) : f[m] = g[m]) => step[<<n, f>>] = step[<<n, g>>]
    BY <1>4, <2>1
  <2>4. CanRecur(Len(E), V, step)
    BY <1>1, <2>2, <2>3 DEF CanRecur, Nodes
  <2>5. PICK f : Recursion(Len(E), V, step, f)
    BY <2>4, RecursionExists
  <2>6. f \in F /\ \A n \in Nodes(E) : f[n] = At(n, f)
    BY <2>1, <2>5 DEF Recursion, Nodes
  <2> QED BY <1>1, <2>6
<1>6. O = Body(O)
  <2>1. O = CHOOSE g : g = Body(g)
    BY DEF NodeValues
  <2> HIDE DEF O, Body
  <2> QED BY <1>5, <2>1
<1>7. DOMAIN O = Nodes(E) /\ O = [n \in Nodes(E) |-> O[n]] /\ \A n \in Nodes(E) : O[n] = At(n, O)
  <2> HIDE DEF O, At
  <2> QED BY <1>1, <1>6
<1>8. O \in F
  <2> DEFINE T == {n \in Nodes(E) : O[n] \in V}
  <2>1. /\ T \in SUBSET (1..Len(E))
        /\ \A n \in 1..Len(E) : (\A m \in (n + 1)..Len(E) : m \in T) => n \in T
    <3> HIDE DEF O, At, V
    <3> QED BY <1>3, <1>7 DEF Nodes
  <2>2. T = Nodes(E)
    <3> HIDE DEF T
    <3> QED BY <1>1, <2>1, FromTheLeaves DEF Nodes
  <2>3. \A n \in Nodes(E) : O[n] \in V
    <3> HIDE DEF O, V
    <3> QED BY <2>2
  <2> HIDE DEF O, V
  <2> QED BY <1>7, <2>3
<1>9. ASSUME NEW n \in Nodes(E)
      PROVE  /\ E[n].kind = "condition" => O[n] = z[E[n].index]
             /\ E[n].kind = "constant" => O[n] = E[n].constant
             /\ E[n].kind = "not" => O[n] = ~O[E[n].left]
             /\ E[n].kind = "and" =>
                  O[n] = (O[E[n].left] /\ O[E[n].right])
             /\ E[n].kind = "or" =>
                  O[n] = (O[E[n].left] \/ O[E[n].right])
  <2>1. O[n] = At(n, O)
    BY <1>7
  <2> HIDE DEF O
  <2> QED BY <2>1
<1> QED BY <1>8, <1>9

(* computeFeasibility is computed from the leaves to the root.             *)
LEMMA FeasibleComputed ==
  ASSUME NEW E, NEW s, WellFormed(E)
  PROVE  /\ Feasible(E, s) \in [Nodes(E) -> SUBSET BOOLEAN]
         /\ \A n \in Nodes(E) :
              /\ E[n].kind = "condition" =>
                   Feasible(E, s)[n] = {b \in BOOLEAN : s[E[n].index] \in {"notEvaluated", StateOf(b)}}
              /\ E[n].kind = "constant" => Feasible(E, s)[n] = {E[n].constant}
              /\ E[n].kind = "not" => Feasible(E, s)[n] = {~b : b \in Feasible(E, s)[E[n].left]}
              /\ IsBinary(E, n) =>
                   Feasible(E, s)[n] =
                     {IF E[n].kind = "and" THEN l /\ r ELSE l \/ r :
                        l \in Feasible(E, s)[E[n].left], r \in Feasible(E, s)[E[n].right]}
<1> DEFINE V == SUBSET BOOLEAN
           At(n, f) ==
             IF E[n].kind = "condition"
             THEN {b \in BOOLEAN : s[E[n].index] \in {"notEvaluated", StateOf(b)}}
             ELSE IF E[n].kind = "constant" THEN {E[n].constant}
             ELSE IF E[n].kind = "not" THEN {~b : b \in f[E[n].left]}
             ELSE {IF E[n].kind = "and" THEN l /\ r ELSE l \/ r :
                     l \in f[E[n].left], r \in f[E[n].right]}
           F == [Nodes(E) -> V]
           step == [x \in Nodes(E) \X F |-> At(x[1], x[2])]
           Body(g) == [n \in DOMAIN E |-> At(n, g)]
           O == Feasible(E, s)
<1>1. Len(E) \in Nat /\ DOMAIN E = Nodes(E)
  BY DEF WellFormed, Nodes
<1>2. \A n \in Nodes(E) :
        /\ E[n].kind \in {"condition", "constant", "not", "and", "or"}
        /\ E[n].kind = "condition" => E[n].index \in Conditions(E)
        /\ E[n].kind = "constant" => E[n].constant \in BOOLEAN
        /\ HasOperand(E, n) => E[n].left \in (n + 1)..Len(E) /\ E[n].left \in Nodes(E)
        /\ IsBinary(E, n) => E[n].right \in (n + 1)..Len(E) /\ E[n].right \in Nodes(E)
  BY NodeIs DEF HasOperand, IsBinary
<1>3. ASSUME NEW n \in Nodes(E), NEW f, \A m \in (n + 1)..Len(E) : f[m] \in V
      PROVE  At(n, f) \in V
  <2>1. CASE E[n].kind = "not"
    <3>1. f[E[n].left] \in V
      BY <1>2, <1>3, <2>1 DEF HasOperand
    <3>2. At(n, f) = {~b : b \in f[E[n].left]}
      BY <2>1
    <3>3. {~b : b \in f[E[n].left]} \in V
      BY <3>1
    <3> HIDE DEF At
    <3> QED BY <3>2, <3>3
  <2>2. CASE IsBinary(E, n)
    <3>1. f[E[n].left] \in V /\ f[E[n].right] \in V
      BY <1>2, <1>3, <2>2 DEF HasOperand, IsBinary
    <3>2. CASE E[n].kind = "and"
      <4>1. At(n, f) = {l /\ r : l \in f[E[n].left], r \in f[E[n].right]}
        BY <3>2
      <4>2. {l /\ r : l \in f[E[n].left], r \in f[E[n].right]} \in V
        BY <3>1
      <4> HIDE DEF At
      <4> QED BY <4>1, <4>2
    <3>3. CASE E[n].kind = "or"
      <4>1. At(n, f) = {l \/ r : l \in f[E[n].left], r \in f[E[n].right]}
        BY <3>3
      <4>2. {l \/ r : l \in f[E[n].left], r \in f[E[n].right]} \in V
        BY <3>1
      <4> HIDE DEF At
      <4> QED BY <4>1, <4>2
    <3> QED BY <2>2, <3>2, <3>3 DEF IsBinary
  <2> QED BY <1>2, <2>1, <2>2 DEF IsBinary
<1>4. ASSUME NEW n \in Nodes(E), NEW f \in F, NEW g \in F,
             \A m \in (n + 1)..Len(E) : f[m] = g[m]
      PROVE  At(n, f) = At(n, g)
  <2>1. HasOperand(E, n) => f[E[n].left] = g[E[n].left]
    BY <1>2, <1>4
  <2>2. IsBinary(E, n) => f[E[n].right] = g[E[n].right]
    BY <1>2, <1>4
  <2>3. CASE E[n].kind = "not"
    BY <2>1, <2>3 DEF HasOperand
  <2>4. CASE IsBinary(E, n)
    <3>1. f[E[n].left] = g[E[n].left] /\ f[E[n].right] = g[E[n].right]
      BY <2>1, <2>2, <2>4 DEF HasOperand, IsBinary
    <3> QED BY <2>4, <3>1 DEF IsBinary
  <2> QED BY <1>2, <2>3, <2>4 DEF IsBinary
<1>5. \E f : f = Body(f)
  <2>1. \A n \in Nodes(E), f \in F : step[<<n, f>>] = At(n, f) /\ At(n, f) \in V
    <3>1. \A n \in Nodes(E) : \A m \in (n + 1)..Len(E) : m \in Nodes(E)
      BY <1>1 DEF Nodes
    <3>2. ASSUME NEW n \in Nodes(E), NEW f \in F
          PROVE  At(n, f) \in V
      <4> HIDE DEF At, V
      <4> QED BY <1>3, <3>1
    <3> HIDE DEF At, V
    <3> QED BY <3>2
  <2>2. V # {} /\ step \in [Nodes(E) \X F -> V]
    <3>1. V # {}
      OBVIOUS
    <3> HIDE DEF At, V
    <3> QED BY <2>1, <3>1
  <2> HIDE DEF At, step, V
  <2>3. \A n \in Nodes(E) : \A f, g \in F :
          (\A m \in (n + 1)..Len(E) : f[m] = g[m]) => step[<<n, f>>] = step[<<n, g>>]
    BY <1>4, <2>1
  <2>4. CanRecur(Len(E), V, step)
    BY <1>1, <2>2, <2>3 DEF CanRecur, Nodes
  <2>5. PICK f : Recursion(Len(E), V, step, f)
    BY <2>4, RecursionExists
  <2>6. f \in F /\ \A n \in Nodes(E) : f[n] = At(n, f)
    BY <2>1, <2>5 DEF Recursion, Nodes
  <2> QED BY <1>1, <2>6
<1>6. O = Body(O)
  <2>1. O = CHOOSE g : g = Body(g)
    BY DEF Feasible
  <2> HIDE DEF O, Body
  <2> QED BY <1>5, <2>1
<1>7. DOMAIN O = Nodes(E) /\ O = [n \in Nodes(E) |-> O[n]] /\ \A n \in Nodes(E) : O[n] = At(n, O)
  <2> HIDE DEF O, At
  <2> QED BY <1>1, <1>6
<1>8. O \in F
  <2> DEFINE T == {n \in Nodes(E) : O[n] \in V}
  <2>1. /\ T \in SUBSET (1..Len(E))
        /\ \A n \in 1..Len(E) : (\A m \in (n + 1)..Len(E) : m \in T) => n \in T
    <3> HIDE DEF O, At, V
    <3> QED BY <1>3, <1>7 DEF Nodes
  <2>2. T = Nodes(E)
    <3> HIDE DEF T
    <3> QED BY <1>1, <2>1, FromTheLeaves DEF Nodes
  <2>3. \A n \in Nodes(E) : O[n] \in V
    <3> HIDE DEF O, V
    <3> QED BY <2>2
  <2> HIDE DEF O, V
  <2> QED BY <1>7, <2>3
<1>9. ASSUME NEW n \in Nodes(E)
      PROVE  /\ E[n].kind = "condition" =>
                  O[n] = {b \in BOOLEAN : s[E[n].index] \in {"notEvaluated", StateOf(b)}}
             /\ E[n].kind = "constant" => O[n] = {E[n].constant}
             /\ E[n].kind = "not" => O[n] = {~b : b \in O[E[n].left]}
             /\ IsBinary(E, n) =>
                  O[n] =
                    {IF E[n].kind = "and" THEN l /\ r ELSE l \/ r :
                       l \in O[E[n].left], r \in O[E[n].right]}
  <2>1. O[n] = At(n, O)
    BY <1>7
  <2> HIDE DEF O
  <2> QED BY <2>1 DEF IsBinary
<1> QED BY <1>8, <1>9

(* findPivotalPath is computed from the target to the root.                *)
LEMMA PathsComputed ==
  ASSUME NEW E, NEW i, WellFormed(E)
  PROVE  /\ PivotalPaths(E, i) \in [Nodes(E) -> SUBSET [sibling : Nodes(E), desired : BOOLEAN]]
         /\ \A n \in Nodes(E) :
              /\ E[n].kind \in {"condition", "constant"} => PivotalPaths(E, i)[n] = {}
              /\ E[n].kind = "not" => PivotalPaths(E, i)[n] = PivotalPaths(E, i)[E[n].left]
              /\ IsBinary(E, n) =>
                   PivotalPaths(E, i)[n] =
                     IF i \in Below(E)[E[n].left]
                     THEN PivotalPaths(E, i)[E[n].left]
                            \cup {[sibling |-> E[n].right, desired |-> NeutralValue(E[n].kind)]}
                     ELSE PivotalPaths(E, i)[E[n].right]
                            \cup {[sibling |-> E[n].left, desired |-> NeutralValue(E[n].kind)]}
<1> DEFINE V == SUBSET [sibling : Nodes(E), desired : BOOLEAN]
           onPath(n) == i \in Below(E)[E[n].left]
           At(n, f) ==
             IF E[n].kind \in {"condition", "constant"} THEN {}
             ELSE IF E[n].kind = "not" THEN f[E[n].left]
             ELSE f[IF onPath(n) THEN E[n].left ELSE E[n].right]
                    \cup {[sibling |-> IF onPath(n) THEN E[n].right ELSE E[n].left,
                           desired |-> NeutralValue(E[n].kind)]}
           F == [Nodes(E) -> V]
           step == [x \in Nodes(E) \X F |-> At(x[1], x[2])]
           Body(g) == [n \in DOMAIN E |-> At(n, g)]
           O == PivotalPaths(E, i)
<1>1. Len(E) \in Nat /\ DOMAIN E = Nodes(E)
  BY DEF WellFormed, Nodes
<1>2. \A n \in Nodes(E) :
        /\ E[n].kind \in {"condition", "constant", "not", "and", "or"}
        /\ E[n].kind = "condition" => E[n].index \in Conditions(E)
        /\ E[n].kind = "constant" => E[n].constant \in BOOLEAN
        /\ HasOperand(E, n) => E[n].left \in (n + 1)..Len(E) /\ E[n].left \in Nodes(E)
        /\ IsBinary(E, n) => E[n].right \in (n + 1)..Len(E) /\ E[n].right \in Nodes(E)
  BY NodeIs DEF HasOperand, IsBinary
<1>3. ASSUME NEW n \in Nodes(E), NEW f, \A m \in (n + 1)..Len(E) : f[m] \in V
      PROVE  At(n, f) \in V
  <2>1. CASE E[n].kind \in {"condition", "constant"}
    BY <2>1
  <2>2. CASE E[n].kind = "not"
    BY <1>2, <1>3, <2>2 DEF HasOperand
  <2>3. CASE IsBinary(E, n)
    <3> DEFINE on == IF onPath(n) THEN E[n].left ELSE E[n].right
               off == IF onPath(n) THEN E[n].right ELSE E[n].left
               asked == [sibling |-> off, desired |-> NeutralValue(E[n].kind)]
    <3>1. on \in (n + 1)..Len(E) /\ off \in Nodes(E)
      BY <1>2, <2>3 DEF IsBinary, HasOperand
    <3>2. NeutralValue(E[n].kind) \in BOOLEAN
      BY DEF NeutralValue
    <3>3. At(n, f) = f[on] \cup {asked}
      BY <2>3 DEF IsBinary
    <3>4. f[on] \in V
      <4> HIDE DEF on, V
      <4> QED BY <1>3, <3>1
    <3>5. asked \in [sibling : Nodes(E), desired : BOOLEAN]
      <4> HIDE DEF off
      <4> QED BY <3>1, <3>2
    <3> HIDE DEF on, asked, At
    <3> QED BY <3>3, <3>4, <3>5
  <2> QED BY <1>2, <2>1, <2>2, <2>3 DEF IsBinary
<1>4. ASSUME NEW n \in Nodes(E), NEW f \in F, NEW g \in F,
             \A m \in (n + 1)..Len(E) : f[m] = g[m]
      PROVE  At(n, f) = At(n, g)
  <2>1. HasOperand(E, n) => f[E[n].left] = g[E[n].left]
    BY <1>2, <1>4
  <2>2. IsBinary(E, n) => f[E[n].right] = g[E[n].right]
    BY <1>2, <1>4
  <2> QED BY <1>2, <2>1, <2>2 DEF HasOperand, IsBinary
<1>5. \E f : f = Body(f)
  <2>1. \A n \in Nodes(E), f \in F : step[<<n, f>>] = At(n, f) /\ At(n, f) \in V
    <3>1. \A n \in Nodes(E) : \A m \in (n + 1)..Len(E) : m \in Nodes(E)
      BY <1>1 DEF Nodes
    <3>2. ASSUME NEW n \in Nodes(E), NEW f \in F
          PROVE  At(n, f) \in V
      <4> HIDE DEF At, V
      <4> QED BY <1>3, <3>1
    <3> HIDE DEF At, V
    <3> QED BY <3>2
  <2>2. V # {} /\ step \in [Nodes(E) \X F -> V]
    <3>1. V # {}
      OBVIOUS
    <3> HIDE DEF At, V
    <3> QED BY <2>1, <3>1
  <2> HIDE DEF At, step, V
  <2>3. \A n \in Nodes(E) : \A f, g \in F :
          (\A m \in (n + 1)..Len(E) : f[m] = g[m]) => step[<<n, f>>] = step[<<n, g>>]
    BY <1>4, <2>1
  <2>4. CanRecur(Len(E), V, step)
    BY <1>1, <2>2, <2>3 DEF CanRecur, Nodes
  <2>5. PICK f : Recursion(Len(E), V, step, f)
    BY <2>4, RecursionExists
  <2>6. f \in F /\ \A n \in Nodes(E) : f[n] = At(n, f)
    BY <2>1, <2>5 DEF Recursion, Nodes
  <2> QED BY <1>1, <2>6
<1>6. O = Body(O)
  <2>1. O = CHOOSE g : g = Body(g)
    BY Zenon DEF PivotalPaths
  <2> HIDE DEF O, Body
  <2> QED BY <1>5, <2>1
<1>7. DOMAIN O = Nodes(E) /\ O = [n \in Nodes(E) |-> O[n]] /\ \A n \in Nodes(E) : O[n] = At(n, O)
  <2> HIDE DEF O, At
  <2> QED BY <1>1, <1>6
<1>8. O \in F
  <2> DEFINE T == {n \in Nodes(E) : O[n] \in V}
  <2>1. /\ T \in SUBSET (1..Len(E))
        /\ \A n \in 1..Len(E) : (\A m \in (n + 1)..Len(E) : m \in T) => n \in T
    <3> HIDE DEF O, At, V
    <3> QED BY <1>3, <1>7 DEF Nodes
  <2>2. T = Nodes(E)
    <3> HIDE DEF T
    <3> QED BY <1>1, <2>1, FromTheLeaves DEF Nodes
  <2>3. \A n \in Nodes(E) : O[n] \in V
    <3> HIDE DEF O, V
    <3> QED BY <2>2
  <2> HIDE DEF O, V
  <2> QED BY <1>7, <2>3
<1>9. ASSUME NEW n \in Nodes(E)
      PROVE  /\ E[n].kind \in {"condition", "constant"} => O[n] = {}
             /\ E[n].kind = "not" => O[n] = O[E[n].left]
             /\ IsBinary(E, n) =>
                  O[n] =
                    IF i \in Below(E)[E[n].left]
                    THEN O[E[n].left]
                           \cup {[sibling |-> E[n].right, desired |-> NeutralValue(E[n].kind)]}
                    ELSE O[E[n].right]
                           \cup {[sibling |-> E[n].left, desired |-> NeutralValue(E[n].kind)]}
  <2>1. O[n] = At(n, O)
    BY <1>7
  <2> HIDE DEF O
  <2> QED BY <2>1 DEF IsBinary
<1> QED BY <1>8, <1>9

(* solve: the possible states are computed from the leaves to the root.    *)
LEMMA PossibleComputed ==
  ASSUME NEW E, NEW p, NEW q, NEW i, WellFormed(E)
  PROVE  /\ Possible(E, p, q, i) \in [Nodes(E) -> SUBSET JointStates]
         /\ \A n \in Nodes(E) :
              /\ E[n].kind = "condition" =>
                   Possible(E, p, q, i)[n] = {st \in JointStates : LeafPossible(E[n].index, p, q, i, st)}
              /\ E[n].kind = "constant" =>
                   Possible(E, p, q, i)[n] =
                     {st \in JointStates : st.value = <<E[n].constant, E[n].constant>>}
              /\ E[n].kind = "not" =>
                   Possible(E, p, q, i)[n] =
                     {st \in JointStates : Negate(st) \in Possible(E, p, q, i)[E[n].left]}
              /\ IsBinary(E, n) =>
                   Possible(E, p, q, i)[n] =
                     {st \in JointStates :
                        \E c \in JointChoices(E[n].kind, st) :
                          /\ ChildStates(E[n].kind, st, c)[1] \in Possible(E, p, q, i)[E[n].left]
                          /\ ChildStates(E[n].kind, st, c)[2] \in Possible(E, p, q, i)[E[n].right]}
<1> DEFINE V == SUBSET JointStates
           At(n, f) ==
             IF E[n].kind = "condition"
             THEN {st \in JointStates : LeafPossible(E[n].index, p, q, i, st)}
             ELSE IF E[n].kind = "constant"
             THEN {st \in JointStates : st.value = <<E[n].constant, E[n].constant>>}
             ELSE IF E[n].kind = "not"
             THEN {st \in JointStates : Negate(st) \in f[E[n].left]}
             ELSE {st \in JointStates :
                     \E c \in JointChoices(E[n].kind, st) :
                       /\ ChildStates(E[n].kind, st, c)[1] \in f[E[n].left]
                       /\ ChildStates(E[n].kind, st, c)[2] \in f[E[n].right]}
           F == [Nodes(E) -> V]
           step == [x \in Nodes(E) \X F |-> At(x[1], x[2])]
           Body(g) == [n \in DOMAIN E |-> At(n, g)]
           O == Possible(E, p, q, i)
<1>1. Len(E) \in Nat /\ DOMAIN E = Nodes(E)
  BY DEF WellFormed, Nodes
<1>2. \A n \in Nodes(E) :
        /\ E[n].kind \in {"condition", "constant", "not", "and", "or"}
        /\ E[n].kind = "condition" => E[n].index \in Conditions(E)
        /\ E[n].kind = "constant" => E[n].constant \in BOOLEAN
        /\ HasOperand(E, n) => E[n].left \in (n + 1)..Len(E) /\ E[n].left \in Nodes(E)
        /\ IsBinary(E, n) => E[n].right \in (n + 1)..Len(E) /\ E[n].right \in Nodes(E)
  BY NodeIs DEF HasOperand, IsBinary
<1>3. ASSUME NEW n \in Nodes(E), NEW f, \A m \in (n + 1)..Len(E) : f[m] \in V
      PROVE  At(n, f) \in V
  BY <1>2
<1>4. ASSUME NEW n \in Nodes(E), NEW f \in F, NEW g \in F,
             \A m \in (n + 1)..Len(E) : f[m] = g[m]
      PROVE  At(n, f) = At(n, g)
  <2>1. HasOperand(E, n) => f[E[n].left] = g[E[n].left]
    BY <1>2, <1>4
  <2>2. IsBinary(E, n) => f[E[n].right] = g[E[n].right]
    BY <1>2, <1>4
  <2> QED BY <1>2, <2>1, <2>2 DEF HasOperand, IsBinary
<1>5. \E f : f = Body(f)
  <2>1. \A n \in Nodes(E), f \in F : step[<<n, f>>] = At(n, f) /\ At(n, f) \in V
    <3>1. \A n \in Nodes(E) : \A m \in (n + 1)..Len(E) : m \in Nodes(E)
      BY <1>1 DEF Nodes
    <3>2. ASSUME NEW n \in Nodes(E), NEW f \in F
          PROVE  At(n, f) \in V
      <4> HIDE DEF At, V
      <4> QED BY <1>3, <3>1
    <3> HIDE DEF At, V
    <3> QED BY <3>2
  <2>2. V # {} /\ step \in [Nodes(E) \X F -> V]
    <3>1. V # {}
      OBVIOUS
    <3> HIDE DEF At, V
    <3> QED BY <2>1, <3>1
  <2> HIDE DEF At, step, V
  <2>3. \A n \in Nodes(E) : \A f, g \in F :
          (\A m \in (n + 1)..Len(E) : f[m] = g[m]) => step[<<n, f>>] = step[<<n, g>>]
    BY <1>4, <2>1
  <2>4. CanRecur(Len(E), V, step)
    BY <1>1, <2>2, <2>3 DEF CanRecur, Nodes
  <2>5. PICK f : Recursion(Len(E), V, step, f)
    BY <2>4, RecursionExists
  <2>6. f \in F /\ \A n \in Nodes(E) : f[n] = At(n, f)
    BY <2>1, <2>5 DEF Recursion, Nodes
  <2> QED BY <1>1, <2>6
<1>6. O = Body(O)
  <2>1. O = CHOOSE g : g = Body(g)
    BY Zenon DEF Possible
  <2> HIDE DEF O, Body
  <2> QED BY <1>5, <2>1
<1>7. DOMAIN O = Nodes(E) /\ O = [n \in Nodes(E) |-> O[n]] /\ \A n \in Nodes(E) : O[n] = At(n, O)
  <2> HIDE DEF O, At
  <2> QED BY <1>1, <1>6
<1>8. O \in F
  <2> DEFINE T == {n \in Nodes(E) : O[n] \in V}
  <2>1. /\ T \in SUBSET (1..Len(E))
        /\ \A n \in 1..Len(E) : (\A m \in (n + 1)..Len(E) : m \in T) => n \in T
    <3> HIDE DEF O, At, V
    <3> QED BY <1>3, <1>7 DEF Nodes
  <2>2. T = Nodes(E)
    <3> HIDE DEF T
    <3> QED BY <1>1, <2>1, FromTheLeaves DEF Nodes
  <2>3. \A n \in Nodes(E) : O[n] \in V
    <3> HIDE DEF O, V
    <3> QED BY <2>2
  <2> HIDE DEF O, V
  <2> QED BY <1>7, <2>3
<1>9. ASSUME NEW n \in Nodes(E)
      PROVE  /\ E[n].kind = "condition" =>
                  O[n] = {st \in JointStates : LeafPossible(E[n].index, p, q, i, st)}
             /\ E[n].kind = "constant" =>
                  O[n] =
                    {st \in JointStates : st.value = <<E[n].constant, E[n].constant>>}
             /\ E[n].kind = "not" =>
                  O[n] =
                    {st \in JointStates : Negate(st) \in O[E[n].left]}
             /\ IsBinary(E, n) =>
                  O[n] =
                    {st \in JointStates :
                       \E c \in JointChoices(E[n].kind, st) :
                         /\ ChildStates(E[n].kind, st, c)[1] \in O[E[n].left]
                         /\ ChildStates(E[n].kind, st, c)[2] \in O[E[n].right]}
  <2>1. O[n] = At(n, O)
    BY <1>7
  <2> HIDE DEF O
  <2> QED BY <2>1 DEF IsBinary
<1> QED BY <1>8, <1>9

-----------------------------------------------------------------------------
(* Decisions without constants, which the analyzer of Go source produces.  *)
WithoutConstants(E) == \A n \in DOMAIN E : E[n].kind # "constant"
ReadOnce(E) == WellFormed(E) /\ WithoutConstants(E)

(* The shape of a decision without constants.                              *)
LEMMA NodeShape ==
  ASSUME NEW E, ReadOnce(E), NEW n \in Nodes(E)
  PROVE  /\ Len(E) \in Nat /\ n \in Nat /\ 1 \in Nodes(E) /\ DOMAIN E = Nodes(E)
         /\ E[n].kind \in {"condition", "not", "and", "or"}
         /\ E[n].kind = "condition" => E[n].index \in Conditions(E)
         /\ E[n].kind = "not" => E[n].left \in Nodes(E) /\ E[n].left \in (n + 1)..Len(E)
         /\ IsBinary(E, n) => /\ E[n].left \in Nodes(E) /\ E[n].left \in (n + 1)..Len(E)
                              /\ E[n].right \in Nodes(E) /\ E[n].right \in (n + 1)..Len(E)
                              /\ Below(E)[E[n].left] \cap Below(E)[E[n].right] = {}
BY NodeIs DEF ReadOnce, WithoutConstants

(* containsCondition is computed from the leaves to the root.              *)
LEMMA BelowIs ==
  ASSUME NEW E, ReadOnce(E)
  PROVE  /\ Below(E) \in [Nodes(E) -> SUBSET Conditions(E)]
         /\ \A n \in Nodes(E) :
              /\ E[n].kind = "condition" => Below(E)[n] = {E[n].index}
              /\ E[n].kind = "not" => Below(E)[n] = Below(E)[E[n].left]
              /\ IsBinary(E, n) =>
                   Below(E)[n] = Below(E)[E[n].left] \cup Below(E)[E[n].right]
BY BelowComputed DEF ReadOnce

(* Every node has a condition, and the root has them all.                  *)
LEMMA BelowGrows ==
  ASSUME NEW E, ReadOnce(E)
  PROVE  /\ \A n \in Nodes(E) : Below(E)[n] # {}
         /\ Below(E)[1] = Conditions(E)
<1> DEFINE B == Below(E)
           S == {n \in Nodes(E) : B[n] # {}}
           T == {n \in Nodes(E) : B[n] \subseteq B[1]}
<1>1. Len(E) \in Nat /\ DOMAIN E = Nodes(E) /\ 1 \in Nodes(E)
  BY DEF ReadOnce, WellFormed, Nodes
<1>2. /\ B \in [Nodes(E) -> SUBSET Conditions(E)]
      /\ \A n \in Nodes(E) :
           /\ E[n].kind \in {"condition", "not", "and", "or"}
           /\ E[n].kind = "condition" => B[n] = {E[n].index}
           /\ E[n].kind = "not" => B[n] = B[E[n].left] /\ E[n].left \in (n + 1)..Len(E)
           /\ IsBinary(E, n) => /\ B[n] = B[E[n].left] \cup B[E[n].right]
                                /\ E[n].left \in (n + 1)..Len(E)
  BY BelowIs, NodeShape
<1> HIDE DEF B
<1>3. S = Nodes(E)
  <2>1. S \in SUBSET (1..Len(E))
    BY DEF Nodes
  <2>2. ASSUME NEW n \in Nodes(E), \A m \in (n + 1)..Len(E) : m \in S
        PROVE  n \in S
    <3>1. E[n].kind # "condition" => E[n].left \in S /\ B[E[n].left] \subseteq B[n]
      <4> HIDE DEF S
      <4> QED BY <1>2, <2>2 DEF IsBinary
    <3>2. B[n] # {}
      BY <1>2, <3>1
    <3> QED BY <3>2
  <2> HIDE DEF S
  <2> QED BY <1>1, <2>1, <2>2, FromTheLeaves DEF Nodes
<1>4. T = Nodes(E)
  <2>1. T \in SUBSET (1..Len(E))
    BY DEF Nodes
  <2>2. ASSUME NEW n \in Nodes(E), \A m \in 1..(n - 1) : m \in T
        PROVE  n \in T
    <3>1. CASE n = 1
      BY <3>1
    <3>2. CASE n # 1
      <4>1. PICK m \in Nodes(E) : n \in Operands(E, m)
        BY <1>1, <3>2 DEF ReadOnce, WellFormed
      <4>2. n \in (m + 1)..Len(E)
        BY <1>1, <4>1 DEF ReadOnce, WellFormed
      <4>3. m \in 1..(n - 1)
        BY <1>1, <4>2 DEF Nodes
      <4>4. B[n] \subseteq B[m]
        BY <1>2, <4>1 DEF Operands, IsBinary
      <4>5. B[m] \subseteq B[1]
        BY <2>2, <4>3
      <4> QED BY <4>4, <4>5
    <3> QED BY <3>1, <3>2
  <2> HIDE DEF T
  <2> QED BY <1>1, <2>1, <2>2, FromTheRoot DEF Nodes
<1>5. \A n \in Nodes(E) : B[n] # {} /\ B[n] \subseteq B[1]
  BY <1>3, <1>4
<1>6. ASSUME NEW i \in Conditions(E)
      PROVE  i \in B[1]
  <2>1. PICK n \in DOMAIN E : E[n].kind = "condition" /\ i = E[n].index
    BY <1>6 DEF Conditions
  <2> QED BY <1>1, <1>2, <1>5, <2>1
<1>7. B[1] = Conditions(E)
  BY <1>1, <1>2, <1>6
<1> QED BY <1>5, <1>7 DEF B

-----------------------------------------------------------------------------
(***************************************************************************)
(* Replayed evaluations.                                                   *)
(***************************************************************************)
IsTrue(E, s, n) == TRUE \in NodeOutcomes(E, s)[n]
IsFalse(E, s, n) == FALSE \in NodeOutcomes(E, s)[n]

(* evaluateObserved is computed from the leaves to the root.               *)
LEMMA OutcomesAre ==
  ASSUME NEW E, NEW s, ReadOnce(E)
  PROVE  /\ NodeOutcomes(E, s) \in [Nodes(E) -> SUBSET BOOLEAN]
         /\ \A n \in Nodes(E) :
              /\ E[n].kind = "condition" =>
                   NodeOutcomes(E, s)[n] = {b \in BOOLEAN : s[E[n].index] = StateOf(b)}
              /\ E[n].kind = "not" =>
                   NodeOutcomes(E, s)[n] = {~b : b \in NodeOutcomes(E, s)[E[n].left]}
              /\ IsBinary(E, n) =>
                   NodeOutcomes(E, s)[n] =
                     {b \in BOOLEAN :
                        \E l \in NodeOutcomes(E, s)[E[n].left] :
                          IF l = (E[n].kind = "or") THEN b = l /\ Skipped(E, s, E[n].right)
                          ELSE b \in NodeOutcomes(E, s)[E[n].right]}
BY OutcomesComputed DEF ReadOnce

(* The replay of a node, from the replays of its operands.                 *)
LEMMA Replays ==
  ASSUME NEW E, NEW s, ReadOnce(E), NEW n \in Nodes(E)
  PROVE  /\ E[n].kind = "condition" =>
              /\ IsTrue(E, s, n) <=> s[E[n].index] = "true"
              /\ IsFalse(E, s, n) <=> s[E[n].index] = "false"
         /\ E[n].kind = "not" =>
              /\ IsTrue(E, s, n) <=> IsFalse(E, s, E[n].left)
              /\ IsFalse(E, s, n) <=> IsTrue(E, s, E[n].left)
         /\ E[n].kind = "and" =>
              /\ IsTrue(E, s, n) <=> IsTrue(E, s, E[n].left) /\ IsTrue(E, s, E[n].right)
              /\ IsFalse(E, s, n) <=>
                   \/ IsFalse(E, s, E[n].left) /\ Skipped(E, s, E[n].right)
                   \/ IsTrue(E, s, E[n].left) /\ IsFalse(E, s, E[n].right)
         /\ E[n].kind = "or" =>
              /\ IsTrue(E, s, n) <=>
                   \/ IsTrue(E, s, E[n].left) /\ Skipped(E, s, E[n].right)
                   \/ IsFalse(E, s, E[n].left) /\ IsTrue(E, s, E[n].right)
              /\ IsFalse(E, s, n) <=> IsFalse(E, s, E[n].left) /\ IsFalse(E, s, E[n].right)
<1> DEFINE O == NodeOutcomes(E, s)
           l == E[n].left
           r == E[n].right
<1>1. CASE E[n].kind = "condition"
  <2>1. O[n] = {b \in BOOLEAN : s[E[n].index] = StateOf(b)}
    BY <1>1, OutcomesAre
  <2>2. StateOf(TRUE) = "true" /\ StateOf(FALSE) = "false"
    BY DEF StateOf
  <2>3. (TRUE \in O[n] <=> s[E[n].index] = "true") /\ (FALSE \in O[n] <=> s[E[n].index] = "false")
    BY <2>1, <2>2
  <2> QED BY <1>1, <2>3 DEF IsTrue, IsFalse
<1>2. CASE E[n].kind = "not"
  <2>1. O[n] = {~b : b \in O[l]}
    BY <1>2, OutcomesAre
  <2>2. O[l] \in SUBSET BOOLEAN
    BY <1>2, OutcomesAre, NodeShape
  <2> HIDE DEF O, l
  <2>3. (TRUE \in O[n] <=> FALSE \in O[l]) /\ (FALSE \in O[n] <=> TRUE \in O[l])
    BY <2>1, <2>2
  <2> QED BY <1>2, <2>3 DEF IsTrue, IsFalse, O, l
<1>3. CASE IsBinary(E, n)
  <2>1. O[n] = {b \in BOOLEAN : \E x \in O[l] : IF x = (E[n].kind = "or")
                                                THEN b = x /\ Skipped(E, s, r)
                                                ELSE b \in O[r]}
    BY <1>3, OutcomesAre
  <2>2. O[l] \in SUBSET BOOLEAN
    BY <1>3, OutcomesAre, NodeShape
  <2> HIDE DEF O, l, r
  <2>3. ASSUME E[n].kind = "and"
        PROVE  /\ TRUE \in O[n] <=> TRUE \in O[l] /\ TRUE \in O[r]
               /\ FALSE \in O[n] <=> \/ FALSE \in O[l] /\ Skipped(E, s, r)
                                     \/ TRUE \in O[l] /\ FALSE \in O[r]
    <3>1. (E[n].kind = "or") = FALSE
      BY <2>3
    <3> QED BY <2>1, <2>2, <3>1
  <2>4. ASSUME E[n].kind = "or"
        PROVE  /\ TRUE \in O[n] <=> \/ TRUE \in O[l] /\ Skipped(E, s, r)
                                    \/ FALSE \in O[l] /\ TRUE \in O[r]
               /\ FALSE \in O[n] <=> FALSE \in O[l] /\ FALSE \in O[r]
    <3>1. (E[n].kind = "or") = TRUE
      BY <2>4
    <3> QED BY <2>1, <2>2, <3>1
  <2> QED BY <1>3, <2>3, <2>4 DEF IsTrue, IsFalse, O, l, r, IsBinary
<1> QED BY <1>1, <1>2, <1>3, NodeShape DEF IsBinary

Agree(E, s, t, n) == \A i \in Below(E)[n] : s[i] = t[i]

(* An induction over the nodes that goes through their operands.           *)
LEMMA OperandInduction ==
  ASSUME NEW E, ReadOnce(E), NEW T \in SUBSET Nodes(E),
         \A n \in Nodes(E) :
           (E[n].kind # "condition" => /\ E[n].left \in T
                                       /\ IsBinary(E, n) => E[n].right \in T) => n \in T
  PROVE  T = Nodes(E)
<1>1. Len(E) \in Nat
  BY DEF ReadOnce, WellFormed
<1>2. ASSUME NEW n \in Nodes(E), \A m \in (n + 1)..Len(E) : m \in T
      PROVE  n \in T
  <2>1. E[n].kind # "condition" => /\ E[n].left \in T
                                   /\ IsBinary(E, n) => E[n].right \in T
    BY <1>2, NodeShape DEF IsBinary
  <2> QED BY <2>1
<1> QED BY <1>1, <1>2, FromTheLeaves DEF Nodes

(* The replay of a node depends on the conditions below it.                *)
LEMMA ReplayIsLocal ==
  ASSUME NEW E, NEW s, NEW t, ReadOnce(E), NEW n \in Nodes(E), Agree(E, s, t, n)
  PROVE  /\ IsTrue(E, s, n) <=> IsTrue(E, t, n)
         /\ IsFalse(E, s, n) <=> IsFalse(E, t, n)
         /\ Skipped(E, s, n) <=> Skipped(E, t, n)
<1> DEFINE P(m) == Agree(E, s, t, m) => /\ IsTrue(E, s, m) <=> IsTrue(E, t, m)
                                        /\ IsFalse(E, s, m) <=> IsFalse(E, t, m)
           T == {m \in Nodes(E) : P(m)}
<1>1. \A m \in Nodes(E) : Agree(E, s, t, m) => (Skipped(E, s, m) <=> Skipped(E, t, m))
  BY DEF Agree, Skipped
<1>2. ASSUME NEW m \in Nodes(E),
             E[m].kind # "condition" => /\ E[m].left \in T
                                        /\ IsBinary(E, m) => E[m].right \in T
      PROVE  m \in T
  <2>1. SUFFICES ASSUME Agree(E, s, t, m) PROVE P(m)
    OBVIOUS
  <2>2. CASE E[m].kind = "condition"
    <3>1. s[E[m].index] = t[E[m].index]
      BY <2>1, <2>2, BelowIs DEF Agree
    <3> QED BY <2>2, <3>1, Replays
  <2>3. CASE E[m].kind = "not"
    <3>1. Agree(E, s, t, E[m].left)
      BY <2>1, <2>3, BelowIs DEF Agree
    <3> QED BY <1>2, <2>3, <3>1, Replays
  <2>4. CASE IsBinary(E, m)
    <3>1. Agree(E, s, t, E[m].left) /\ Agree(E, s, t, E[m].right)
      BY <2>1, <2>4, BelowIs DEF Agree
    <3>2. E[m].left \in T /\ E[m].right \in T
      BY <1>2, <2>4 DEF IsBinary
    <3> QED BY <1>1, <2>4, <3>1, <3>2, Replays DEF IsBinary
  <2> QED BY <2>2, <2>3, <2>4, NodeShape DEF IsBinary
<1>3. T = Nodes(E)
  <2>1. T \in SUBSET Nodes(E)
    OBVIOUS
  <2> HIDE DEF T
  <2> QED BY <1>2, <2>1, OperandInduction
<1>4. P(n)
  <2> HIDE DEF P
  <2> QED BY <1>3
<1> QED BY <1>1, <1>4

(* A node that is evaluated has one value, and an evaluated condition.     *)
LEMMA ReplayIsUnique ==
  ASSUME NEW E, NEW s, ReadOnce(E), NEW n \in Nodes(E)
  PROVE  /\ ~(IsTrue(E, s, n) /\ IsFalse(E, s, n))
         /\ IsTrue(E, s, n) \/ IsFalse(E, s, n) => ~Skipped(E, s, n)
<1> DEFINE P(m) == /\ ~(IsTrue(E, s, m) /\ IsFalse(E, s, m))
                   /\ IsTrue(E, s, m) \/ IsFalse(E, s, m) => ~Skipped(E, s, m)
           T == {m \in Nodes(E) : P(m)}
<1>1. ASSUME NEW m \in Nodes(E),
             E[m].kind # "condition" => /\ E[m].left \in T
                                        /\ IsBinary(E, m) => E[m].right \in T
      PROVE  m \in T
  <2>1. CASE E[m].kind = "condition"
    <3>1. Skipped(E, s, m) <=> s[E[m].index] = "notEvaluated"
      BY <2>1, BelowIs DEF Skipped
    <3> QED BY <2>1, <3>1, Replays
  <2>2. CASE E[m].kind = "not"
    <3>1. Skipped(E, s, m) => Skipped(E, s, E[m].left)
      BY <2>2, BelowIs DEF Skipped
    <3> QED BY <1>1, <2>2, <3>1, Replays
  <2>3. CASE IsBinary(E, m)
    <3>1. Skipped(E, s, m) => Skipped(E, s, E[m].left)
      BY <2>3, BelowIs DEF Skipped
    <3>2. P(E[m].left) /\ P(E[m].right)
      BY <1>1, <2>3 DEF IsBinary
    <3> QED BY <2>3, <3>1, <3>2, Replays DEF IsBinary
  <2> QED BY <2>1, <2>2, <2>3, NodeShape DEF IsBinary
<1>2. T = Nodes(E)
  <2>1. T \in SUBSET Nodes(E)
    OBVIOUS
  <2> HIDE DEF T
  <2> QED BY <1>1, <2>1, OperandInduction
<1>3. P(n)
  <2> HIDE DEF P
  <2> QED BY <1>2
<1> QED BY <1>3

(* What the definitions say of the root.                                   *)
LEMMA RootReplay ==
  ASSUME NEW E, NEW s, ReadOnce(E)
  PROVE  /\ 1 \in Nodes(E)
         /\ s \in Vectors(E) <=> /\ s \in [Conditions(E) -> State]
                                 /\ IsTrue(E, s, 1) \/ IsFalse(E, s, 1)
         /\ ResultOf(E, s) <=> IsTrue(E, s, 1)
<1>1. 1 \in Nodes(E)
  BY DEF ReadOnce, WellFormed, Nodes
<1>2. NodeOutcomes(E, s)[1] \in SUBSET BOOLEAN
  BY <1>1, OutcomesAre
<1>3. NodeOutcomes(E, s)[1] # {} <=> IsTrue(E, s, 1) \/ IsFalse(E, s, 1)
  BY <1>2 DEF IsTrue, IsFalse
<1> QED BY <1>1, <1>3 DEF Vectors, ResultOf, Observed, IsTrue
-----------------------------------------------------------------------------
(***************************************************************************)
(* Two vectors that show the effect of the target differ at every node     *)
(* from the root to the target; so no left operand on the way, which would *)
(* evaluate its sibling in one of them only.                               *)
(***************************************************************************)
Differ(E, s, t, n) ==
  \/ IsTrue(E, s, n) /\ IsFalse(E, t, n)
  \/ IsFalse(E, s, n) /\ IsTrue(E, t, n)

IsPair(E, i, s, t) ==
  /\ s \in Vectors(E) /\ t \in Vectors(E)
  /\ {s[i], t[i]} = {"true", "false"}
  /\ ResultOf(E, s) # ResultOf(E, t)
  /\ \A j \in Conditions(E) \ {i} : s[j] = t[j]

(* On the way to the target its operand is told apart, and it is on the    *)
(* right.                                                                  *)
LEMMA OperandDiffers ==
  ASSUME NEW E, NEW i, NEW s, NEW t, ReadOnce(E), NEW n \in Nodes(E), IsBinary(E, n),
         \A j \in Conditions(E) \ {i} : s[j] = t[j],
         i \in Below(E)[n], Differ(E, s, t, n)
  PROVE  i \notin Below(E)[E[n].left] /\ Differ(E, s, t, E[n].right)
<1> DEFINE l == E[n].left
           r == E[n].right
<1>1. /\ l \in Nodes(E) /\ r \in Nodes(E)
      /\ Below(E)[l] \cap Below(E)[r] = {}
      /\ Below(E)[n] = Below(E)[l] \cup Below(E)[r]
      /\ Below(E)[l] \subseteq Conditions(E) /\ Below(E)[r] \subseteq Conditions(E)
  BY NodeShape, BelowIs
<1>2. ASSUME i \in Below(E)[l]
      PROVE  FALSE
  <2>1. Agree(E, s, t, r)
    BY <1>1, <1>2 DEF Agree
  <2>2. /\ IsTrue(E, s, r) <=> IsTrue(E, t, r)
        /\ IsFalse(E, s, r) <=> IsFalse(E, t, r)
        /\ Skipped(E, s, r) <=> Skipped(E, t, r)
    BY <1>1, <2>1, ReplayIsLocal
  <2>3. /\ IsTrue(E, s, r) \/ IsFalse(E, s, r) => ~Skipped(E, s, r)
        /\ ~(IsTrue(E, s, r) /\ IsFalse(E, s, r))
        /\ ~(IsTrue(E, s, l) /\ IsFalse(E, s, l)) /\ ~(IsTrue(E, t, l) /\ IsFalse(E, t, l))
    BY <1>1, ReplayIsUnique
  <2> QED BY <2>2, <2>3, Replays DEF Differ, IsBinary
<1>3. Agree(E, s, t, l)
  BY <1>1, <1>2 DEF Agree
<1>4. /\ IsTrue(E, s, l) <=> IsTrue(E, t, l)
      /\ IsFalse(E, s, l) <=> IsFalse(E, t, l)
      /\ ~(IsTrue(E, s, l) /\ IsFalse(E, s, l))
  BY <1>1, <1>3, ReplayIsLocal, ReplayIsUnique
<1>5. Differ(E, s, t, r)
  BY <1>4, Replays DEF Differ, IsBinary
<1> QED BY <1>2, <1>5

(* Such vectors differ all the way.                                        *)
LEMMA PairDiffers ==
  ASSUME NEW E, NEW i, NEW s, NEW t, ReadOnce(E), IsPair(E, i, s, t),
         NEW n \in Nodes(E), i \in Below(E)[n]
  PROVE  Differ(E, s, t, n)
<1> DEFINE P(m) == i \in Below(E)[m] => Differ(E, s, t, m)
           T == {m \in Nodes(E) : P(m)}
<1>1. Len(E) \in Nat /\ DOMAIN E = Nodes(E)
  BY DEF ReadOnce, WellFormed, Nodes
<1>2. ASSUME NEW m \in Nodes(E), \A k \in 1..(m - 1) : k \in T
      PROVE  m \in T
  <2>1. SUFFICES ASSUME i \in Below(E)[m] PROVE Differ(E, s, t, m)
    OBVIOUS
  <2>2. CASE m = 1
    <3>1. IsTrue(E, s, 1) \/ IsFalse(E, s, 1)
      BY RootReplay DEF IsPair
    <3>2. IsTrue(E, t, 1) \/ IsFalse(E, t, 1)
      BY RootReplay DEF IsPair
    <3>3. ~(IsTrue(E, s, 1) <=> IsTrue(E, t, 1))
      <4>1. ~(ResultOf(E, s) <=> ResultOf(E, t))
        <5>1. ResultOf(E, s) \in BOOLEAN /\ ResultOf(E, t) \in BOOLEAN
          BY DEF ResultOf
        <5> QED BY <5>1 DEF IsPair
      <4> QED BY <4>1, RootReplay
    <3> QED BY <2>2, <3>1, <3>2, <3>3 DEF Differ
  <2>3. CASE m # 1
    <3>1. PICK k \in Nodes(E) : m \in Operands(E, k)
      BY <1>1, <2>3 DEF ReadOnce, WellFormed
    <3>2. m \in (k + 1)..Len(E)
      BY <1>1, <3>1 DEF ReadOnce, WellFormed
    <3>3. k \in T
      BY <1>1, <1>2, <3>2 DEF Nodes
    <3>4. i \in Below(E)[k]
      BY <2>1, <3>1, BelowIs DEF Operands, IsBinary
    <3>5. Differ(E, s, t, k)
      BY <3>3, <3>4
    <3>6. CASE E[k].kind = "not"
      <4>1. m = E[k].left
        BY <3>1, <3>6 DEF Operands
      <4> QED BY <3>5, <3>6, <4>1, Replays DEF Differ
    <3>7. CASE IsBinary(E, k)
      <4>1. m \in {E[k].left, E[k].right}
        BY <3>1, <3>7 DEF Operands, IsBinary
      <4>2. i \notin Below(E)[E[k].left] /\ Differ(E, s, t, E[k].right)
        BY <3>4, <3>5, <3>7, OperandDiffers DEF IsPair
      <4> QED BY <2>1, <4>1, <4>2
    <3> QED BY <3>1, <3>6, <3>7 DEF Operands, IsBinary
  <2> QED BY <2>2, <2>3
<1>3. T = Nodes(E)
  <2>1. T \in SUBSET (1..Len(E))
    BY DEF Nodes
  <2> HIDE DEF T
  <2> QED BY <1>1, <1>2, <2>1, FromTheRoot DEF Nodes
<1>4. P(n)
  <2> HIDE DEF P
  <2> QED BY <1>3
<1> QED BY <1>4

(* So nothing is in the way of a condition that a pair shows.              *)
LEMMA PairIsCompatible ==
  ASSUME NEW E, NEW i, NEW s, NEW t, ReadOnce(E), IsPair(E, i, s, t)
  PROVE  Compatible(E, i)
<1> SUFFICES ASSUME NEW n \in DOMAIN E, E[n].kind \in {"and", "or"},
                    i \in Below(E)[E[n].left]
             PROVE  FALSE
  BY DEF Compatible
<1>1. n \in Nodes(E) /\ IsBinary(E, n)
  BY DEF ReadOnce, WellFormed, Nodes, IsBinary
<1>2. i \in Below(E)[n]
  BY <1>1, BelowIs
<1>3. Differ(E, s, t, n)
  BY <1>1, <1>2, PairDiffers
<1> QED BY <1>1, <1>2, <1>3, OperandDiffers DEF IsPair

(***************************************************************************)
(* Every node can be given either value, without evaluating a condition    *)
(* elsewhere; and if the target is on the right wherever it has a sibling, *)
(* both values by vectors that differ in the target alone.                 *)
(***************************************************************************)
Only(E, s, n) ==
  /\ s \in [Conditions(E) -> State]
  /\ \A i \in Conditions(E) \ Below(E)[n] : s[i] = "notEvaluated"

(* A vector that is put together from those of the operands gives either   *)
(* what they give.                                                         *)
Joined(E, s, t, n) ==
  [i \in Conditions(E) |-> IF i \in Below(E)[E[n].left] THEN s[i] ELSE t[i]]

LEMMA JoinedReplays ==
  ASSUME NEW E, NEW s, NEW t, ReadOnce(E), NEW n \in Nodes(E), IsBinary(E, n),
         Only(E, s, E[n].left), Only(E, t, E[n].right)
  PROVE  /\ Only(E, Joined(E, s, t, n), n)
         /\ Agree(E, Joined(E, s, t, n), s, E[n].left)
         /\ Agree(E, Joined(E, s, t, n), t, E[n].right)
<1>1. /\ Below(E)[E[n].left] \cap Below(E)[E[n].right] = {}
      /\ Below(E)[n] = Below(E)[E[n].left] \cup Below(E)[E[n].right]
      /\ Below(E)[E[n].left] \subseteq Conditions(E)
      /\ Below(E)[E[n].right] \subseteq Conditions(E)
  BY NodeShape, BelowIs
<1>2. Joined(E, s, t, n) \in [Conditions(E) -> State]
  BY DEF Joined, Only
<1>3. \A i \in Conditions(E) :
        Joined(E, s, t, n)[i] = IF i \in Below(E)[E[n].left] THEN s[i] ELSE t[i]
  BY DEF Joined
<1>4. Only(E, Joined(E, s, t, n), n)
  BY <1>1, <1>2, <1>3 DEF Only
<1> QED BY <1>1, <1>3, <1>4 DEF Agree

(* A vector of the left operand leaves the right one alone.                *)
LEMMA LeftAlone ==
  ASSUME NEW E, NEW s, ReadOnce(E), NEW n \in Nodes(E), IsBinary(E, n), Only(E, s, E[n].left)
  PROVE  Skipped(E, s, E[n].right) /\ Only(E, s, n)
<1>1. /\ Below(E)[E[n].left] \cap Below(E)[E[n].right] = {}
      /\ Below(E)[n] = Below(E)[E[n].left] \cup Below(E)[E[n].right]
      /\ Below(E)[E[n].right] \subseteq Conditions(E)
  BY NodeShape, BelowIs
<1> QED BY <1>1 DEF Skipped, Only

(* Either value of any node.                                               *)
LEMMA EitherValue ==
  ASSUME NEW E, ReadOnce(E), NEW n \in Nodes(E)
  PROVE  /\ \E s : Only(E, s, n) /\ IsTrue(E, s, n)
         /\ \E s : Only(E, s, n) /\ IsFalse(E, s, n)
<1> DEFINE P(m) == /\ \E s : Only(E, s, m) /\ IsTrue(E, s, m)
                   /\ \E s : Only(E, s, m) /\ IsFalse(E, s, m)
           T == {m \in Nodes(E) : P(m)}
<1>1. ASSUME NEW m \in Nodes(E),
             E[m].kind # "condition" => /\ E[m].left \in T
                                        /\ IsBinary(E, m) => E[m].right \in T
      PROVE  P(m)
  <2>1. CASE E[m].kind = "condition"
    <3>1. ASSUME NEW v \in State
          PROVE  \E s : Only(E, s, m) /\ s[E[m].index] = v
      <4> DEFINE s == [i \in Conditions(E) |-> IF i = E[m].index THEN v ELSE "notEvaluated"]
      <4>1. E[m].index \in Conditions(E) /\ Below(E)[m] = {E[m].index} /\ "notEvaluated" \in State
        BY <2>1, NodeShape, BelowIs DEF State
      <4>2. s \in [Conditions(E) -> State] /\ s[E[m].index] = v
        BY <4>1
      <4>3. \A i \in Conditions(E) \ Below(E)[m] : s[i] = "notEvaluated"
        BY <4>1
      <4> HIDE DEF s
      <4> QED BY <4>2, <4>3 DEF Only
    <3>2. "true" \in State /\ "false" \in State
      BY DEF State
    <3>3. PICK s : Only(E, s, m) /\ s[E[m].index] = "true"
      BY <3>1, <3>2
    <3>4. PICK t : Only(E, t, m) /\ t[E[m].index] = "false"
      BY <3>1, <3>2
    <3>5. IsTrue(E, s, m) /\ IsFalse(E, t, m)
      BY <2>1, <3>3, <3>4, Replays
    <3> QED BY <3>3, <3>4, <3>5
  <2>2. CASE E[m].kind = "not"
    <3>1. PICK s : Only(E, s, E[m].left) /\ IsTrue(E, s, E[m].left)
      BY <1>1, <2>2
    <3>2. PICK t : Only(E, t, E[m].left) /\ IsFalse(E, t, E[m].left)
      BY <1>1, <2>2
    <3>3. Only(E, s, m) /\ Only(E, t, m)
      BY <2>2, <3>1, <3>2, BelowIs DEF Only
    <3>4. IsFalse(E, s, m) /\ IsTrue(E, t, m)
      BY <2>2, <3>1, <3>2, Replays
    <3> QED BY <3>3, <3>4
  <2>3. CASE IsBinary(E, m)
    <3> DEFINE l == E[m].left
               r == E[m].right
    <3>1. l \in Nodes(E) /\ r \in Nodes(E) /\ P(l) /\ P(r)
      BY <1>1, <2>3 DEF IsBinary
    <3>2. PICK s1 : Only(E, s1, l) /\ IsTrue(E, s1, l)
      BY <3>1
    <3>3. PICK s0 : Only(E, s0, l) /\ IsFalse(E, s0, l)
      BY <3>1
    <3>4. PICK t1 : Only(E, t1, r) /\ IsTrue(E, t1, r)
      BY <3>1
    <3>5. PICK t0 : Only(E, t0, r) /\ IsFalse(E, t0, r)
      BY <3>1
    <3>6. CASE E[m].kind = "and"
      <4>1. Only(E, s0, m) /\ IsFalse(E, s0, m)
        BY <2>3, <3>3, <3>6, LeftAlone, Replays
      <4> DEFINE j == Joined(E, s1, t1, m)
      <4>2. Only(E, j, m) /\ IsTrue(E, j, l) /\ IsTrue(E, j, r)
        BY <2>3, <3>1, <3>2, <3>4, JoinedReplays, ReplayIsLocal
      <4>3. IsTrue(E, j, m)
        BY <3>6, <4>2, Replays
      <4> HIDE DEF j
      <4> QED BY <4>1, <4>2, <4>3
    <3>7. CASE E[m].kind = "or"
      <4>1. Only(E, s1, m) /\ IsTrue(E, s1, m)
        BY <2>3, <3>2, <3>7, LeftAlone, Replays
      <4> DEFINE j == Joined(E, s0, t0, m)
      <4>2. Only(E, j, m) /\ IsFalse(E, j, l) /\ IsFalse(E, j, r)
        BY <2>3, <3>1, <3>3, <3>5, JoinedReplays, ReplayIsLocal
      <4>3. IsFalse(E, j, m)
        BY <3>7, <4>2, Replays
      <4> HIDE DEF j
      <4> QED BY <4>1, <4>2, <4>3
    <3> QED BY <2>3, <3>6, <3>7 DEF IsBinary
  <2> QED BY <2>1, <2>2, <2>3, NodeShape DEF IsBinary
<1>2. T = Nodes(E)
  <2>1. T \in SUBSET Nodes(E)
    OBVIOUS
  <2>2. \A m \in Nodes(E) : P(m) => m \in T
    OBVIOUS
  <2> HIDE DEF T, P
  <2> QED BY <1>1, <2>1, <2>2, OperandInduction
<1>3. P(n)
  <2> HIDE DEF P
  <2> QED BY <1>2
<1> QED BY <1>3

(* Two vectors that the target tells apart at a node.                      *)
Shown(E, i, s, t, n) ==
  /\ Only(E, s, n) /\ Only(E, t, n)
  /\ IsTrue(E, s, n) /\ IsFalse(E, t, n)
  /\ {s[i], t[i]} = {"true", "false"}
  /\ \A j \in Conditions(E) \ {i} : s[j] = t[j]

(* Joined with a vector that lets the right operand decide, they are told  *)
(* apart at the operator.                                                  *)
LEMMA ShownOnTheRight ==
  ASSUME NEW E, NEW i, NEW s, NEW t, ReadOnce(E), NEW n \in Nodes(E), IsBinary(E, n),
         i \notin Below(E)[E[n].left], i \in Conditions(E), Shown(E, i, s, t, E[n].right)
  PROVE  \E x, y : Shown(E, i, x, y, n)
<1> DEFINE l == E[n].left
           r == E[n].right
<1>1. l \in Nodes(E) /\ r \in Nodes(E)
  BY NodeShape
<1>2. PICK u : Only(E, u, l) /\ (IF E[n].kind = "and" THEN IsTrue(E, u, l) ELSE IsFalse(E, u, l))
  BY <1>1, EitherValue
<1> DEFINE x == Joined(E, u, s, n)
           y == Joined(E, u, t, n)
<1>3. /\ Only(E, x, n) /\ Agree(E, x, u, l) /\ Agree(E, x, s, r)
      /\ Only(E, y, n) /\ Agree(E, y, u, l) /\ Agree(E, y, t, r)
  BY <1>2, JoinedReplays DEF Shown
<1>4. /\ IsTrue(E, x, l) <=> IsTrue(E, u, l)
      /\ IsFalse(E, x, l) <=> IsFalse(E, u, l)
      /\ IsTrue(E, y, l) <=> IsTrue(E, u, l)
      /\ IsFalse(E, y, l) <=> IsFalse(E, u, l)
      /\ IsTrue(E, x, r) /\ IsFalse(E, y, r)
  BY <1>1, <1>3, ReplayIsLocal DEF Shown
<1>5. IsTrue(E, x, n) /\ IsFalse(E, y, n)
  BY <1>2, <1>4, Replays DEF IsBinary
<1>6. x[i] = s[i] /\ y[i] = t[i] /\ \A j \in Conditions(E) \ {i} : x[j] = y[j]
  BY DEF Joined, Shown
<1>7. Shown(E, i, x, y, n)
  <2> HIDE DEF x, y
  <2> QED BY <1>3, <1>5, <1>6 DEF Shown
<1> QED BY <1>7

(* A pair exists for every condition that nothing is in the way of.        *)
LEMMA CompatibleHasPair ==
  ASSUME NEW E, ReadOnce(E), NEW i \in Conditions(E), Compatible(E, i)
  PROVE  \E s, t : IsPair(E, i, s, t)
<1> DEFINE P(m) == i \in Below(E)[m] => \E s, t : Shown(E, i, s, t, m)
           T == {m \in Nodes(E) : P(m)}
<1>1. ASSUME NEW m \in Nodes(E),
             E[m].kind # "condition" => /\ E[m].left \in T
                                        /\ IsBinary(E, m) => E[m].right \in T
      PROVE  P(m)
  <2>1. SUFFICES ASSUME i \in Below(E)[m] PROVE \E s, t : Shown(E, i, s, t, m)
    OBVIOUS
  <2>2. CASE E[m].kind = "condition"
    <3>1. PICK s : Only(E, s, m) /\ IsTrue(E, s, m)
      BY EitherValue
    <3>2. PICK t : Only(E, t, m) /\ IsFalse(E, t, m)
      BY EitherValue
    <3>3. Below(E)[m] = {i} /\ i = E[m].index
      BY <2>1, <2>2, BelowIs
    <3>4. s[i] = "true" /\ t[i] = "false"
      BY <2>2, <3>1, <3>2, <3>3, Replays
    <3>5. \A j \in Conditions(E) \ {i} : s[j] = t[j]
      BY <3>1, <3>2, <3>3 DEF Only
    <3> QED BY <3>1, <3>2, <3>4, <3>5 DEF Shown
  <2>3. CASE E[m].kind = "not"
    <3>1. Below(E)[m] = Below(E)[E[m].left] /\ P(E[m].left)
      BY <1>1, <2>3, BelowIs
    <3>2. PICK s, t : Shown(E, i, s, t, E[m].left)
      BY <2>1, <3>1
    <3>3. Only(E, s, m) /\ Only(E, t, m) /\ IsFalse(E, s, m) /\ IsTrue(E, t, m)
      BY <2>3, <3>1, <3>2, Replays DEF Shown, Only
    <3>4. Shown(E, i, t, s, m)
      BY <3>2, <3>3 DEF Shown
    <3> QED BY <3>4
  <2>4. CASE IsBinary(E, m)
    <3>1. /\ E[m].right \in Nodes(E) /\ P(E[m].right)
          /\ Below(E)[m] = Below(E)[E[m].left] \cup Below(E)[E[m].right]
      BY <1>1, <2>4, BelowIs DEF IsBinary
    <3>2. i \notin Below(E)[E[m].left]
      <4>1. m \in DOMAIN E /\ Below(E)[E[m].right] # {}
        BY <3>1, BelowGrows DEF ReadOnce, WellFormed, Nodes
      <4> QED BY <2>4, <4>1 DEF Compatible, IsBinary
    <3>3. PICK s, t : Shown(E, i, s, t, E[m].right)
      BY <2>1, <3>1, <3>2
    <3> QED BY <2>4, <3>2, <3>3, ShownOnTheRight
  <2> QED BY <2>2, <2>3, <2>4, NodeShape DEF IsBinary
<1>2. T = Nodes(E)
  <2>1. T \in SUBSET Nodes(E)
    OBVIOUS
  <2>2. \A m \in Nodes(E) : P(m) => m \in T
    OBVIOUS
  <2> HIDE DEF T, P
  <2> QED BY <1>1, <2>1, <2>2, OperandInduction
<1>3. 1 \in Nodes(E) /\ i \in Below(E)[1]
  BY BelowGrows, RootReplay
<1>4. PICK s, t : Shown(E, i, s, t, 1)
  <2>1. P(1)
    <3> HIDE DEF P
    <3> QED BY <1>2, <1>3
  <2> QED BY <1>3, <2>1
<1>5. ResultOf(E, s) /\ ~ResultOf(E, t)
  BY <1>3, <1>4, RootReplay, ReplayIsUnique DEF Shown
<1>6. s \in Vectors(E) /\ t \in Vectors(E)
  BY <1>4, RootReplay DEF Shown, Only
<1> QED BY <1>4, <1>5, <1>6 DEF IsPair, Shown

-----------------------------------------------------------------------------
(***************************************************************************)
(* Without constants every subtree can take either value, so no sibling is *)
(* in the way for good.                                                    *)
(***************************************************************************)
(* computeFeasibility leaves nothing out.                                  *)
LEMMA AllFeasible ==
  ASSUME NEW E, ReadOnce(E)
  PROVE  LET free == Feasible(E, [i \in Conditions(E) |-> "notEvaluated"])
         IN  \A n \in Nodes(E) : free[n] = BOOLEAN
<1> DEFINE s == [i \in Conditions(E) |-> "notEvaluated"]
           F == Feasible(E, s)
           T == {n \in Nodes(E) : F[n] = BOOLEAN}
<1>1. ASSUME NEW n \in Nodes(E),
             HasOperand(E, n) => E[n].left \in T,
             IsBinary(E, n) => E[n].right \in T
      PROVE  n \in T
  <2>1. E[n].kind \in {"condition", "not", "and", "or"}
    BY NodeShape
  <2>2. CASE E[n].kind = "condition"
    <3>1. s[E[n].index] = "notEvaluated"
      BY <2>2, NodeShape
    <3>2. F[n] = {b \in BOOLEAN : s[E[n].index] \in {"notEvaluated", StateOf(b)}}
      BY <2>2, FeasibleComputed DEF ReadOnce
    <3> HIDE DEF F
    <3> QED BY <3>1, <3>2
  <2>3. CASE E[n].kind = "not"
    <3>1. F[n] = {~b : b \in F[E[n].left]} /\ F[E[n].left] = BOOLEAN
      BY <1>1, <2>3, FeasibleComputed DEF ReadOnce, HasOperand
    <3>2. {~b : b \in BOOLEAN} = BOOLEAN
      OBVIOUS
    <3> HIDE DEF F
    <3> QED BY <3>1, <3>2
  <2>4. CASE IsBinary(E, n)
    <3>1. /\ F[n] = {IF E[n].kind = "and" THEN l /\ r ELSE l \/ r :
                       l \in F[E[n].left], r \in F[E[n].right]}
          /\ F[E[n].left] = BOOLEAN /\ F[E[n].right] = BOOLEAN
      BY <1>1, <2>4, FeasibleComputed DEF ReadOnce, HasOperand, IsBinary
    <3>2. F[n] \in SUBSET BOOLEAN
      BY FeasibleComputed DEF ReadOnce
    <3> HIDE DEF F
    <3>3. ASSUME NEW b \in BOOLEAN
          PROVE  b \in F[n]
      <4>1. b = IF E[n].kind = "and" THEN b /\ b ELSE b \/ b
        OBVIOUS
      <4> QED BY <3>1, <4>1
    <3> QED BY <3>2, <3>3
  <2> QED BY <2>1, <2>2, <2>3, <2>4 DEF IsBinary
<1>2. T = Nodes(E)
  <2>1. T \in SUBSET Nodes(E)
    OBVIOUS
  <2> HIDE DEF T
  <2> QED BY <1>1, <2>1, OperandsFirst DEF ReadOnce
<1>3. \A n \in Nodes(E) : F[n] = BOOLEAN
  <2> HIDE DEF F
  <2> QED BY <1>2
<1> QED BY <1>3

(* findPivotalPath asks siblings that are there for one of both values.    *)
LEMMA PathsAre ==
  ASSUME NEW E, NEW i, ReadOnce(E), NEW n \in Nodes(E)
  PROVE  PivotalPaths(E, i)[n] \subseteq [sibling : Nodes(E), desired : BOOLEAN]
<1> DEFINE V == SUBSET [sibling : Nodes(E), desired : BOOLEAN]
<1>1. PivotalPaths(E, i) \in [Nodes(E) -> V]
  BY PathsComputed DEF ReadOnce
<1>2. PivotalPaths(E, i)[n] \in V
  <2> HIDE DEF V
  <2> QED BY <1>1
<1> QED BY <1>2

(* uniqueCauseStructurallyFeasible never finds a sibling in the way.       *)
LEMMA AllPivotal ==
  ASSUME NEW E, ReadOnce(E), NEW i \in Conditions(E)
  PROVE  StructurallyPivotal(E, i)
<1> DEFINE free == Feasible(E, [j \in Conditions(E) |-> "notEvaluated"])
<1>1. \A n \in Nodes(E) : free[n] = BOOLEAN
  BY AllFeasible
<1>2. \A step \in PivotalPath(E, i) : step.sibling \in Nodes(E) /\ step.desired \in BOOLEAN
  BY PathsAre, RootReplay DEF PivotalPath
<1>3. \A step \in PivotalPath(E, i) : step.desired \in free[step.sibling]
  <2> HIDE DEF free
  <2> QED BY <1>1, <1>2
<1> QED BY <1>3 DEF StructurallyPivotal

(* A decision has finitely many conditions, which are numbers.             *)
LEMMA ConditionsAre ==
  ASSUME NEW E, WellFormed(E)
  PROVE  Conditions(E) \in SUBSET Nat /\ IsFiniteSet(Conditions(E))
<1> DEFINE leaves == {m \in DOMAIN E : E[m].kind = "condition"}
           f == [n \in leaves |-> E[n].index]
<1>1. Len(E) \in Nat /\ DOMAIN E = 1..Len(E)
  BY DEF WellFormed
<1>2. IsFiniteSet(leaves)
  <2>1. IsFiniteSet(1..Len(E))
    BY <1>1, FS_Interval
  <2>2. leaves \in SUBSET (1..Len(E))
    BY <1>1
  <2> QED BY <2>1, <2>2, FS_Subset
<1>3. f \in Surjection(leaves, Conditions(E))
  BY DEF Conditions, Surjection
<1>4. Conditions(E) \in SUBSET Nat
  BY DEF Conditions, WellFormed
<1> QED BY <1>2, <1>3, <1>4, FS_Surjection

-----------------------------------------------------------------------------
(***************************************************************************)
(* The order of prepared evaluations.                                      *)
(***************************************************************************)
(* The ranks of states tell them apart.                                    *)
LEMMA RanksDiffer ==
  \A a, b \in State : /\ Rank(a) \in Nat
                      /\ Rank(a) = Rank(b) => a = b
BY DEF State, Rank

(* Less orders the vectors of a decision strictly, and any two of them.    *)
LEMMA LessIsAnOrder ==
  ASSUME NEW C \in SUBSET Nat,
         NEW s \in [C -> State], NEW t \in [C -> State], NEW u \in [C -> State]
  PROVE  /\ ~Less(s, s)
         /\ Less(s, t) /\ Less(t, u) => Less(s, u)
         /\ s # t => Less(s, t) \/ Less(t, s)
<1>1. ~Less(s, s)
  BY RanksDiffer DEF Less
<1>2. ASSUME Less(s, t), Less(t, u)
      PROVE  Less(s, u)
  <2>1. PICK i \in C : Rank(s[i]) < Rank(t[i]) /\ \A j \in C : j < i => s[j] = t[j]
    BY <1>2 DEF Less
  <2>2. PICK k \in C : Rank(t[k]) < Rank(u[k]) /\ \A j \in C : j < k => t[j] = u[j]
    BY <1>2 DEF Less
  <2>3. i \in Nat /\ k \in Nat
    OBVIOUS
  <2>4. CASE i < k
    <3>1. Rank(s[i]) < Rank(u[i]) /\ \A j \in C : j < i => s[j] = u[j]
      BY <2>1, <2>2, <2>3, <2>4
    <3> QED BY <3>1 DEF Less
  <2>5. CASE k < i
    <3>1. Rank(s[k]) < Rank(u[k]) /\ \A j \in C : j < k => s[j] = u[j]
      BY <2>1, <2>2, <2>3, <2>5
    <3> QED BY <3>1 DEF Less
  <2>6. CASE i = k
    <3>1. Rank(s[i]) \in Nat /\ Rank(t[i]) \in Nat /\ Rank(u[i]) \in Nat
      BY RanksDiffer
    <3>2. Rank(s[i]) < Rank(u[i]) /\ \A j \in C : j < i => s[j] = u[j]
      BY <2>1, <2>2, <2>3, <2>6, <3>1
    <3> QED BY <3>2 DEF Less
  <2> QED BY <2>3, <2>4, <2>5, <2>6
<1>3. ASSUME s # t
      PROVE  Less(s, t) \/ Less(t, s)
  <2> DEFINE D == {i \in C : s[i] # t[i]}
             m == Min(D)
  <2>1. D # {}
    BY <1>3
  <2>2. m \in D /\ \A j \in D : m <= j
    BY <2>1, LeastIsIn
  <2> HIDE DEF m
  <2>3. \A j \in C : j < m => s[j] = t[j]
    BY <2>2
  <2>4. Rank(s[m]) < Rank(t[m]) \/ Rank(t[m]) < Rank(s[m])
    BY <2>2, RanksDiffer
  <2> QED BY <2>2, <2>3, <2>4 DEF Less
<1> QED BY <1>1, <1>2, <1>3

(* There are finitely many vectors of finitely many conditions.            *)
LEMMA VectorsFinite ==
  ASSUME NEW C, IsFiniteSet(C)
  PROVE  IsFiniteSet([C -> State])
<1> DEFINE Graph(s) == {<<i, s[i]>> : i \in C}
           g == [s \in [C -> State] |-> Graph(s)]
<1>1. IsFiniteSet(State)
  <2>1. State = {"notEvaluated"} \cup {"false"} \cup {"true"}
    BY DEF State
  <2> QED BY <2>1, FS_Singleton, FS_Union
<1>2. IsFiniteSet(SUBSET (C \X State))
  BY <1>1, FS_Product, FS_SUBSET
<1>3. g \in [[C -> State] -> SUBSET (C \X State)]
  OBVIOUS
<1>4. ASSUME NEW s \in [C -> State], NEW t \in [C -> State], Graph(s) = Graph(t)
      PROVE  s = t
  <2>1. \A i \in C : s[i] = t[i]
    <3>1. TAKE i \in C
    <3>2. <<i, s[i]>> \in Graph(t)
      BY <1>4
    <3> QED BY <3>2
  <2> QED BY <2>1
<1>5. g \in Injection([C -> State], SUBSET (C \X State))
  <2>1. \A s, t \in [C -> State] : g[s] = g[t] => s = t
    BY <1>4
  <2> HIDE DEF g
  <2> QED BY <1>3, <2>1 DEF Injection, IsInjective
<1> QED BY <1>2, <1>5, FS_Injection, Zenon

(***************************************************************************)
(* prepareEvaluations lists the vectors: counting those that come before   *)
(* one numbers them from zero without a gap.                               *)
(***************************************************************************)
LEMMA PreparedLists ==
  ASSUME NEW C \in SUBSET Nat, NEW S \in SUBSET [C -> State], IsFiniteSet(S)
  PROVE  /\ Cardinality(S) \in Nat
         /\ Prepared(S) \in [1..Cardinality(S) -> S]
         /\ \A s \in S : \E k \in 1..Cardinality(S) : Prepared(S)[k] = s
<1> DEFINE Earlier(s) == {t \in S : Less(t, s)}
           n == Cardinality(S)
           f == [s \in S |-> Cardinality(Earlier(s))]
           Numbered(k) == CHOOSE s \in S : Cardinality({t \in S : Less(t, s)}) = k - 1
<1>1. n \in Nat
  BY FS_CardinalityType
<1>2. ASSUME NEW s \in S
      PROVE  IsFiniteSet(Earlier(s)) /\ f[s] \in 0..(n - 1)
  <2>1. Earlier(s) \in SUBSET S /\ s \notin Earlier(s)
    BY LessIsAnOrder
  <2>2. /\ IsFiniteSet(Earlier(s)) /\ Cardinality(Earlier(s)) <= n
        /\ (n = Cardinality(Earlier(s)) => S = Earlier(s))
    BY <2>1, FS_Subset
  <2>3. Cardinality(Earlier(s)) \in Nat
    BY <2>2, FS_CardinalityType
  <2> QED BY <1>1, <2>1, <2>2, <2>3
<1>3. f \in [S -> 0..(n - 1)] /\ \A s \in S : f[s] = Cardinality(Earlier(s))
  BY <1>2
<1> HIDE DEF f, n
<1>4. ASSUME NEW s \in S, NEW t \in S, Less(s, t)
      PROVE  f[s] < f[t]
  <2>1. Earlier(s) \in SUBSET Earlier(t) /\ s \in Earlier(t) /\ s \notin Earlier(s)
    BY <1>4, LessIsAnOrder
  <2>2. /\ Cardinality(Earlier(s)) <= Cardinality(Earlier(t))
        /\ (Cardinality(Earlier(t)) = Cardinality(Earlier(s)) => Earlier(t) = Earlier(s))
    BY <1>2, <2>1, FS_Subset
  <2>3. Cardinality(Earlier(s)) \in Int /\ Cardinality(Earlier(t)) \in Int
    BY <1>1, <1>3
  <2> QED BY <1>3, <2>1, <2>2, <2>3
<1>5. f \in Injection(S, 0..(n - 1))
  <2>1. \A s, t \in S : f[s] = f[t] => s = t
    <3>1. TAKE s, t \in S
    <3>2. f[s] \in Int /\ f[t] \in Int
      BY <1>1, <1>3
    <3>3. Less(s, t) => f[s] < f[t]
      BY <1>4
    <3>4. Less(t, s) => f[t] < f[s]
      BY <1>4
    <3>5. s # t => Less(s, t) \/ Less(t, s)
      BY LessIsAnOrder
    <3> QED BY <3>2, <3>3, <3>4, <3>5
  <2> QED BY <1>3, <2>1 DEF Injection, IsInjective
<1>6. IsFiniteSet(0..(n - 1)) /\ Cardinality(0..(n - 1)) = n
  <2>1. 0 \in Int /\ n - 1 \in Int
    BY <1>1
  <2>2. /\ IsFiniteSet(0..(n - 1))
        /\ Cardinality(0..(n - 1)) = IF 0 > n - 1 THEN 0 ELSE n - 1 - 0 + 1
    BY <2>1, FS_Interval
  <2> QED BY <1>1, <2>2
<1>7. f \in Surjection(S, 0..(n - 1))
  <2>1. Cardinality(S) = n
    BY DEF n
  <2> QED BY <1>5, <1>6, <2>1, FS_Injection
<1>8. ASSUME NEW k \in 1..n
      PROVE  Prepared(S)[k] \in S /\ f[Prepared(S)[k]] = k - 1
  <2>1. k - 1 \in 0..(n - 1)
    BY <1>1
  <2>2. \E s \in S : f[s] = k - 1
    BY <1>7, <2>1 DEF Surjection
  <2>3. \E s \in S : Cardinality({t \in S : Less(t, s)}) = k - 1
    BY <1>3, <2>2
  <2>4. Prepared(S)[k] = Numbered(k)
    BY DEF Prepared, n
  <2>5. Prepared(S)[k] \in S /\ Cardinality({t \in S : Less(t, Prepared(S)[k])}) = k - 1
    BY <2>3, <2>4, Zenon
  <2> QED BY <1>3, <2>5
<1>9. Prepared(S) \in [1..n -> S]
  <2>1. Prepared(S) = [k \in 1..n |-> Numbered(k)]
    BY DEF Prepared, n
  <2>2. \A k \in 1..n : Prepared(S)[k] \in S /\ Prepared(S)[k] = Numbered(k)
    BY <1>8, <2>1
  <2> HIDE DEF Numbered
  <2> QED BY <2>1, <2>2
<1>10. ASSUME NEW s \in S
       PROVE  \E k \in 1..n : Prepared(S)[k] = s
  <2>1. f[s] + 1 \in 1..n /\ (f[s] + 1) - 1 = f[s]
    BY <1>1, <1>3
  <2>2. Prepared(S)[f[s] + 1] \in S /\ f[Prepared(S)[f[s] + 1]] = f[s]
    BY <1>8, <2>1
  <2>3. Prepared(S)[f[s] + 1] = s
    BY <1>3, <1>5, <2>2 DEF Injection, IsInjective
  <2> QED BY <2>1, <2>3
<1> QED BY <1>1, <1>9, <1>10 DEF n
-----------------------------------------------------------------------------
(***************************************************************************)
(* The search.  No pair before the one that the scan is at matches; and a  *)
(* suite that is scanned in full is never given up early.                  *)
(***************************************************************************)
SuiteInv ==
  /\ target \in Conditions(expression)
  /\ Len(evaluations) \in Nat
  /\ evaluations \in [1..Len(evaluations) -> Vectors(expression)]

ScanInv ==
  /\ first \in Nat /\ second \in Nat /\ probes \in Nat
  /\ 1 <= first /\ first < second
  /\ first <= Len(evaluations) \/ first = 1
  /\ second <= Len(evaluations) + 1 \/ second = first + 1
  /\ probes + first + 1 <= (first - 1) * Len(evaluations) + second
  /\ \A k, l \in Indexes : k < l /\ (k < first \/ (k = first /\ l < second))
                              => ~PairMatches(k, l)

FullInv ==
  Len(evaluations) <= SmallSuite =>
    \A k, l \in Indexes : k < l => ~PairMatches(k, l)

SearchInv ==
  /\ SuiteInv
  /\ phase \in {"probing", "indexing", "done"}
  /\ phase # "done" => witness = {}
  /\ phase = "probing" => ScanInv
  /\ phase = "indexing" => FullInv
  /\ FindsTheFirstPair

(* The pairs of the definition are those that the code matches.            *)
LEMMA PairsMatch ==
  ASSUME SuiteInv
  PROVE  FirstPairs = {w \in Indexes \X Indexes : w[1] < w[2] /\ PairMatches(w[1], w[2])}
<1>1. ASSUME NEW w \in Indexes \X Indexes
      PROVE  <<evaluations[w[1]], evaluations[w[2]]>> \in PairsIn({evaluations[k] : k \in Indexes})
               <=> PairMatches(w[1], w[2])
  <2> DEFINE s == evaluations[w[1]]
             t == evaluations[w[2]]
             V == {evaluations[k] : k \in Indexes}
  <2>1. s \in V /\ t \in V /\ s[target] \in State /\ t[target] \in State
    BY <1>1 DEF SuiteInv, Indexes, Vectors
  <2>2. {s[target], t[target]} = {"true", "false"}
          <=> /\ s[target] # "notEvaluated" /\ t[target] # "notEvaluated"
              /\ s[target] # t[target]
    BY <2>1 DEF State
  <2>3. PairMatches(w[1], w[2])
          <=> /\ ResultOf(expression, s) # ResultOf(expression, t)
              /\ {s[target], t[target]} = {"true", "false"}
              /\ \A i \in Conditions(expression) \ {target} : s[i] = t[i]
    BY <2>2 DEF PairMatches, Result, States
  <2>4. <<s, t>> \in PairsIn(V)
          <=> /\ {s[target], t[target]} = {"true", "false"}
              /\ ResultOf(expression, s) # ResultOf(expression, t)
              /\ \A i \in Conditions(expression) \ {target} : s[i] = t[i]
    <3>1. <<s, t>> \in V \X V /\ <<s, t>>[1] = s /\ <<s, t>>[2] = t
      BY <2>1
    <3> HIDE DEF s, t, V
    <3> QED BY <3>1 DEF PairsIn
  <2> QED BY <2>3, <2>4
<1> QED BY <1>1 DEF FirstPairs

(* What the property says of a witness that is found.                      *)
IsFirst(w) ==
  IF FirstPairs = {} THEN w = {}
  ELSE /\ w \subseteq FirstPairs
       /\ \E x \in w : \A v \in FirstPairs :
            x[1] < v[1] \/ (x[1] = v[1] /\ x[2] <= v[2])

(* A suite in which no pair matches has no first pair.                     *)
LEMMA NoneMatches ==
  ASSUME SuiteInv, \A k, l \in Indexes : k < l => ~PairMatches(k, l)
  PROVE  IsFirst({})
<1>1. FirstPairs = {}
  BY PairsMatch
<1> QED BY <1>1 DEF IsFirst

(* The pair that is found is the first of the definition if it matches and *)
(* none before it does.                                                    *)
LEMMA FirstIsFound ==
  ASSUME SuiteInv, NEW k \in Indexes, NEW l \in Indexes, k < l, PairMatches(k, l),
         \A i, j \in Indexes : i < j /\ (i < k \/ (i = k /\ j < l)) => ~PairMatches(i, j)
  PROVE  IsFirst({<<k, l>>})
<1>1. <<k, l>> \in FirstPairs
  BY PairsMatch
<1>2. ASSUME NEW v \in FirstPairs
      PROVE  k < v[1] \/ (k = v[1] /\ l <= v[2])
  <2>1. v[1] \in Indexes /\ v[2] \in Indexes /\ v[1] < v[2] /\ PairMatches(v[1], v[2])
    BY PairsMatch
  <2>2. ~(v[1] < k \/ (v[1] = k /\ v[2] < l))
    BY <2>1
  <2> DEFINE i == v[1]
             j == v[2]
  <2>3. k \in Nat /\ l \in Nat /\ i \in Nat /\ j \in Nat
    BY <2>1 DEF Indexes, SuiteInv
  <2>4. ~(i < k \/ (i = k /\ j < l))
    BY <2>2
  <2> HIDE DEF i, j
  <2>5. k < i \/ (k = i /\ l <= j)
    BY <2>3, <2>4
  <2> QED BY <2>5 DEF i, j
<1>3. FirstPairs # {} /\ {<<k, l>>} \subseteq FirstPairs
  BY <1>1
<1>4. \E x \in {<<k, l>>} : \A v \in FirstPairs : x[1] < v[1] \/ (x[1] = v[1] /\ x[2] <= v[2])
  <2> WITNESS <<k, l>> \in {<<k, l>>}
  <2> QED BY <1>2
<1> QED BY <1>3, <1>4 DEF IsFirst

(* The partners of an evaluation, by value and result, are the later ones  *)
(* that it matches.                                                        *)
LEMMA PartnersMatch ==
  ASSUME SuiteInv, NEW k \in Indexes, States(k)[target] # "notEvaluated"
  PROVE  Partners(k) = {l \in Indexes : k < l /\ PairMatches(k, l)}
<1>1. States(k)[target] \in {"true", "false"} /\ Result(k) \in BOOLEAN
  BY DEF SuiteInv, Indexes, Vectors, States, State, Result, ResultOf
<1>2. ASSUME NEW l \in Indexes
      PROVE  l \in Group(k, ~Result(k), Opposite(States(k)[target])) <=> PairMatches(k, l)
  <2>1. States(l)[target] \in {"notEvaluated", "true", "false"} /\ Result(l) \in BOOLEAN
    BY <1>2 DEF SuiteInv, Indexes, Vectors, States, State, Result, ResultOf
  <2>2. States(l)[target] = Opposite(States(k)[target])
          <=> States(l)[target] # "notEvaluated" /\ States(k)[target] # States(l)[target]
    BY <1>1, <2>1 DEF Opposite
  <2>3. Result(l) = ~Result(k) <=> Result(k) # Result(l)
    BY <1>1, <2>1
  <2>4. (\A i \in Conditions(expression) \ {target} : States(l)[i] = States(k)[i])
          <=> \A i \in Conditions(expression) \ {target} : States(k)[i] = States(l)[i]
    OBVIOUS
  <2> QED BY <1>2, <2>2, <2>3, <2>4 DEF Group, PairMatches
<1>3. ASSUME NEW l \in Indexes
      PROVE  l > k <=> k < l
  BY DEF SuiteInv, Indexes
<1>4. Group(k, ~Result(k), Opposite(States(k)[target])) \subseteq Indexes
  BY DEF Group
<1> QED BY <1>2, <1>3, <1>4 DEF Partners

(* The definitions of a step that leaves the suite alone.                  *)
LEMMA SuiteStays ==
  ASSUME SuiteInv, UNCHANGED <<expression, evaluations, target>>
  PROVE  /\ SuiteInv' /\ Indexes' = Indexes
         /\ \A k, l \in Indexes : PairMatches(k, l)' = PairMatches(k, l)
BY DEF SuiteInv, Indexes, PairMatches, Result, States

(* A step that ends with the first pair, or with none if there is none.    *)
LEMMA SearchEnds ==
  ASSUME SuiteInv, UNCHANGED <<expression, evaluations, target>>, phase' = "done",
         IsFirst(witness')
  PROVE  SearchInv'
<1>1. SuiteInv'
  BY SuiteStays
<1>2. FirstPairs' = FirstPairs
  BY DEF FirstPairs, PairsIn, Indexes
<1>3. FindsTheFirstPair'
  BY <1>2 DEF FindsTheFirstPair, IsFirst
<1> QED BY <1>1, <1>3 DEF SearchInv

(* The scan begins at the first pair.                                      *)
LEMMA ScanStarts ==
  ASSUME WellFormed(expression), NEW suite \in SUBSET Vectors(expression),
         evaluations = Prepared(suite), target \in Conditions(expression),
         first = 1, second = 2, probes = 0, phase = "probing", witness = {}
  PROVE  SearchInv
<1>1. Conditions(expression) \in SUBSET Nat /\ IsFiniteSet(Conditions(expression))
  BY ConditionsAre
<1>2. suite \in SUBSET [Conditions(expression) -> State]
  BY DEF Vectors
<1>3. IsFiniteSet(suite)
  BY <1>1, <1>2, VectorsFinite, FS_Subset
<1>4. /\ Cardinality(suite) \in Nat
      /\ Prepared(suite) \in [1..Cardinality(suite) -> suite]
  BY <1>1, <1>2, <1>3, PreparedLists
<1>5. Len(evaluations) = Cardinality(suite) /\ evaluations \in [1..Cardinality(suite) -> suite]
  BY <1>4
<1>6. evaluations \in [1..Len(evaluations) -> Vectors(expression)]
  BY <1>5
<1>7. SuiteInv
  BY <1>4, <1>5, <1>6 DEF SuiteInv
<1>8. 0 * Len(evaluations) = 0
  BY <1>4, <1>5
<1>9. ScanInv
  <2>1. \A k, l \in Indexes : ~(k < l /\ (k < first \/ (k = first /\ l < second)))
    BY <1>4, <1>5 DEF Indexes
  <2>2. (first - 1) * Len(evaluations) = 0
    BY <1>8
  <2> QED BY <2>1, <2>2 DEF ScanInv
<1> QED BY <1>7, <1>9 DEF SearchInv, FindsTheFirstPair

(* So it does in every decision that is analyzed.                          *)
LEMMA ScanBegins == Init => SearchInv
BY ScanStarts, ExpressionsAssumption DEF Init

(* A probe finds the first pair, or goes on to the next: a small suite has *)
(* fewer pairs than its limit.                                             *)
LEMMA ProbeSearches ==
  ASSUME SearchInv, Probe
  PROVE  SearchInv'
<1> DEFINE n == Len(evaluations)
           p == (first - 1) * n
<1>1. /\ SuiteInv /\ ScanInv /\ witness = {} /\ phase = "probing"
      /\ UNCHANGED <<expression, evaluations, target>>
  BY DEF SearchInv, Probe
<1>2. /\ SuiteInv' /\ Indexes' = Indexes
      /\ \A k, l \in Indexes : PairMatches(k, l)' = PairMatches(k, l)
  BY <1>1, SuiteStays
<1>3. /\ n \in Nat /\ first \in Nat /\ second \in Nat /\ probes \in Nat
      /\ 1 <= first /\ first < second /\ second <= n
      /\ probes + first + 1 <= p + second
  BY <1>1 DEF SuiteInv, ScanInv, Probe
<1>4. first \in Indexes /\ second \in Indexes
  BY <1>3 DEF Indexes
<1>5. CASE PairMatches(first, second)
  <2>1. witness' = {<<first, second>>} /\ phase' = "done"
    BY <1>5 DEF Probe
  <2>2. IsFirst({<<first, second>>})
    BY <1>1, <1>3, <1>4, <1>5, FirstIsFound DEF ScanInv
  <2> QED BY <1>1, <2>1, <2>2, SearchEnds
<1>6. CASE ~PairMatches(first, second)
  <2>1. /\ probes' = probes + 1 /\ second' = second + 1
        /\ phase' = IF probes' = FullScanLimit THEN "indexing" ELSE phase
        /\ UNCHANGED <<first, witness>>
    BY <1>6 DEF Probe
  <2>2. ScanInv'
    <3>1. \A k, l \in Indexes' : k < l /\ (k < first' \/ (k = first' /\ l < second'))
                                  => ~PairMatches(k, l)'
      <4>1. ASSUME NEW k \in Indexes, NEW l \in Indexes, k < l,
                   k < first \/ (k = first /\ l < second + 1)
            PROVE  ~PairMatches(k, l)
        <5>1. k \in Nat /\ l \in Nat
          BY <1>3 DEF Indexes
        <5>2. \/ k < first \/ (k = first /\ l < second)
              \/ (k = first /\ l = second)
          BY <1>3, <4>1, <5>1
        <5> QED BY <1>1, <1>6, <4>1, <5>2 DEF ScanInv
      <4> QED BY <1>2, <2>1, <4>1
    <3>2. probes' + first' + 1 <= (first' - 1) * Len(evaluations') + second'
      <4>1. (first' - 1) * Len(evaluations') = p
        BY <1>1, <2>1
      <4>2. p \in Int
        BY <1>3
      <4> HIDE DEF p
      <4> QED BY <1>3, <2>1, <4>1, <4>2
    <3>3. /\ first' \in Nat /\ second' \in Nat /\ probes' \in Nat
          /\ 1 <= first' /\ first' < second'
          /\ first' <= Len(evaluations') \/ first' = 1
          /\ second' <= Len(evaluations') + 1
      BY <1>1, <1>3, <2>1
    <3> QED BY <3>1, <3>2, <3>3 DEF ScanInv
  <2>3. n <= SmallSuite => probes' # FullScanLimit
    <3>1. p + n = first * n /\ first * n <= n * n /\ p \in Int /\ n * n \in Int
      BY <1>3
    <3> DEFINE q == n * n
               f == first * n
    <3>2. p + n = f /\ f <= q /\ p \in Int /\ q \in Int /\ f \in Int
      BY <3>1
    <3> HIDE DEF p, q, f
    <3>3. probes + 1 < q
      BY <1>3, <3>2
    <3>4. n <= SmallSuite => FullScanLimit = q
      BY DEF FullScanLimit, q
    <3> QED BY <1>3, <2>1, <3>2, <3>3, <3>4
  <2>4. FullInv' \/ phase' = "probing"
    BY <1>1, <2>1, <2>3 DEF FullInv
  <2>5. phase' \in {"probing", "indexing"} /\ witness' = {}
    BY <1>1, <2>1
  <2> QED BY <1>2, <2>2, <2>4, <2>5 DEF SearchInv, FindsTheFirstPair
<1> QED BY <1>5, <1>6

(* The next evaluation is the first of pairs that have not been tried; the *)
(* last one is of none.                                                    *)
LEMMA NextFirstSearches ==
  ASSUME SearchInv, NextFirst
  PROVE  SearchInv'
<1> DEFINE n == Len(evaluations)
           p == (first - 1) * n
<1>1. /\ SuiteInv /\ ScanInv /\ witness = {} /\ phase = "probing"
      /\ UNCHANGED <<expression, evaluations, target, probes, witness>>
  BY DEF SearchInv, NextFirst
<1>2. /\ SuiteInv' /\ Indexes' = Indexes
      /\ \A k, l \in Indexes : PairMatches(k, l)' = PairMatches(k, l)
  BY <1>1, SuiteStays
<1>3. /\ n \in Nat /\ first \in Nat /\ second \in Nat /\ probes \in Nat
      /\ 1 <= first /\ first < second /\ n < second
      /\ first <= n \/ first = 1
      /\ probes + first + 1 <= p + second
  BY <1>1 DEF SuiteInv, ScanInv, NextFirst
<1>4. \A k, l \in Indexes : k < l /\ k <= first => ~PairMatches(k, l)
  <2>1. ASSUME NEW k \in Indexes, NEW l \in Indexes, k < l, k <= first
        PROVE  ~PairMatches(k, l)
    <3>1. k \in Nat /\ l \in Nat /\ l <= n
      BY <1>3 DEF Indexes
    <3>2. k < first \/ (k = first /\ l < second)
      BY <1>3, <2>1, <3>1
    <3> QED BY <1>1, <2>1, <3>2 DEF ScanInv
  <2> QED BY <2>1
<1>5. CASE first < n
  <2>1. first' = first + 1 /\ second' = first + 2 /\ phase' = "probing"
    BY <1>1, <1>5 DEF NextFirst
  <2>2. \A k, l \in Indexes' : k < l /\ (k < first' \/ (k = first' /\ l < second'))
                                => ~PairMatches(k, l)'
    <3>1. ASSUME NEW k \in Indexes, NEW l \in Indexes, k < l,
                 k < first + 1 \/ (k = first + 1 /\ l < first + 2)
          PROVE  ~PairMatches(k, l)
      <4>1. k \in Nat /\ l \in Nat
        BY <1>3 DEF Indexes
      <4>2. k <= first
        BY <1>3, <3>1, <4>1
      <4> QED BY <1>4, <3>1, <4>2
    <3> QED BY <1>2, <2>1, <3>1
  <2>3. probes' + first' + 1 <= (first' - 1) * Len(evaluations') + second'
    <3>1. (first' - 1) * Len(evaluations') = first * n
      BY <1>1, <1>3, <2>1
    <3>2. first * n = p + n /\ p \in Int
      BY <1>3
    <3>3. second <= n + 1 \/ second = first + 1
      BY <1>1 DEF ScanInv
    <3> HIDE DEF p
    <3> QED BY <1>1, <1>3, <1>5, <2>1, <3>1, <3>2, <3>3
  <2>4. /\ first' \in Nat /\ second' \in Nat /\ probes' \in Nat
        /\ 1 <= first' /\ first' < second'
        /\ first' <= Len(evaluations') \/ first' = 1
        /\ second' <= Len(evaluations') + 1 \/ second' = first' + 1
    BY <1>1, <1>3, <1>5, <2>1
  <2>5. ScanInv'
    BY <2>2, <2>3, <2>4 DEF ScanInv
  <2> QED BY <1>1, <1>2, <2>1, <2>5 DEF SearchInv, FindsTheFirstPair
<1>6. CASE ~(first < n)
  <2>1. phase' = "indexing"
    BY <1>6 DEF NextFirst
  <2>2. ASSUME NEW k \in Indexes, NEW l \in Indexes, k < l
        PROVE  ~PairMatches(k, l)
    <3>1. k <= first
      BY <1>3, <1>6 DEF Indexes
    <3> QED BY <1>4, <2>2, <3>1
  <2>3. FullInv'
    BY <1>2, <2>2 DEF FullInv
  <2> QED BY <1>1, <1>2, <2>1, <2>3 DEF SearchInv, FindsTheFirstPair
<1> QED BY <1>5, <1>6

(* A small suite was scanned in full.                                      *)
LEMMA GiveUpSearches ==
  ASSUME SearchInv, GiveUp
  PROVE  SearchInv'
<1>1. /\ SuiteInv /\ FullInv /\ witness' = {} /\ phase' = "done"
      /\ UNCHANGED <<expression, evaluations, target>>
  BY DEF SearchInv, GiveUp
<1>2. IsFirst({})
  BY <1>1, NoneMatches DEF FullInv, GiveUp
<1> QED BY <1>1, <1>2, SearchEnds

(* The index finds the first pair of a suite of any size.                  *)
LEMMA IndexSearches ==
  ASSUME SearchInv, Index
  PROVE  SearchInv'
<1> DEFINE C == {k \in Indexes : States(k)[target] # "notEvaluated" /\ Partners(k) # {}}
           best == Min(C)
<1>1. /\ SuiteInv /\ phase' = "done"
      /\ witness' = IF C = {} THEN {} ELSE {<<best, Min(Partners(best))>>}
      /\ UNCHANGED <<expression, evaluations, target>>
  BY DEF SearchInv, Index
<1>2. Indexes \subseteq Nat
  BY DEF Indexes
<1>3. ASSUME NEW k \in Indexes, NEW l \in Indexes, k < l, PairMatches(k, l)
      PROVE  k \in C /\ l \in Partners(k)
  <2>1. States(k)[target] # "notEvaluated"
    BY <1>3 DEF PairMatches
  <2> QED BY <1>1, <1>3, <2>1, PartnersMatch
<1>4. CASE C = {}
  <2>1. IsFirst({})
    BY <1>1, <1>3, <1>4, NoneMatches
  <2> QED BY <1>1, <1>4, <2>1, SearchEnds
<1>5. CASE C # {}
  <2> DEFINE mate == Min(Partners(best))
  <2>1. best \in C /\ \A k \in C : best <= k
    BY <1>2, <1>5, LeastIsIn
  <2> HIDE DEF best
  <2>2. Partners(best) = {l \in Indexes : best < l /\ PairMatches(best, l)}
    BY <1>1, <2>1, PartnersMatch
  <2>3. mate \in Partners(best) /\ \A l \in Partners(best) : mate <= l
    BY <1>2, <2>1, <2>2, LeastIsIn
  <2> HIDE DEF mate
  <2>4. /\ best \in Indexes /\ mate \in Indexes /\ best < mate
        /\ PairMatches(best, mate)
    BY <2>1, <2>2, <2>3
  <2>5. ASSUME NEW i \in Indexes, NEW j \in Indexes, i < j,
               i < best \/ (i = best /\ j < mate), PairMatches(i, j)
        PROVE  FALSE
    <3>1. i \in C /\ j \in Partners(i)
      BY <1>3, <2>5
    <3>2. i \in Nat /\ j \in Nat /\ best \in Nat /\ mate \in Nat
      BY <1>2, <2>4
    <3>3. best <= i
      BY <2>1, <3>1
    <3>4. i = best /\ j < mate
      BY <2>5, <3>2, <3>3
    <3>5. mate <= j
      BY <2>3, <3>1, <3>4
    <3> QED BY <3>2, <3>4, <3>5
  <2>6. IsFirst({<<best, mate>>})
    BY <1>1, <2>4, <2>5, FirstIsFound
  <2>7. witness' = {<<best, mate>>}
    BY <1>1, <1>5 DEF best, mate
  <2> QED BY <1>1, <2>6, <2>7, SearchEnds
<1> QED BY <1>4, <1>5

(* A step of the search keeps its invariant.                               *)
LEMMA SearchKeeps == SearchInv /\ [Next]_vars => SearchInv'
<1> SUFFICES ASSUME SearchInv, [Next]_vars PROVE SearchInv'
  OBVIOUS
<1>1. CASE UNCHANGED vars
  <2>1. UNCHANGED <<expression, evaluations, target, first, second, probes, phase, witness>>
    BY <1>1 DEF vars
  <2>2. /\ SuiteInv' /\ Indexes' = Indexes
        /\ \A k, l \in Indexes : PairMatches(k, l)' = PairMatches(k, l)
    BY <2>1, SuiteStays DEF SearchInv
  <2>3. FirstPairs' = FirstPairs
    BY <2>1 DEF FirstPairs, PairsIn, Indexes
  <2> QED BY <2>1, <2>2, <2>3 DEF SearchInv, ScanInv, FullInv, FindsTheFirstPair
<1> QED BY <1>1, ProbeSearches, NextFirstSearches, GiveUpSearches, IndexSearches DEF Next

(***************************************************************************)
(* The inductive invariant of the search, for any decision, suite, limit   *)
(* of probes and size up to which suites are scanned in full.              *)
(***************************************************************************)
THEOREM UniqueCauseInvariant == Spec => []SearchInv
BY ScanBegins, SearchKeeps, PTL DEF Spec

(***************************************************************************)
(* Whatever the limits, the witness is the first pair that D18 admits, and *)
(* none is reported only if none is there (uniqueCauseWitness).            *)
(***************************************************************************)
THEOREM UniqueCauseFindsTheFirstPair == Spec => []FindsTheFirstPair
<1>1. SearchInv => FindsTheFirstPair
  BY DEF SearchInv
<1> QED BY <1>1, UniqueCauseInvariant, PTL
-----------------------------------------------------------------------------
(* The status of a condition of a decision without constants is honest.    *)
LEMMA HonestStatus ==
  ASSUME ReadOnce(expression), target \in Conditions(expression)
  PROVE  StatusIsHonest
<1>2. StructurallyPivotal(expression, target)
  BY AllPivotal
<1>3. ASSUME NEW p \in PairsIn(Vectors(expression))
      PROVE  Compatible(expression, target)
  <2>1. IsPair(expression, target, p[1], p[2])
    BY <1>3 DEF PairsIn, IsPair
  <2> QED BY <2>1, PairIsCompatible
<1>4. ASSUME Compatible(expression, target)
      PROVE  PairsIn(Vectors(expression)) # {}
  <2>1. PICK s, t : IsPair(expression, target, s, t)
    BY <1>4, CompatibleHasPair
  <2>2. <<s, t>> \in PairsIn(Vectors(expression))
    BY <2>1 DEF PairsIn, IsPair
  <2> QED BY <2>2
<1>5. Status = "infeasible" => ~Compatible(expression, target)
  BY <1>2 DEF Status, Infeasible
<1>6. Status = "notCovered" => Compatible(expression, target)
  BY DEF Status, Infeasible
<1> QED BY <1>3, <1>4, <1>5, <1>6 DEF StatusIsHonest, InfeasibleMeansImpossible

DecisionInv == expression \in Expressions /\ target \in Conditions(expression)

(***************************************************************************)
(* The status of a condition of a decision without constants is honest: it *)
(* is called infeasible only if no suite could cover it, and not covered   *)
(* only if some suite could (uniqueCauseStructurallyFeasible).             *)
(***************************************************************************)
THEOREM UniqueCauseStatusIsHonest ==
  ASSUME \A E \in Expressions : WithoutConstants(E)
  PROVE  Spec => []StatusIsHonest
<1>1. Init => DecisionInv
  BY DEF Init, DecisionInv
<1>2. DecisionInv /\ [Next]_vars => DecisionInv'
  BY DEF DecisionInv, Next, vars, Probe, NextFirst, GiveUp, Index
<1>3. DecisionInv => StatusIsHonest
  BY ExpressionsAssumption, HonestStatus DEF DecisionInv, ReadOnce
<1> QED BY <1>1, <1>2, <1>3, PTL DEF Spec
-----------------------------------------------------------------------------
(* The root has every condition below it, and a condition has one leaf.    *)
LEMMA LeavesAre ==
  ASSUME NEW E, WellFormed(E), NEW i \in Conditions(E)
  PROVE  /\ i \in Below(E)[1]
         /\ LeafOf(E, i) \in Nodes(E)
         /\ E[LeafOf(E, i)].kind = "condition" /\ E[LeafOf(E, i)].index = i
         /\ \A n \in Nodes(E) : E[n].kind = "condition" /\ E[n].index = i => n = LeafOf(E, i)
<1> DEFINE B == Below(E)
           T == {n \in Nodes(E) : B[n] \subseteq B[1]}
<1>1. DOMAIN E = Nodes(E) /\ 1 \in Nodes(E)
  BY DEF WellFormed, Nodes
<1>2. \E n \in DOMAIN E : E[n].kind = "condition" /\ E[n].index = i
  BY DEF Conditions
<1>3. LeafOf(E, i) \in DOMAIN E /\ E[LeafOf(E, i)].kind = "condition" /\ E[LeafOf(E, i)].index = i
  BY <1>2, Zenon DEF LeafOf
<1> DEFINE leaf == LeafOf(E, i)
<1> HIDE DEF leaf
<1>4. leaf \in Nodes(E) /\ E[leaf].kind = "condition" /\ E[leaf].index = i
  BY <1>1, <1>3 DEF leaf
<1>5. ASSUME NEW n \in Nodes(E), E[n].kind = "condition", E[n].index = i
      PROVE  n = leaf
  BY <1>1, <1>4, <1>5 DEF WellFormed
<1>6. T = Nodes(E)
  <2>1. T \in SUBSET Nodes(E) /\ 1 \in T
    BY <1>1
  <2>2. ASSUME NEW n \in T
        PROVE  /\ HasOperand(E, n) => E[n].left \in T
               /\ IsBinary(E, n) => E[n].right \in T
    <3>1. n \in Nodes(E) /\ B[n] \subseteq B[1]
      OBVIOUS
    <3> HIDE DEF B
    <3>2. /\ HasOperand(E, n) => E[n].left \in Nodes(E)
          /\ IsBinary(E, n) => E[n].right \in Nodes(E)
      BY <3>1, NodeIs DEF HasOperand, IsBinary
    <3>3. /\ HasOperand(E, n) => B[E[n].left] \subseteq B[n]
          /\ IsBinary(E, n) => B[E[n].right] \subseteq B[n]
      BY <3>1, BelowComputed DEF B, HasOperand, IsBinary
    <3> QED BY <3>1, <3>2, <3>3
  <2> HIDE DEF T
  <2> QED BY <2>1, <2>2, OperandsLast
<1>7. i \in B[leaf]
  BY <1>4, BelowComputed
<1>8. i \in B[1]
  <2>1. leaf \in T
    BY <1>4, <1>6
  <2> QED BY <1>7, <2>1
<1> QED BY <1>4, <1>5, <1>8 DEF leaf

-----------------------------------------------------------------------------
(***************************************************************************)
(* Complete assignments: a completion of a vector takes at every node that *)
(* is replayed the value of the replay; and the value of a node depends on *)
(* the conditions below it.                                                *)
(***************************************************************************)
(* A completion follows the replay.                                        *)
LEMMA CompletionReplays ==
  ASSUME NEW E, WellFormed(E), NEW s, NEW z \in Comp(E, s), NEW n \in Nodes(E)
  PROVE  NodeOutcomes(E, s)[n] \subseteq {NodeValues(E, z)[n]}
<1> DEFINE O == NodeOutcomes(E, s)
           V == NodeValues(E, z)
           T == {m \in Nodes(E) : O[m] \subseteq {V[m]}}
<1>1. z \in Assignments(E) /\ \A i \in Conditions(E) : s[i] \in {"notEvaluated", StateOf(z[i])}
  BY DEF Comp
<1>2. O \in [Nodes(E) -> SUBSET BOOLEAN] /\ V \in [Nodes(E) -> BOOLEAN]
  BY <1>1, OutcomesComputed, ValuesComputed
<1>3. ASSUME NEW m \in Nodes(E),
             HasOperand(E, m) => E[m].left \in T,
             IsBinary(E, m) => E[m].right \in T
      PROVE  m \in T
  <2>1. CASE E[m].kind = "condition"
    <3>1. O[m] = {b \in BOOLEAN : s[E[m].index] = StateOf(b)} /\ V[m] = z[E[m].index]
      BY <1>1, <2>1, OutcomesComputed, ValuesComputed
    <3>2. s[E[m].index] \in {"notEvaluated", StateOf(z[E[m].index])} /\ z[E[m].index] \in BOOLEAN
      BY <1>1, <2>1, NodeIs DEF Assignments
    <3> HIDE DEF O, V
    <3> QED BY <3>1, <3>2 DEF StateOf
  <2>2. CASE E[m].kind = "constant"
    <3>1. O[m] = {E[m].constant} /\ V[m] = E[m].constant
      BY <1>1, <2>2, OutcomesComputed, ValuesComputed
    <3> QED BY <3>1
  <2>3. CASE E[m].kind = "not"
    <3>1. O[m] = {~b : b \in O[E[m].left]} /\ V[m] = ~V[E[m].left]
      BY <1>1, <2>3, OutcomesComputed, ValuesComputed
    <3>2. O[E[m].left] \subseteq {V[E[m].left]}
      BY <1>3, <2>3 DEF HasOperand
    <3> HIDE DEF O, V
    <3> QED BY <3>1, <3>2
  <2>4. CASE IsBinary(E, m)
    <3> DEFINE l == E[m].left
               r == E[m].right
    <3>1. O[m] = {b \in BOOLEAN : \E x \in O[l] : IF x = (E[m].kind = "or")
                                                  THEN b = x /\ Skipped(E, s, r)
                                                  ELSE b \in O[r]}
      BY <2>4, OutcomesComputed
    <3>2. O[l] \subseteq {V[l]} /\ O[r] \subseteq {V[r]}
      BY <1>3, <2>4 DEF IsBinary, HasOperand
    <3>3. /\ E[m].kind = "and" => V[m] = (V[l] /\ V[r])
          /\ E[m].kind = "or" => V[m] = (V[l] \/ V[r])
      BY <1>1, ValuesComputed
    <3>4. V[l] \in BOOLEAN /\ V[r] \in BOOLEAN
      BY <1>2, <2>4, NodeIs
    <3> HIDE DEF O, V, l, r
    <3>5. ASSUME NEW b \in O[m]
          PROVE  b = V[m]
      <4>1. b \in BOOLEAN /\ IF V[l] = (E[m].kind = "or") THEN b = V[l] ELSE b = V[r]
        BY <3>1, <3>2
      <4>2. CASE E[m].kind = "and"
        <5>1. (E[m].kind = "or") = FALSE
          BY <4>2
        <5> QED BY <3>3, <3>4, <4>1, <4>2, <5>1
      <4>3. CASE E[m].kind = "or"
        <5>1. (E[m].kind = "or") = TRUE
          BY <4>3
        <5> QED BY <3>3, <3>4, <4>1, <4>3, <5>1
      <4> QED BY <2>4, <4>2, <4>3 DEF IsBinary
    <3> QED BY <3>5
  <2> QED BY <2>1, <2>2, <2>3, <2>4, NodeIs DEF IsBinary
<1>4. T = Nodes(E)
  <2>1. T \in SUBSET Nodes(E)
    OBVIOUS
  <2> HIDE DEF T
  <2> QED BY <1>3, <2>1, OperandsFirst
<1>5. n \in T
  <2> HIDE DEF T
  <2> QED BY <1>4
<1> QED BY <1>5

(* A completion has the result of the vector that it completes.            *)
LEMMA CompletionResult ==
  ASSUME NEW E, WellFormed(E), NEW s \in Vectors(E), NEW z \in Comp(E, s)
  PROVE  Value(E, z) = ResultOf(E, s) /\ Value(E, z) \in BOOLEAN
<1> DEFINE O == NodeOutcomes(E, s)
           V == NodeValues(E, z)
<1>1. 1 \in Nodes(E) /\ z \in Assignments(E)
  BY DEF WellFormed, Nodes, Comp
<1>2. O[1] \subseteq {V[1]} /\ O[1] # {} /\ V[1] \in BOOLEAN
  BY <1>1, CompletionReplays, ValuesComputed DEF Vectors, Observed
<1>3. Value(E, z) = V[1] /\ (ResultOf(E, s) <=> TRUE \in O[1])
  BY DEF Value, ResultOf, Observed
<1>4. ResultOf(E, s) \in BOOLEAN
  BY DEF ResultOf
<1> HIDE DEF O, V
<1>5. O[1] = {V[1]}
  BY <1>2
<1>6. ResultOf(E, s) <=> V[1]
  BY <1>2, <1>3, <1>5
<1> QED BY <1>2, <1>3, <1>4, <1>6

(* The value of a node depends on the conditions below it.                 *)
LEMMA ValueIsLocal ==
  ASSUME NEW E, WellFormed(E), NEW z \in Assignments(E), NEW w \in Assignments(E),
         NEW n \in Nodes(E), Agree(E, z, w, n)
  PROVE  NodeValues(E, z)[n] = NodeValues(E, w)[n]
<1> DEFINE V == NodeValues(E, z)
           W == NodeValues(E, w)
           T == {m \in Nodes(E) : Agree(E, z, w, m) => V[m] = W[m]}
<1>1. ASSUME NEW m \in Nodes(E),
             HasOperand(E, m) => E[m].left \in T,
             IsBinary(E, m) => E[m].right \in T
      PROVE  m \in T
  <2>1. SUFFICES ASSUME Agree(E, z, w, m) PROVE V[m] = W[m]
    OBVIOUS
  <2>2. /\ E[m].kind = "condition" => V[m] = z[E[m].index] /\ W[m] = w[E[m].index]
        /\ E[m].kind = "constant" => V[m] = W[m]
        /\ E[m].kind = "not" => V[m] = ~V[E[m].left] /\ W[m] = ~W[E[m].left]
        /\ E[m].kind = "and" => /\ V[m] = (V[E[m].left] /\ V[E[m].right])
                                /\ W[m] = (W[E[m].left] /\ W[E[m].right])
        /\ E[m].kind = "or" => /\ V[m] = (V[E[m].left] \/ V[E[m].right])
                               /\ W[m] = (W[E[m].left] \/ W[E[m].right])
    BY ValuesComputed
  <2>3. /\ E[m].kind = "condition" => z[E[m].index] = w[E[m].index]
        /\ HasOperand(E, m) => Agree(E, z, w, E[m].left)
        /\ IsBinary(E, m) => Agree(E, z, w, E[m].right)
    BY <2>1, BelowComputed DEF Agree, HasOperand, IsBinary
  <2>4. /\ HasOperand(E, m) => V[E[m].left] = W[E[m].left]
        /\ IsBinary(E, m) => V[E[m].right] = W[E[m].right]
    BY <1>1, <2>3
  <2> HIDE DEF V, W
  <2> QED BY <2>2, <2>3, <2>4, NodeIs DEF HasOperand, IsBinary
<1>2. T = Nodes(E)
  <2>1. T \in SUBSET Nodes(E)
    OBVIOUS
  <2> HIDE DEF T
  <2> QED BY <1>1, <2>1, OperandsFirst
<1>3. n \in T
  <2> HIDE DEF T
  <2> QED BY <1>2
<1> QED BY <1>3

(* A change of a condition changes no node that it is not below.           *)
LEMMA FlipStays ==
  ASSUME NEW E, WellFormed(E), NEW z \in Assignments(E), NEW i \in Conditions(E)
  PROVE  LET w == [z EXCEPT ![i] = ~@]
         IN  /\ w \in Assignments(E) /\ w[i] = ~z[i] /\ z[i] \in BOOLEAN
             /\ \A j \in Conditions(E) : j # i => w[j] = z[j]
             /\ \A m \in Nodes(E) :
                  i \notin Below(E)[m] => NodeValues(E, z)[m] = NodeValues(E, w)[m]
<1> DEFINE w == [z EXCEPT ![i] = ~@]
<1>1. /\ w \in Assignments(E) /\ w[i] = ~z[i] /\ z[i] \in BOOLEAN
      /\ \A j \in Conditions(E) : j # i => w[j] = z[j]
  BY DEF Assignments
<1>2. ASSUME NEW m \in Nodes(E), i \notin Below(E)[m]
      PROVE  NodeValues(E, z)[m] = NodeValues(E, w)[m]
  <2>1. Below(E)[m] \subseteq Conditions(E)
    BY BelowComputed
  <2>2. Agree(E, z, w, m)
    BY <1>1, <1>2, <2>1 DEF Agree
  <2> HIDE DEF w
  <2> QED BY <1>1, <2>2, ValueIsLocal
<1> QED BY <1>1, <1>2

-----------------------------------------------------------------------------
(***************************************************************************)
(* Whether a change of a node would reach the root: the activity of the    *)
(* nodes under a complete assignment, from the root to the leaves.  It     *)
(* reaches a condition exactly if the condition is not masked.             *)
(***************************************************************************)
Lets(E, V, n, sibling) == V[sibling] = NeutralValue(E[n].kind)

IsActivity(E, z, a) ==
  /\ a \in [Nodes(E) -> BOOLEAN]
  /\ a[1] = TRUE
  /\ \A n \in Nodes(E) :
       /\ E[n].kind = "not" => a[E[n].left] = a[n]
       /\ IsBinary(E, n) =>
            /\ a[E[n].left] = (a[n] /\ Lets(E, NodeValues(E, z), n, E[n].right))
            /\ a[E[n].right] = (a[n] /\ Lets(E, NodeValues(E, z), n, E[n].left))

(* The activity can be computed.                                           *)
LEMMA ActivityExists ==
  ASSUME NEW E, WellFormed(E), NEW z
  PROVE  \E a : IsActivity(E, z, a)
<1> DEFINE V == NodeValues(E, z)
           F == [Nodes(E) -> BOOLEAN]
           up(n) == Parent(E, n)
           sibling(n) == IF n = E[up(n)].left THEN E[up(n)].right ELSE E[up(n)].left
           At(n, f) ==
             IF n = 1 THEN TRUE
             ELSE IF E[up(n)].kind = "not" THEN f[up(n)]
             ELSE f[up(n)] /\ Lets(E, V, up(n), sibling(n))
           step == [x \in Nodes(E) \X F |-> At(x[1], x[2])]
<1>1. Len(E) \in Nat /\ DOMAIN E = Nodes(E) /\ 1 \in Nodes(E)
  BY DEF WellFormed, Nodes
<1>2. \A n \in Nodes(E) : n # 1 => up(n) \in Nodes(E) /\ up(n) \in 1..(n - 1)
  BY ParentIs
<1>3. \A n \in Nodes(E), f \in F : At(n, f) \in BOOLEAN
  BY <1>2
<1>4. ASSUME NEW n \in Nodes(E), NEW f \in F, NEW g \in F, \A m \in 1..(n - 1) : f[m] = g[m]
      PROVE  At(n, f) = At(n, g)
  <2>1. n # 1 => f[up(n)] = g[up(n)]
    BY <1>2, <1>4
  <2> HIDE DEF up, sibling, V
  <2>2. CASE n = 1
    BY <2>2
  <2>3. CASE n # 1 /\ E[up(n)].kind = "not"
    BY <2>1, <2>3
  <2>4. CASE n # 1 /\ E[up(n)].kind # "not"
    <3>1. At(n, f) = (f[up(n)] /\ Lets(E, V, up(n), sibling(n)))
      BY <2>4
    <3>2. At(n, g) = (g[up(n)] /\ Lets(E, V, up(n), sibling(n)))
      BY <2>4
    <3> HIDE DEF At
    <3> QED BY <2>1, <2>4, <3>1, <3>2
  <2> QED BY <2>2, <2>3, <2>4
<1>5. \A n \in Nodes(E), f \in F : step[<<n, f>>] = At(n, f)
  OBVIOUS
<1>6. step \in [Nodes(E) \X F -> BOOLEAN]
  <2> HIDE DEF At
  <2> QED BY <1>3
<1> HIDE DEF At, step
<1>7. \A n \in Nodes(E), f, g \in F :
        (\A m \in 1..(n - 1) : f[m] = g[m]) => step[<<n, f>>] = step[<<n, g>>]
  BY <1>4, <1>5
<1>8. CanDescend(Len(E), BOOLEAN, step)
  BY <1>1, <1>6, <1>7 DEF CanDescend, Nodes
<1>9. PICK a : Recursion(Len(E), BOOLEAN, step, a)
  BY <1>8, DescentExists
<1>10. a \in F /\ \A n \in Nodes(E) : a[n] = At(n, a)
  BY <1>5, <1>9 DEF Recursion, Nodes
<1>11. a[1] = TRUE
  BY <1>1, <1>10 DEF At
<1>12. ASSUME NEW n \in Nodes(E), E[n].kind = "not"
       PROVE  a[E[n].left] = a[n]
  <2>1. E[n].left \in Nodes(E) /\ E[n].left # 1 /\ up(E[n].left) = n
    BY <1>12, OperandParent DEF HasOperand
  <2> HIDE DEF up
  <2> QED BY <1>10, <1>12, <2>1 DEF At
<1>13. ASSUME NEW n \in Nodes(E), IsBinary(E, n)
       PROVE  /\ a[E[n].left] = (a[n] /\ Lets(E, V, n, E[n].right))
              /\ a[E[n].right] = (a[n] /\ Lets(E, V, n, E[n].left))
  <2>1. /\ E[n].left \in Nodes(E) /\ E[n].left # 1 /\ up(E[n].left) = n
        /\ E[n].right \in Nodes(E) /\ E[n].right # 1 /\ up(E[n].right) = n
    BY <1>13, OperandParent DEF HasOperand, IsBinary
  <2>2. E[n].left # E[n].right /\ E[n].kind # "not"
    BY <1>13, NodeIs DEF IsBinary
  <2> HIDE DEF up, V
  <2>3. sibling(E[n].left) = E[n].right /\ sibling(E[n].right) = E[n].left
    BY <2>1, <2>2
  <2> HIDE DEF sibling
  <2>4. At(E[n].left, a) = (a[n] /\ Lets(E, V, n, E[n].right))
    BY <2>1, <2>2, <2>3 DEF At
  <2>5. At(E[n].right, a) = (a[n] /\ Lets(E, V, n, E[n].left))
    BY <2>1, <2>2, <2>3 DEF At
  <2> QED BY <1>10, <2>1, <2>4, <2>5
<1> QED BY <1>10, <1>11, <1>12, <1>13 DEF IsActivity

(* A condition is active exactly if it is not masked.                      *)
LEMMA ActiveDecides ==
  ASSUME NEW E, WellFormed(E), NEW z \in Assignments(E), NEW a, IsActivity(E, z, a),
         NEW n \in Nodes(E), E[n].kind = "condition"
  PROVE  a[n] <=> ~Masked(E, z, E[n].index)
<1> DEFINE i == E[n].index
           w == [z EXCEPT ![i] = ~@]
           V == NodeValues(E, z)
           W == NodeValues(E, w)
           B == Below(E)
           T == {m \in Nodes(E) : i \in B[m] => ((V[m] # W[m] /\ a[m]) <=> V[1] # W[1])}
<1>1. i \in Conditions(E) /\ 1 \in Nodes(E)
  BY NodeIs
<1>2. w \in Assignments(E) /\ w[i] = ~z[i] /\ z[i] \in BOOLEAN
  BY <1>1, FlipStays
<1>3. V \in [Nodes(E) -> BOOLEAN] /\ W \in [Nodes(E) -> BOOLEAN]
  BY <1>2, ValuesComputed
<1>5. \A m \in Nodes(E) : i \notin B[m] => V[m] = W[m]
  BY <1>1, FlipStays
<1>6. a \in [Nodes(E) -> BOOLEAN] /\ a[1] = TRUE
  BY DEF IsActivity
<1>7. T = Nodes(E)
  <2>1. T \in SUBSET Nodes(E) /\ 1 \in T
    BY <1>1, <1>6
  <2>2. ASSUME NEW m \in T, E[m].kind = "not"
        PROVE  E[m].left \in T
    <3>1. m \in Nodes(E) /\ (i \in B[m] => ((V[m] # W[m] /\ a[m]) <=> V[1] # W[1]))
      OBVIOUS
    <3>2. E[m].left \in Nodes(E)
      BY <2>2, <3>1, NodeIs
    <3>3. B[m] = B[E[m].left] /\ V[m] = ~V[E[m].left] /\ W[m] = ~W[E[m].left]
      BY <1>2, <2>2, <3>1, BelowComputed, ValuesComputed
    <3>4. a[E[m].left] = a[m]
      BY <2>2, <3>1 DEF IsActivity
    <3> HIDE DEF B, V, W
    <3> QED BY <1>3, <3>1, <3>2, <3>3, <3>4
  <2>3. ASSUME NEW m \in T, IsBinary(E, m)
        PROVE  E[m].left \in T /\ E[m].right \in T
    <3> DEFINE l == E[m].left
               r == E[m].right
    <3>1. m \in Nodes(E) /\ (i \in B[m] => ((V[m] # W[m] /\ a[m]) <=> V[1] # W[1]))
      OBVIOUS
    <3>2. l \in Nodes(E) /\ r \in Nodes(E) /\ B[l] \cap B[r] = {} /\ B[m] = B[l] \cup B[r]
      BY <2>3, <3>1, NodeIs, BelowComputed
    <3>3. /\ E[m].kind = "and" => V[m] = (V[l] /\ V[r]) /\ W[m] = (W[l] /\ W[r])
          /\ E[m].kind = "or" => V[m] = (V[l] \/ V[r]) /\ W[m] = (W[l] \/ W[r])
      BY <1>2, <3>1, ValuesComputed
    <3>4. /\ a[l] = (a[m] /\ V[r] = NeutralValue(E[m].kind))
          /\ a[r] = (a[m] /\ V[l] = NeutralValue(E[m].kind))
      BY <2>3, <3>1 DEF IsActivity, Lets
    <3>5. V[l] \in BOOLEAN /\ V[r] \in BOOLEAN /\ W[l] \in BOOLEAN /\ W[r] \in BOOLEAN
      BY <1>3, <3>2
    <3>6. (i \in B[l] => V[r] = W[r]) /\ (i \in B[r] => V[l] = W[l])
      BY <1>5, <3>2
    <3>7. /\ E[m].kind = "and" => NeutralValue(E[m].kind) = TRUE
          /\ E[m].kind = "or" => NeutralValue(E[m].kind) = FALSE
      BY DEF NeutralValue
    <3>8. a[m] \in BOOLEAN
      BY <1>6, <3>1
    <3> HIDE DEF B, V, W, l, r
    <3>9. i \in B[l] \/ i \in B[r] => ((V[m] # W[m] /\ a[m]) <=> V[1] # W[1])
      BY <3>1, <3>2
    <3>10. i \in B[l] => ((V[l] # W[l] /\ a[l]) <=> V[1] # W[1])
      <4>1. CASE E[m].kind = "and"
        BY <3>3, <3>4, <3>5, <3>6, <3>7, <3>8, <3>9, <4>1
      <4>2. CASE E[m].kind = "or"
        BY <3>3, <3>4, <3>5, <3>6, <3>7, <3>8, <3>9, <4>2
      <4> QED BY <2>3, <4>1, <4>2 DEF IsBinary
    <3>11. i \in B[r] => ((V[r] # W[r] /\ a[r]) <=> V[1] # W[1])
      <4>1. CASE E[m].kind = "and"
        BY <3>3, <3>4, <3>5, <3>6, <3>7, <3>8, <3>9, <4>1
      <4>2. CASE E[m].kind = "or"
        BY <3>3, <3>4, <3>5, <3>6, <3>7, <3>8, <3>9, <4>2
      <4> QED BY <2>3, <4>1, <4>2 DEF IsBinary
    <3> QED BY <3>2, <3>10, <3>11 DEF l, r
  <2>4. \A m \in T : /\ HasOperand(E, m) => E[m].left \in T
                     /\ IsBinary(E, m) => E[m].right \in T
    BY <2>2, <2>3 DEF HasOperand, IsBinary
  <2> HIDE DEF T
  <2> QED BY <2>1, <2>4, OperandsLast
<1>8. i \in B[n] /\ V[n] = z[i] /\ W[n] = w[i]
  BY <1>2, BelowComputed, ValuesComputed
<1>9. n \in T
  <2> HIDE DEF T
  <2> QED BY <1>7
<1>10. a[n] <=> V[1] # W[1]
  BY <1>2, <1>6, <1>8, <1>9
<1>11. Masked(E, z, i) <=> V[1] = W[1]
  BY DEF Masked, Value
<1> QED BY <1>10, <1>11

(***************************************************************************)
(* A condition that decides the result of some assignment is never called  *)
(* infeasible: what the siblings on its path must be they can be.          *)
(***************************************************************************)
(* The values of an assignment are among those that computeFeasibility     *)
(* finds.                                                                  *)
LEMMA ValuesAreFeasible ==
  ASSUME NEW E, WellFormed(E), NEW z \in Assignments(E), NEW n \in Nodes(E)
  PROVE  NodeValues(E, z)[n] \in Feasible(E, [j \in Conditions(E) |-> "notEvaluated"])[n]
<1> DEFINE s == [j \in Conditions(E) |-> "notEvaluated"]
           V == NodeValues(E, z)
           F == Feasible(E, s)
           T == {m \in Nodes(E) : V[m] \in F[m]}
<1>1. V \in [Nodes(E) -> BOOLEAN]
  BY ValuesComputed
<1>2. ASSUME NEW m \in Nodes(E),
             HasOperand(E, m) => E[m].left \in T,
             IsBinary(E, m) => E[m].right \in T
      PROVE  m \in T
  <2>1. CASE E[m].kind = "condition"
    <3>1. F[m] = {b \in BOOLEAN : s[E[m].index] \in {"notEvaluated", StateOf(b)}}
      BY <2>1, FeasibleComputed
    <3>2. s[E[m].index] = "notEvaluated"
      BY <2>1, NodeIs
    <3> HIDE DEF s, F, V
    <3> QED BY <1>1, <3>1, <3>2
  <2>2. CASE E[m].kind = "constant"
    BY <2>2, FeasibleComputed, ValuesComputed
  <2>3. CASE E[m].kind = "not"
    <3>1. F[m] = {~b : b \in F[E[m].left]} /\ V[m] = ~V[E[m].left] /\ V[E[m].left] \in F[E[m].left]
      BY <1>2, <2>3, FeasibleComputed, ValuesComputed DEF HasOperand
    <3> HIDE DEF F, V
    <3> QED BY <3>1
  <2>4. CASE IsBinary(E, m)
    <3> DEFINE l == E[m].left
               r == E[m].right
    <3>1. F[m] = {IF E[m].kind = "and" THEN x /\ y ELSE x \/ y : x \in F[l], y \in F[r]}
      BY <2>4, FeasibleComputed
    <3>2. V[l] \in F[l] /\ V[r] \in F[r]
      BY <1>2, <2>4 DEF IsBinary, HasOperand
    <3>3. V[m] = IF E[m].kind = "and" THEN V[l] /\ V[r] ELSE V[l] \/ V[r]
      BY <2>4, ValuesComputed DEF IsBinary
    <3> HIDE DEF F, V, l, r
    <3> QED BY <3>1, <3>2, <3>3
  <2> QED BY <2>1, <2>2, <2>3, <2>4, NodeIs DEF IsBinary
<1>3. T = Nodes(E)
  <2>1. T \in SUBSET Nodes(E)
    OBVIOUS
  <2> HIDE DEF T
  <2> QED BY <1>2, <2>1, OperandsFirst
<1>4. n \in T
  <2> HIDE DEF T
  <2> QED BY <1>3
<1> QED BY <1>4

(* Where a condition decides, its siblings are what its path asks.         *)
LEMMA DecidingIsPivotal ==
  ASSUME NEW E, WellFormed(E), NEW i \in Conditions(E), NEW z \in Assignments(E),
         ~Masked(E, z, i)
  PROVE  StructurallyPivotal(E, i)
<1> DEFINE w == [z EXCEPT ![i] = ~@]
           V == NodeValues(E, z)
           W == NodeValues(E, w)
           B == Below(E)
           P == PivotalPaths(E, i)
           F == Feasible(E, [j \in Conditions(E) |-> "notEvaluated"])
           T == {m \in Nodes(E) : i \in B[m] /\ V[m] # W[m] =>
                                    \A step \in P[m] : step.desired = V[step.sibling]}
<1>1. /\ w \in Assignments(E) /\ \A m \in Nodes(E) : i \notin B[m] => V[m] = W[m]
      /\ 1 \in Nodes(E)
  <2>1. 1 \in Nodes(E)
    BY DEF WellFormed, Nodes
  <2>2. w \in Assignments(E)
    BY FlipStays
  <2>3. \A m \in Nodes(E) : i \notin B[m] => V[m] = W[m]
    BY FlipStays
  <2> QED BY <2>1, <2>2, <2>3
<1>2. V \in [Nodes(E) -> BOOLEAN] /\ W \in [Nodes(E) -> BOOLEAN]
  BY <1>1, ValuesComputed
<1>3. ASSUME NEW m \in Nodes(E),
             HasOperand(E, m) => E[m].left \in T,
             IsBinary(E, m) => E[m].right \in T
      PROVE  m \in T
  <2>1. CASE E[m].kind \in {"condition", "constant"}
    <3>1. P[m] = {}
      BY <2>1, PathsComputed
    <3> HIDE DEF P, V, W, B
    <3> QED BY <3>1
  <2>2. CASE E[m].kind = "not"
    <3>1. /\ P[m] = P[E[m].left] /\ B[m] = B[E[m].left]
          /\ V[m] = ~V[E[m].left] /\ W[m] = ~W[E[m].left]
      <4>1. P[m] = P[E[m].left] /\ B[m] = B[E[m].left]
        BY <2>2, PathsComputed, BelowComputed
      <4>2. V[m] = ~V[E[m].left] /\ W[m] = ~W[E[m].left]
        BY <1>1, <2>2, ValuesComputed
      <4> QED BY <4>1, <4>2
    <3>2. E[m].left \in T /\ E[m].left \in Nodes(E)
      BY <1>3, <2>2 DEF HasOperand
    <3>3. i \in B[E[m].left] /\ V[E[m].left] # W[E[m].left] =>
            \A step \in P[E[m].left] : step.desired = V[step.sibling]
      BY <3>2
    <3> HIDE DEF P, V, W, B
    <3> QED BY <1>2, <3>1, <3>2, <3>3
  <2>3. CASE IsBinary(E, m)
    <3> DEFINE l == E[m].left
               r == E[m].right
               kind == E[m].kind
    <3>1. P[m] = IF i \in B[l] THEN P[l] \cup {[sibling |-> r, desired |-> NeutralValue(kind)]}
                 ELSE P[r] \cup {[sibling |-> l, desired |-> NeutralValue(kind)]}
      BY <2>3, PathsComputed
    <3>2. l \in Nodes(E) /\ r \in Nodes(E) /\ B[l] \cap B[r] = {} /\ B[m] = B[l] \cup B[r]
      BY <2>3, NodeIs, BelowComputed
    <3>3. /\ kind = "and" => V[m] = (V[l] /\ V[r]) /\ W[m] = (W[l] /\ W[r])
          /\ kind = "or" => V[m] = (V[l] \/ V[r]) /\ W[m] = (W[l] \/ W[r])
      BY <1>1, ValuesComputed
    <3>4. /\ i \in B[l] /\ V[l] # W[l] => \A step \in P[l] : step.desired = V[step.sibling]
          /\ i \in B[r] /\ V[r] # W[r] => \A step \in P[r] : step.desired = V[step.sibling]
      <4>1. l \in T /\ r \in T
        BY <1>3, <2>3 DEF IsBinary, HasOperand
      <4> HIDE DEF l, r, P, V, W, B
      <4> QED BY <4>1
    <3>5. V[l] \in BOOLEAN /\ V[r] \in BOOLEAN /\ W[l] \in BOOLEAN /\ W[r] \in BOOLEAN
      BY <1>2, <3>2
    <3>6. (i \notin B[r] => V[r] = W[r]) /\ (i \notin B[l] => V[l] = W[l])
      BY <1>1, <3>2
    <3>7. (kind = "and" => NeutralValue(kind) = TRUE) /\ (kind = "or" => NeutralValue(kind) = FALSE)
      BY DEF NeutralValue
    <3>8. kind = "and" \/ kind = "or"
      BY <2>3 DEF IsBinary
    <3> HIDE DEF P, V, W, B, l, r, kind
    <3>9. ASSUME V[m] # W[m], i \in B[l]
          PROVE  V[l] # W[l] /\ V[r] = NeutralValue(kind)
      BY <3>2, <3>3, <3>5, <3>6, <3>7, <3>8, <3>9
    <3>10. ASSUME V[m] # W[m], i \in B[r]
           PROVE  V[r] # W[r] /\ V[l] = NeutralValue(kind)
      <4>1. V[l] = W[l]
        BY <3>2, <3>6, <3>10
      <4>2. CASE kind = "and"
        BY <3>3, <3>5, <3>7, <3>10, <4>1, <4>2
      <4>3. CASE kind = "or"
        BY <3>3, <3>5, <3>7, <3>10, <4>1, <4>3
      <4> QED BY <3>8, <4>2, <4>3
    <3>11. ASSUME V[m] # W[m], i \in B[m], NEW step \in P[m]
           PROVE  step.desired = V[step.sibling]
      <4>1. CASE i \in B[l]
        <5>1. step \in P[l] \/ step = [sibling |-> r, desired |-> NeutralValue(kind)]
          BY <3>1, <3>11, <4>1
        <5> QED BY <3>4, <3>9, <3>11, <4>1, <5>1
      <4>2. CASE i \notin B[l]
        <5>1. i \in B[r]
          BY <3>2, <3>11, <4>2
        <5>2. step \in P[r] \/ step = [sibling |-> l, desired |-> NeutralValue(kind)]
          BY <3>1, <3>11, <4>2
        <5> QED BY <3>4, <3>10, <3>11, <5>1, <5>2
      <4> QED BY <4>1, <4>2
    <3> QED BY <3>11
  <2> QED BY <2>1, <2>2, <2>3, NodeIs DEF IsBinary
<1>4. T = Nodes(E)
  <2>1. T \in SUBSET Nodes(E)
    OBVIOUS
  <2> HIDE DEF T
  <2> QED BY <1>3, <2>1, OperandsFirst
<1>5. i \in B[1] /\ V[1] # W[1]
  BY LeavesAre DEF Masked, Value
<1>6. \A step \in P[1] : step.desired = V[step.sibling]
  <2>1. 1 \in T
    <3> HIDE DEF T
    <3> QED BY <1>1, <1>4
  <2> HIDE DEF P, V, W, B
  <2> QED BY <1>5, <2>1
<1>7. \A step \in P[1] : step.sibling \in Nodes(E)
  <2>1. P[1] \in SUBSET [sibling : Nodes(E), desired : BOOLEAN]
    BY <1>1, PathsComputed
  <2> HIDE DEF P
  <2> QED BY <2>1
<1>8. \A step \in P[1] : step.desired \in F[step.sibling]
  <2>1. \A m \in Nodes(E) : V[m] \in F[m]
    BY ValuesAreFeasible
  <2> HIDE DEF P, V, F
  <2> QED BY <1>6, <1>7, <2>1
<1> QED BY <1>8 DEF StructurallyPivotal, PivotalPath

-----------------------------------------------------------------------------
(***************************************************************************)
(* The joint solver.  The values that it tries for two operands are all    *)
(* that give the operator its value, and each with the activity that it    *)
(* leaves them.                                                            *)
(***************************************************************************)
Combine(kind, l, r) == IF kind = "and" THEN l /\ r ELSE l \/ r

IsJoint(kind, st, l, r) ==
  \A k \in {1, 2} :
    /\ st.value[k] = Combine(kind, l.value[k], r.value[k])
    /\ l.active[k] = (st.active[k] /\ r.value[k] = NeutralValue(kind))
    /\ r.active[k] = (st.active[k] /\ l.value[k] = NeutralValue(kind))

(* jointChildValues lists the values of the operands, few of them.         *)
LEMMA ChildValuesAre ==
  ASSUME NEW kind \in {"and", "or"}, NEW desired \in BOOLEAN
  PROVE  /\ DOMAIN ChildValues(kind, desired) \in SUBSET (1..3)
         /\ \A k \in DOMAIN ChildValues(kind, desired) :
              \E l, r \in BOOLEAN : /\ ChildValues(kind, desired)[k] = <<l, r>>
                                    /\ desired = Combine(kind, l, r)
         /\ \A l, r \in BOOLEAN : desired = Combine(kind, l, r) =>
              \E k \in DOMAIN ChildValues(kind, desired) :
                ChildValues(kind, desired)[k] = <<l, r>>
<1> DEFINE C == ChildValues(kind, desired)
<1>1. \A a : DOMAIN <<a>> = 1..1 /\ <<a>>[1] = a
  OBVIOUS
<1>2. \A a, b, c : /\ DOMAIN <<a, b, c>> = 1..3 /\ <<a, b, c>>[1] = a
                   /\ <<a, b, c>>[2] = b /\ <<a, b, c>>[3] = c
  OBVIOUS
<1>3. /\ 1..1 = {1} /\ 1..3 = {1, 2, 3}
  OBVIOUS
<1>4. CASE kind = "and" /\ desired
  <2>1. C = <<<<TRUE, TRUE>>>>
    BY <1>4 DEF ChildValues
  <2> HIDE DEF C
  <2>2. DOMAIN C = {1} /\ DOMAIN C \in SUBSET (1..3)
    BY <1>1, <1>2, <1>3, <2>1
  <2>3. C[1] = <<TRUE, TRUE>>
    BY <1>1, <1>2, <2>1
  <2> QED BY <1>4, <2>2, <2>3 DEF Combine, C
<1>5. CASE kind = "and" /\ ~desired
  <2>1. C = <<<<FALSE, FALSE>>, <<FALSE, TRUE>>, <<TRUE, FALSE>>>>
    BY <1>5 DEF ChildValues
  <2> HIDE DEF C
  <2>2. DOMAIN C = {1, 2, 3} /\ DOMAIN C \in SUBSET (1..3)
    BY <1>1, <1>2, <1>3, <2>1
  <2>3. C[1] = <<FALSE, FALSE>> /\ C[2] = <<FALSE, TRUE>> /\ C[3] = <<TRUE, FALSE>>
    BY <1>1, <1>2, <2>1
  <2> QED BY <1>5, <2>2, <2>3 DEF Combine, C
<1>6. CASE kind = "or" /\ desired
  <2>1. C = <<<<FALSE, TRUE>>, <<TRUE, FALSE>>, <<TRUE, TRUE>>>>
    BY <1>6 DEF ChildValues
  <2> HIDE DEF C
  <2>2. DOMAIN C = {1, 2, 3} /\ DOMAIN C \in SUBSET (1..3)
    BY <1>1, <1>2, <1>3, <2>1
  <2>3. C[1] = <<FALSE, TRUE>> /\ C[2] = <<TRUE, FALSE>> /\ C[3] = <<TRUE, TRUE>>
    BY <1>1, <1>2, <2>1
  <2> QED BY <1>6, <2>2, <2>3 DEF Combine, C
<1>7. CASE kind = "or" /\ ~desired
  <2>1. C = <<<<FALSE, FALSE>>>>
    BY <1>7 DEF ChildValues
  <2> HIDE DEF C
  <2>2. DOMAIN C = {1} /\ DOMAIN C \in SUBSET (1..3)
    BY <1>1, <1>2, <1>3, <2>1
  <2>3. C[1] = <<FALSE, FALSE>>
    BY <1>1, <1>2, <2>1
  <2> QED BY <1>7, <2>2, <2>3 DEF Combine, C
<1> QED BY <1>4, <1>5, <1>6, <1>7

(* A joint state has a value and an activity in either completion.         *)
LEMMA JointStateIs ==
  ASSUME NEW st
  PROVE  st \in JointStates <=>
           \E v1, v2, a1, a2 \in BOOLEAN :
             st = [value |-> <<v1, v2>>, active |-> <<a1, a2>>]
<1>1. ASSUME st \in JointStates
      PROVE  \E v1, v2, a1, a2 \in BOOLEAN : st = [value |-> <<v1, v2>>, active |-> <<a1, a2>>]
  <2>1. PICK v \in BOOLEAN \X BOOLEAN, a \in BOOLEAN \X BOOLEAN : st = [value |-> v, active |-> a]
    BY <1>1 DEF JointStates
  <2>2. v = <<v[1], v[2]>> /\ a = <<a[1], a[2]>>
    OBVIOUS
  <2>3. v[1] \in BOOLEAN /\ v[2] \in BOOLEAN /\ a[1] \in BOOLEAN /\ a[2] \in BOOLEAN
    OBVIOUS
  <2>4. st = [value |-> <<v[1], v[2]>>, active |-> <<a[1], a[2]>>]
    BY <2>1, <2>2
  <2> QED BY <2>3, <2>4
<1>2. ASSUME NEW v1 \in BOOLEAN, NEW v2 \in BOOLEAN, NEW a1 \in BOOLEAN, NEW a2 \in BOOLEAN
      PROVE  [value |-> <<v1, v2>>, active |-> <<a1, a2>>] \in JointStates
  <2>1. <<v1, v2>> \in BOOLEAN \X BOOLEAN /\ <<a1, a2>> \in BOOLEAN \X BOOLEAN
    OBVIOUS
  <2> QED BY <2>1 DEF JointStates
<1> QED BY <1>1, <1>2

(* The states that a choice gives the operands.                            *)
LEMMA ChildStatesAre ==
  ASSUME NEW kind \in {"and", "or"}, NEW st \in JointStates, NEW c \in JointChoices(kind, st)
  PROVE  /\ ChildStates(kind, st, c)[1] \in JointStates
         /\ ChildStates(kind, st, c)[2] \in JointStates
         /\ IsJoint(kind, st, ChildStates(kind, st, c)[1], ChildStates(kind, st, c)[2])
<1>1. PICK v1, v2, a1, a2 \in BOOLEAN : st = [value |-> <<v1, v2>>, active |-> <<a1, a2>>]
  BY JointStateIs
<1>2. st.value[1] = v1 /\ st.value[2] = v2 /\ st.active[1] = a1 /\ st.active[2] = a2
  BY <1>1
<1>3. c[1] \in DOMAIN ChildValues(kind, v1) /\ c[2] \in DOMAIN ChildValues(kind, v2)
  BY <1>2 DEF JointChoices
<1>4. PICK l1, r1 \in BOOLEAN : /\ ChildValues(kind, v1)[c[1]] = <<l1, r1>>
                                /\ v1 = Combine(kind, l1, r1)
  BY <1>3, ChildValuesAre
<1>5. PICK l2, r2 \in BOOLEAN : /\ ChildValues(kind, v2)[c[2]] = <<l2, r2>>
                                /\ v2 = Combine(kind, l2, r2)
  BY <1>3, ChildValuesAre
<1> DEFINE A(active, value) == (active /\ value = NeutralValue(kind))
           left == [value |-> <<l1, l2>>, active |-> <<A(a1, r1), A(a2, r2)>>]
           right == [value |-> <<r1, r2>>, active |-> <<A(a1, l1), A(a2, l2)>>]
<1>6. ChildStates(kind, st, c) = <<left, right>>
  BY <1>2, <1>4, <1>5 DEF ChildStates, ChildActive
<1>7. left \in JointStates /\ right \in JointStates
  BY JointStateIs
<1>8. IsJoint(kind, st, left, right)
  BY <1>2, <1>4, <1>5 DEF IsJoint
<1> HIDE DEF left, right
<1> QED BY <1>6, <1>7, <1>8

(* Every pair of operand states that goes with a state is chosen.          *)
LEMMA JointIsChosen ==
  ASSUME NEW kind \in {"and", "or"}, NEW st \in JointStates,
         NEW l \in JointStates, NEW r \in JointStates, IsJoint(kind, st, l, r)
  PROVE  \E c \in JointChoices(kind, st) : ChildStates(kind, st, c) = <<l, r>>
<1>1. PICK v1, v2, a1, a2 \in BOOLEAN : st = [value |-> <<v1, v2>>, active |-> <<a1, a2>>]
  BY JointStateIs
<1>2. PICK l1, l2, b1, b2 \in BOOLEAN : l = [value |-> <<l1, l2>>, active |-> <<b1, b2>>]
  BY JointStateIs
<1>3. PICK r1, r2, c1, c2 \in BOOLEAN : r = [value |-> <<r1, r2>>, active |-> <<c1, c2>>]
  BY JointStateIs
<1>4. st.value[1] = v1 /\ st.value[2] = v2 /\ st.active[1] = a1 /\ st.active[2] = a2
  BY <1>1
<1>5. l.value[1] = l1 /\ l.value[2] = l2 /\ l.active[1] = b1 /\ l.active[2] = b2
  BY <1>2
<1>6. r.value[1] = r1 /\ r.value[2] = r2 /\ r.active[1] = c1 /\ r.active[2] = c2
  BY <1>3
<1>7. /\ v1 = Combine(kind, l1, r1) /\ v2 = Combine(kind, l2, r2)
      /\ b1 = (a1 /\ r1 = NeutralValue(kind)) /\ b2 = (a2 /\ r2 = NeutralValue(kind))
      /\ c1 = (a1 /\ l1 = NeutralValue(kind)) /\ c2 = (a2 /\ l2 = NeutralValue(kind))
  <2>1. 1 \in {1, 2} /\ 2 \in {1, 2}
    OBVIOUS
  <2> QED BY <1>4, <1>5, <1>6, <2>1 DEF IsJoint
<1>8. PICK k1 \in DOMAIN ChildValues(kind, v1) : ChildValues(kind, v1)[k1] = <<l1, r1>>
  BY <1>7, ChildValuesAre
<1>9. PICK k2 \in DOMAIN ChildValues(kind, v2) : ChildValues(kind, v2)[k2] = <<l2, r2>>
  BY <1>7, ChildValuesAre
<1>10. <<k1, k2>> \in JointChoices(kind, st)
  BY <1>4, <1>8, <1>9 DEF JointChoices
<1>11. ChildStates(kind, st, <<k1, k2>>) =
         <<[value |-> <<l1, l2>>, active |-> <<(a1 /\ r1 = NeutralValue(kind)),
                                               (a2 /\ r2 = NeutralValue(kind))>>],
           [value |-> <<r1, r2>>, active |-> <<(a1 /\ l1 = NeutralValue(kind)),
                                               (a2 /\ l2 = NeutralValue(kind))>>]>>
  BY <1>4, <1>8, <1>9 DEF ChildStates, ChildActive
<1>12. ChildStates(kind, st, <<k1, k2>>) = <<l, r>>
  BY <1>2, <1>3, <1>7, <1>11
<1> QED BY <1>10, <1>12

(* solveBinary takes a choice that works if there is one.                  *)
LEMMA ChosenWorks ==
  ASSUME NEW E, NEW possible, NEW n, IsBinary(E, n), NEW st \in JointStates,
         \E c \in JointChoices(E[n].kind, st) : Works(E, possible, n, st, c)
  PROVE  /\ Chosen(E, possible, n, st) \in JointChoices(E[n].kind, st)
         /\ Works(E, possible, n, st, Chosen(E, possible, n, st))
<1> DEFINE C == JointChoices(E[n].kind, st)
           W == {c \in C : Works(E, possible, n, st, c)}
           F == {c[1] : c \in W}
           k == Min(F)
           G == {c[2] : c \in {d \in W : d[1] = k}}
           m == Min(G)
<1>1. \A c \in C : c = <<c[1], c[2]>> /\ c[1] \in Nat /\ c[2] \in Nat
  <2>1. PICK v1, v2, a1, a2 \in BOOLEAN : st = [value |-> <<v1, v2>>, active |-> <<a1, a2>>]
    BY JointStateIs
  <2>2. C = (DOMAIN ChildValues(E[n].kind, v1)) \X (DOMAIN ChildValues(E[n].kind, v2))
    BY <2>1 DEF JointChoices
  <2>3. /\ DOMAIN ChildValues(E[n].kind, v1) \in SUBSET (1..3)
        /\ DOMAIN ChildValues(E[n].kind, v2) \in SUBSET (1..3)
    BY ChildValuesAre DEF IsBinary
  <2> QED BY <2>2, <2>3
<1> HIDE DEF C
<1>2. W # {} /\ \A c \in W : c \in C /\ Works(E, possible, n, st, c)
  BY DEF C
<1>3. \A c \in C : Works(E, possible, n, st, c) => c \in W
  OBVIOUS
<1> HIDE DEF W
<1>4. F \in SUBSET Nat /\ F # {}
  BY <1>1, <1>2
<1>5. k \in F /\ \A j \in F : k <= j
  BY <1>4, LeastIsIn
<1> HIDE DEF k
<1>6. G \in SUBSET Nat /\ G # {}
  BY <1>1, <1>2, <1>5
<1>7. m \in G /\ \A j \in G : m <= j
  BY <1>6, LeastIsIn
<1> HIDE DEF m
<1>8. PICK best \in W : best[1] = k /\ best[2] = m
  BY <1>7
<1>9. ASSUME NEW d \in C, TriedBefore(d, best)
      PROVE  ~Works(E, possible, n, st, d)
  <2>1. SUFFICES ASSUME d \in W PROVE FALSE
    BY <1>3
  <2>2. d[1] \in Nat /\ d[2] \in Nat /\ k \in Nat /\ m \in Nat
    BY <1>1, <1>4, <1>5, <1>6, <1>7
  <2>3. k <= d[1] /\ (d[1] = k => m <= d[2])
    BY <1>5, <1>7, <2>1
  <2>4. d[1] < k \/ (d[1] = k /\ d[2] < m)
    BY <1>8, <1>9 DEF TriedBefore
  <2> QED BY <2>2, <2>3, <2>4
<1>10. best \in Tried(E, possible, n, st) /\ Works(E, possible, n, st, best)
  BY <1>2, <1>8, <1>9 DEF Tried, C
<1>11. /\ Chosen(E, possible, n, st) \in Tried(E, possible, n, st)
       /\ Works(E, possible, n, st, Chosen(E, possible, n, st))
  BY <1>10, Zenon DEF Chosen
<1> QED BY <1>11 DEF Tried

(***************************************************************************)
(* reconstruct: from a possible state of the root, every node is given a   *)
(* possible state, and the states of its operands go with its own.         *)
(***************************************************************************)
Goes(E, t) ==
  \A n \in Nodes(E) :
    /\ E[n].kind = "not" => t[E[n].left] = Negate(t[n])
    /\ IsBinary(E, n) => IsJoint(E[n].kind, t[n], t[E[n].left], t[E[n].right])

(* The operands of a node in a possible state are given possible states.   *)
LEMMA PossibleDescends ==
  ASSUME NEW E, WellFormed(E), NEW p, NEW q, NEW i, NEW n \in Nodes(E),
         NEW st \in Possible(E, p, q, i)[n]
  PROVE  LET possible == Possible(E, p, q, i)
             c == Chosen(E, possible, n, st)
             sub == ChildStates(E[n].kind, st, c)
         IN  /\ E[n].kind = "not" => Negate(st) \in possible[E[n].left]
             /\ IsBinary(E, n) => /\ sub[1] \in possible[E[n].left]
                                  /\ sub[2] \in possible[E[n].right]
                                  /\ IsJoint(E[n].kind, st, sub[1], sub[2])
<1> DEFINE possible == Possible(E, p, q, i)
           c == Chosen(E, possible, n, st)
<1>1. possible \in [Nodes(E) -> SUBSET JointStates]
  BY PossibleComputed
<1>2. st \in JointStates
  BY <1>1
<1>3. E[n].kind = "not" => Negate(st) \in possible[E[n].left]
  BY PossibleComputed
<1>4. ASSUME IsBinary(E, n)
      PROVE  /\ ChildStates(E[n].kind, st, c)[1] \in possible[E[n].left]
             /\ ChildStates(E[n].kind, st, c)[2] \in possible[E[n].right]
             /\ IsJoint(E[n].kind, st, ChildStates(E[n].kind, st, c)[1],
                        ChildStates(E[n].kind, st, c)[2])
  <2>1. \E d \in JointChoices(E[n].kind, st) : Works(E, possible, n, st, d)
    BY <1>4, PossibleComputed DEF Works
  <2> HIDE DEF possible
  <2>2. c \in JointChoices(E[n].kind, st) /\ Works(E, possible, n, st, c)
    BY <1>2, <1>4, <2>1, ChosenWorks
  <2> HIDE DEF c
  <2>3. IsJoint(E[n].kind, st, ChildStates(E[n].kind, st, c)[1], ChildStates(E[n].kind, st, c)[2])
    BY <1>2, <1>4, <2>2, ChildStatesAre DEF IsBinary
  <2> QED BY <2>2, <2>3 DEF Works
<1> QED BY <1>3, <1>4

(* The states that are taken exist, are possible, and go together.         *)
LEMMA TakenIs ==
  ASSUME NEW E, WellFormed(E), NEW p, NEW q, NEW i, NEW root \in Possible(E, p, q, i)[1]
  PROVE  LET possible == Possible(E, p, q, i)
             t == Taken(E, possible, root)
         IN  /\ t[1] = root
             /\ \A n \in Nodes(E) : t[n] \in possible[n]
             /\ Goes(E, t)
<1> DEFINE possible == Possible(E, p, q, i)
           F == [Nodes(E) -> JointStates]
           up(n) == Parent(E, n)
           sub(m, st) == ChildStates(E[m].kind, st, Chosen(E, possible, m, st))
           At(n, f) ==
             IF n = 1 THEN root
             ELSE IF E[up(n)].kind = "not" THEN Negate(f[up(n)])
             ELSE IF n = E[up(n)].left THEN sub(up(n), f[up(n)])[1]
             ELSE sub(up(n), f[up(n)])[2]
           Typed(n, f) == IF At(n, f) \in JointStates THEN At(n, f) ELSE root
           step == [x \in Nodes(E) \X F |-> Typed(x[1], x[2])]
           Body(g) == [n \in DOMAIN E |-> At(n, g)]
           t == Taken(E, possible, root)
<1>1. Len(E) \in Nat /\ DOMAIN E = Nodes(E) /\ 1 \in Nodes(E)
  BY DEF WellFormed, Nodes
<1>2. possible \in [Nodes(E) -> SUBSET JointStates] /\ root \in possible[1] /\ root \in JointStates
  BY <1>1, PossibleComputed
<1>3. \A n \in Nodes(E) : n # 1 => up(n) \in Nodes(E) /\ up(n) \in 1..(n - 1)
  BY ParentIs
<1>4. ASSUME NEW n \in Nodes(E), NEW f, n # 1 => f[up(n)] \in possible[up(n)]
      PROVE  At(n, f) \in possible[n]
  <2>1. CASE n = 1
    BY <1>2, <2>1
  <2>2. CASE n # 1
    <3> DEFINE m == up(n)
               st == f[m]
    <3>1. /\ m \in Nodes(E) /\ HasOperand(E, m)
          /\ n = E[m].left \/ (IsBinary(E, m) /\ n = E[m].right)
      BY <2>2, ParentIs
    <3>2. st \in possible[m]
      BY <1>4, <2>2
    <3>3. /\ E[m].kind = "not" => Negate(st) \in possible[E[m].left]
          /\ IsBinary(E, m) => /\ sub(m, st)[1] \in possible[E[m].left]
                               /\ sub(m, st)[2] \in possible[E[m].right]
      BY <3>1, <3>2, PossibleDescends
    <3>4. E[m].kind = "not" \/ (E[m].kind # "not" /\ IsBinary(E, m))
      BY <3>1 DEF HasOperand, IsBinary
    <3>5. E[m].kind = "not" => n = E[m].left
      BY <3>1 DEF IsBinary
    <3>6. At(n, f) = IF E[m].kind = "not" THEN Negate(st)
                     ELSE IF n = E[m].left THEN sub(m, st)[1] ELSE sub(m, st)[2]
      BY <2>2
    <3> HIDE DEF At, sub, possible, m, st
    <3> QED BY <3>1, <3>3, <3>4, <3>5, <3>6
  <2> QED BY <2>1, <2>2
<1> HIDE DEF sub, up, possible
<1>5. ASSUME NEW n \in Nodes(E), NEW f \in F, NEW g \in F, \A m \in 1..(n - 1) : f[m] = g[m]
      PROVE  At(n, f) = At(n, g)
  <2>1. n # 1 => f[up(n)] = g[up(n)]
    BY <1>3, <1>5
  <2> QED BY <2>1
<1>6. ASSUME NEW f, DOMAIN f = Nodes(E), \A n \in Nodes(E) : f[n] = At(n, f) \/ f[n] = Typed(n, f)
      PROVE  \A n \in Nodes(E) : f[n] \in possible[n] /\ f[n] = At(n, f)
  <2> DEFINE T == {n \in Nodes(E) : f[n] \in possible[n] /\ f[n] = At(n, f)}
  <2>1. ASSUME NEW n \in Nodes(E), \A m \in 1..(n - 1) : m \in T
        PROVE  n \in T
    <3>1. n # 1 => f[up(n)] \in possible[up(n)]
      BY <1>3, <2>1
    <3>2. At(n, f) \in possible[n]
      BY <1>4, <3>1
    <3>3. At(n, f) \in JointStates
      BY <1>2, <3>2
    <3>4. f[n] = At(n, f)
      <4>1. Typed(n, f) = At(n, f)
        BY <3>3
      <4> HIDE DEF Typed, At
      <4> QED BY <1>6, <4>1
    <3> HIDE DEF At
    <3> QED BY <3>2, <3>4
  <2>2. T = Nodes(E)
    <3>1. T \in SUBSET (1..Len(E))
      BY DEF Nodes
    <3> HIDE DEF T
    <3> QED BY <1>1, <2>1, <3>1, FromTheRoot DEF Nodes
  <2>3. TAKE n \in Nodes(E)
  <2>4. n \in T
    <3> HIDE DEF T
    <3> QED BY <2>2
  <2> HIDE DEF At
  <2> QED BY <2>4
<1>7. \E f : f = Body(f)
  <2>1. \A n \in Nodes(E), f \in F : step[<<n, f>>] = Typed(n, f)
    <3> HIDE DEF Typed
    <3> QED OBVIOUS
  <2>2. \A n \in Nodes(E), f \in F : Typed(n, f) \in JointStates
    <3> HIDE DEF At
    <3> QED BY <1>2
  <2>3. step \in [Nodes(E) \X F -> JointStates]
    <3> HIDE DEF Typed
    <3> QED BY <2>2
  <2> HIDE DEF step
  <2>4. \A n \in Nodes(E), f, g \in F :
          (\A m \in 1..(n - 1) : f[m] = g[m]) => step[<<n, f>>] = step[<<n, g>>]
    <3> HIDE DEF At
    <3> QED BY <1>5, <2>1
  <2>5. CanDescend(Len(E), JointStates, step)
    BY <1>1, <1>2, <2>3, <2>4 DEF CanDescend, Nodes
  <2>6. PICK f : Recursion(Len(E), JointStates, step, f)
    BY <2>5, DescentExists
  <2>7. f \in F /\ \A n \in Nodes(E) : f[n] = Typed(n, f)
    BY <2>1, <2>6 DEF Recursion, Nodes
  <2>8. \A n \in Nodes(E) : f[n] = At(n, f)
    <3>1. DOMAIN f = Nodes(E) /\ \A n \in Nodes(E) : f[n] = At(n, f) \/ f[n] = Typed(n, f)
      <4> HIDE DEF Typed, At
      <4> QED BY <2>7
    <3> HIDE DEF Typed, At
    <3> QED BY <1>6, <3>1
  <2>9. f = Body(f)
    <3> HIDE DEF At
    <3> QED BY <1>1, <2>7, <2>8
  <2> QED BY <2>9
<1>8. t = Body(t)
  <2>1. t = CHOOSE g : g = Body(g)
    BY Zenon DEF Taken, up, sub
  <2> HIDE DEF t, Body
  <2> QED BY <1>7, <2>1
<1>9. DOMAIN t = Nodes(E) /\ \A n \in Nodes(E) : t[n] = At(n, t)
  <2> HIDE DEF t, At
  <2> QED BY <1>1, <1>8
<1> HIDE DEF t
<1>10. \A n \in Nodes(E) : t[n] \in possible[n]
  <2> HIDE DEF At, Typed
  <2> QED BY <1>6, <1>9
<1>11. t[1] = root
  BY <1>1, <1>9
<1>12. ASSUME NEW n \in Nodes(E), E[n].kind = "not"
       PROVE  t[E[n].left] = Negate(t[n])
  <2>1. E[n].left \in Nodes(E) /\ E[n].left # 1 /\ up(E[n].left) = n
    BY <1>12, OperandParent DEF HasOperand, up
  <2> QED BY <1>9, <1>12, <2>1
<1>13. ASSUME NEW n \in Nodes(E), IsBinary(E, n)
       PROVE  IsJoint(E[n].kind, t[n], t[E[n].left], t[E[n].right])
  <2>1. /\ E[n].left \in Nodes(E) /\ E[n].left # 1 /\ up(E[n].left) = n
        /\ E[n].right \in Nodes(E) /\ E[n].right # 1 /\ up(E[n].right) = n
    BY <1>13, OperandParent DEF HasOperand, IsBinary, up
  <2>2. E[n].left # E[n].right /\ E[n].kind # "not"
    BY <1>13, NodeIs DEF IsBinary
  <2>3. At(E[n].left, t) = sub(n, t[n])[1] /\ At(E[n].right, t) = sub(n, t[n])[2]
    BY <2>1, <2>2
  <2>4. t[E[n].left] = sub(n, t[n])[1] /\ t[E[n].right] = sub(n, t[n])[2]
    <3> HIDE DEF At
    <3> QED BY <1>9, <2>1, <2>3
  <2>5. IsJoint(E[n].kind, t[n], sub(n, t[n])[1], sub(n, t[n])[2])
    BY <1>10, <1>13, PossibleDescends DEF possible, sub
  <2> QED BY <2>4, <2>5
<1> QED BY <1>10, <1>11, <1>12, <1>13 DEF Goes, t, possible

(***************************************************************************)
(* What the solver is to show: two completions that differ in the target   *)
(* and in the result, and elsewhere only where both are masked, in which   *)
(* the target decides.                                                     *)
(***************************************************************************)
Effect(E, i, x, y) ==
  /\ x[i] # y[i]
  /\ Value(E, x) # Value(E, y)
  /\ \A j \in Conditions(E) \ {i} :
       x[j] = y[j] \/ (Masked(E, x, j) /\ Masked(E, y, j))
  /\ ~Masked(E, x, i) /\ ~Masked(E, y, i)

(* The completion read off the states has their values and their activity. *)
LEMMA StatesAreCompletion ==
  ASSUME NEW E, WellFormed(E), NEW t, Goes(E, t), NEW k \in {1, 2},
         \A n \in Nodes(E) : t[n] \in JointStates,
         \A n \in Nodes(E) : E[n].kind = "constant" => t[n].value[k] = E[n].constant,
         t[1].active[k] = TRUE
  PROVE  LET x == [j \in Conditions(E) |-> t[LeafOf(E, j)].value[k]]
         IN  /\ x \in Assignments(E)
             /\ \A n \in Nodes(E) : NodeValues(E, x)[n] = t[n].value[k]
             /\ IsActivity(E, x, [n \in Nodes(E) |-> t[n].active[k]])
<1> DEFINE x == [j \in Conditions(E) |-> t[LeafOf(E, j)].value[k]]
           V == NodeValues(E, x)
           a == [n \in Nodes(E) |-> t[n].active[k]]
           T == {n \in Nodes(E) : V[n] = t[n].value[k]}
<1>1. \A n \in Nodes(E) : t[n].value[k] \in BOOLEAN /\ t[n].active[k] \in BOOLEAN
  BY DEF JointStates
<1>2. x \in Assignments(E)
  <2>1. \A j \in Conditions(E) : t[LeafOf(E, j)].value[k] \in BOOLEAN
    BY <1>1, LeavesAre
  <2> QED BY <2>1 DEF Assignments
<1>3. ASSUME NEW n \in Nodes(E), E[n].kind = "not"
      PROVE  t[E[n].left].value[k] = ~t[n].value[k] /\ t[E[n].left].active[k] = t[n].active[k]
  <2>1. t[E[n].left] = Negate(t[n])
    BY <1>3 DEF Goes
  <2> QED BY <2>1 DEF Negate
<1>4. ASSUME NEW n \in Nodes(E), IsBinary(E, n)
      PROVE  /\ t[n].value[k] = Combine(E[n].kind, t[E[n].left].value[k], t[E[n].right].value[k])
             /\ t[E[n].left].active[k] =
                  (t[n].active[k] /\ t[E[n].right].value[k] = NeutralValue(E[n].kind))
             /\ t[E[n].right].active[k] =
                  (t[n].active[k] /\ t[E[n].left].value[k] = NeutralValue(E[n].kind))
  <2>1. IsJoint(E[n].kind, t[n], t[E[n].left], t[E[n].right])
    BY <1>4 DEF Goes
  <2> QED BY <2>1 DEF IsJoint
<1>5. ASSUME NEW n \in Nodes(E),
             HasOperand(E, n) => E[n].left \in T,
             IsBinary(E, n) => E[n].right \in T
      PROVE  n \in T
  <2>1. CASE E[n].kind = "condition"
    <3>1. V[n] = x[E[n].index]
      BY <1>2, <2>1, ValuesComputed
    <3>2. E[n].index \in Conditions(E) /\ n = LeafOf(E, E[n].index)
      BY <2>1, NodeIs, LeavesAre
    <3> HIDE DEF V
    <3> QED BY <3>1, <3>2
  <2>2. CASE E[n].kind = "constant"
    <3>1. V[n] = E[n].constant
      BY <1>2, <2>2, ValuesComputed
    <3> HIDE DEF V
    <3> QED BY <2>2, <3>1
  <2>3. CASE E[n].kind = "not"
    <3>1. V[n] = ~V[E[n].left]
      BY <1>2, <2>3, ValuesComputed
    <3>2. V[E[n].left] = t[E[n].left].value[k]
      BY <1>5, <2>3 DEF HasOperand
    <3> HIDE DEF V
    <3>3. t[n].value[k] \in BOOLEAN /\ t[E[n].left].value[k] = ~t[n].value[k]
      BY <1>1, <1>3, <2>3
    <3> QED BY <3>1, <3>2, <3>3
  <2>4. CASE IsBinary(E, n)
    <3>1. V[n] = Combine(E[n].kind, V[E[n].left], V[E[n].right])
      BY <1>2, <2>4, ValuesComputed DEF Combine, IsBinary
    <3>2. V[E[n].left] = t[E[n].left].value[k] /\ V[E[n].right] = t[E[n].right].value[k]
      BY <1>5, <2>4 DEF HasOperand, IsBinary
    <3> HIDE DEF V
    <3> QED BY <1>4, <2>4, <3>1, <3>2
  <2> QED BY <2>1, <2>2, <2>3, <2>4, NodeIs DEF IsBinary
<1>6. T = Nodes(E)
  <2>1. T \in SUBSET Nodes(E)
    OBVIOUS
  <2> HIDE DEF T
  <2> QED BY <1>5, <2>1, OperandsFirst
<1>7. \A n \in Nodes(E) : V[n] = t[n].value[k]
  <2> HIDE DEF V
  <2> QED BY <1>6
<1>8. IsActivity(E, x, a)
  <2>1. \A n \in Nodes(E) : a[n] = t[n].active[k]
    OBVIOUS
  <2>2. 1 \in Nodes(E) /\ a \in [Nodes(E) -> BOOLEAN]
    BY <1>1 DEF WellFormed, Nodes
  <2> HIDE DEF a
  <2>3. ASSUME NEW n \in Nodes(E), E[n].kind = "not"
        PROVE  a[E[n].left] = a[n]
    <3>1. E[n].left \in Nodes(E)
      BY <2>3, NodeIs
    <3> QED BY <1>3, <2>1, <2>3, <3>1
  <2>4. ASSUME NEW n \in Nodes(E), IsBinary(E, n)
        PROVE  /\ a[E[n].left] = (a[n] /\ Lets(E, V, n, E[n].right))
               /\ a[E[n].right] = (a[n] /\ Lets(E, V, n, E[n].left))
    <3>1. E[n].left \in Nodes(E) /\ E[n].right \in Nodes(E)
      BY <2>4, NodeIs
    <3>2. V[E[n].left] = t[E[n].left].value[k] /\ V[E[n].right] = t[E[n].right].value[k]
      BY <1>7, <3>1
    <3>3. a[n] = t[n].active[k] /\ a[E[n].left] = t[E[n].left].active[k]
          /\ a[E[n].right] = t[E[n].right].active[k]
      BY <2>1, <3>1
    <3> HIDE DEF V
    <3> QED BY <1>4, <2>4, <3>2, <3>3 DEF Lets
  <2> QED BY <2>1, <2>2, <2>3, <2>4 DEF IsActivity
<1> QED BY <1>2, <1>7, <1>8

(* What the solver finds are completions that show the effect.             *)
THEOREM SolverIsSound ==
  ASSUME NEW E, WellFormed(E), NEW p, NEW q, NEW i \in Conditions(E),
         ResultOf(E, p) # ResultOf(E, q),
         RootState(E, p, q) \in Possible(E, p, q, i)[1]
  PROVE  LET z == Completions(E, Possible(E, p, q, i), RootState(E, p, q))
         IN  /\ z[1] \in Comp(E, p) /\ z[2] \in Comp(E, q)
             /\ Value(E, z[1]) = ResultOf(E, p) /\ Value(E, z[2]) = ResultOf(E, q)
             /\ Effect(E, i, z[1], z[2])
<1> DEFINE root == RootState(E, p, q)
           possible == Possible(E, p, q, i)
           t == Taken(E, possible, root)
           x(k) == [j \in Conditions(E) |-> t[LeafOf(E, j)].value[k]]
           a(k) == [n \in Nodes(E) |-> t[n].active[k]]
           z == Completions(E, possible, root)
<1>1. t[1] = root /\ (\A n \in Nodes(E) : t[n] \in possible[n]) /\ Goes(E, t)
  BY TakenIs
<1>2. possible \in [Nodes(E) -> SUBSET JointStates] /\ 1 \in Nodes(E)
  <2>1. 1 \in Nodes(E)
    BY DEF WellFormed, Nodes
  <2> QED BY <2>1, PossibleComputed
<1>3. ASSUME NEW n \in Nodes(E)
      PROVE  /\ E[n].kind = "condition" => LeafPossible(E[n].index, p, q, i, t[n])
             /\ E[n].kind = "constant" => t[n].value = <<E[n].constant, E[n].constant>>
  <2>1. t[n] \in possible[n]
    BY <1>1
  <2> HIDE DEF t
  <2> QED BY <2>1, PossibleComputed
<1>4. z[1] = x(1) /\ z[2] = x(2)
  BY DEF Completions
<1>5. \A n \in Nodes(E) : t[n] \in JointStates
  <2> HIDE DEF t, possible
  <2> QED BY <1>1, <1>2
<1> HIDE DEF t, z, possible
<1>6. ASSUME NEW k \in {1, 2}
      PROVE  /\ x(k) \in Assignments(E)
             /\ \A n \in Nodes(E) : NodeValues(E, x(k))[n] = t[n].value[k]
             /\ IsActivity(E, x(k), a(k))
  <2>1. \A n \in Nodes(E) : E[n].kind = "constant" => t[n].value[k] = E[n].constant
    BY <1>3, <1>6
  <2>2. t[1].active[k] = TRUE
    <3>1. root.active[1] = TRUE /\ root.active[2] = TRUE
      BY DEF RootState
    <3> QED BY <1>1, <1>6, <3>1
  <2> QED BY <1>1, <1>5, <2>1, <2>2, StatesAreCompletion
<1>7. ASSUME NEW k \in {1, 2}, NEW j \in Conditions(E)
      PROVE  /\ LeafOf(E, j) \in Nodes(E) /\ LeafPossible(j, p, q, i, t[LeafOf(E, j)])
             /\ x(k)[j] = t[LeafOf(E, j)].value[k]
             /\ t[LeafOf(E, j)].active[k] <=> ~Masked(E, x(k), j)
  <2> DEFINE n == LeafOf(E, j)
  <2>1. n \in Nodes(E) /\ E[n].kind = "condition" /\ E[n].index = j
    BY LeavesAre
  <2> HIDE DEF n
  <2>2. a(k)[n] = t[n].active[k]
    BY <2>1
  <2> HIDE DEF a
  <2>3. x(k) \in Assignments(E) /\ IsActivity(E, x(k), a(k))
    BY <1>6
  <2>4. x(k)[j] = t[LeafOf(E, j)].value[k]
    OBVIOUS
  <2> HIDE DEF x
  <2>5. a(k)[n] <=> ~Masked(E, x(k), j)
    BY <2>1, <2>3, ActiveDecides
  <2>6. LeafPossible(j, p, q, i, t[n])
    BY <1>3, <2>1
  <2> QED BY <2>1, <2>2, <2>4, <2>5, <2>6 DEF n
<1>8. Value(E, x(1)) = ResultOf(E, p) /\ Value(E, x(2)) = ResultOf(E, q)
  <2>1. t[1].value[1] = ResultOf(E, p) /\ t[1].value[2] = ResultOf(E, q)
    BY <1>1 DEF RootState
  <2>2. NodeValues(E, x(1))[1] = t[1].value[1] /\ NodeValues(E, x(2))[1] = t[1].value[2]
    <3> HIDE DEF x, a
    <3> QED BY <1>2, <1>6
  <2> QED BY <2>1, <2>2 DEF Value
<1> HIDE DEF x, a
<1>9. x(1) \in Comp(E, p) /\ x(2) \in Comp(E, q)
  <2>1. \A j \in Conditions(E) : p[j] \in {"notEvaluated", StateOf(x(1)[j])}
    BY <1>7 DEF LeafPossible, Allows
  <2>2. \A j \in Conditions(E) : q[j] \in {"notEvaluated", StateOf(x(2)[j])}
    BY <1>7 DEF LeafPossible, Allows
  <2> QED BY <1>6, <2>1, <2>2 DEF Comp
<1>10. x(1)[i] # x(2)[i] /\ ~Masked(E, x(1), i) /\ ~Masked(E, x(2), i)
  BY <1>7 DEF LeafPossible
<1>11. ASSUME NEW j \in Conditions(E) \ {i}
       PROVE  x(1)[j] = x(2)[j] \/ (Masked(E, x(1), j) /\ Masked(E, x(2), j))
  BY <1>7 DEF LeafPossible
<1>12. Effect(E, i, x(1), x(2))
  BY <1>8, <1>10, <1>11 DEF Effect
<1> QED BY <1>4, <1>8, <1>9, <1>12 DEF z, possible

(* Whatever completions show the effect, the solver finds some.            *)
THEOREM SolverIsComplete ==
  ASSUME NEW E, WellFormed(E), NEW p \in Vectors(E), NEW q \in Vectors(E),
         NEW i \in Conditions(E), NEW x \in Comp(E, p), NEW y \in Comp(E, q),
         Effect(E, i, x, y)
  PROVE  RootState(E, p, q) \in Possible(E, p, q, i)[1]
<1> DEFINE V == NodeValues(E, x)
           W == NodeValues(E, y)
           possible == Possible(E, p, q, i)
<1>1. /\ x \in Assignments(E) /\ \A j \in Conditions(E) : Allows(p[j], x[j])
      /\ y \in Assignments(E) /\ \A j \in Conditions(E) : Allows(q[j], y[j])
  BY DEF Comp, Allows
<1>2. V \in [Nodes(E) -> BOOLEAN] /\ W \in [Nodes(E) -> BOOLEAN]
  BY <1>1, ValuesComputed
<1>3. PICK a : IsActivity(E, x, a)
  BY ActivityExists
<1>4. PICK b : IsActivity(E, y, b)
  BY ActivityExists
<1>5. a \in [Nodes(E) -> BOOLEAN] /\ b \in [Nodes(E) -> BOOLEAN] /\ a[1] = TRUE /\ b[1] = TRUE
  BY <1>3, <1>4 DEF IsActivity
<1> DEFINE J(n) == [value |-> <<V[n], W[n]>>, active |-> <<a[n], b[n]>>]
           T == {n \in Nodes(E) : J(n) \in possible[n]}
<1>6. ASSUME NEW n \in Nodes(E)
      PROVE  /\ J(n) \in JointStates
             /\ J(n).value[1] = V[n] /\ J(n).value[2] = W[n]
             /\ J(n).active[1] = a[n] /\ J(n).active[2] = b[n]
  <2>1. V[n] \in BOOLEAN /\ W[n] \in BOOLEAN /\ a[n] \in BOOLEAN /\ b[n] \in BOOLEAN
    BY <1>2, <1>5
  <2> HIDE DEF V, W
  <2> QED BY <2>1, JointStateIs
<1>7. ASSUME NEW n \in Nodes(E),
             HasOperand(E, n) => E[n].left \in T,
             IsBinary(E, n) => E[n].right \in T
      PROVE  n \in T
  <2> DEFINE l == E[n].left
             r == E[n].right
             j == E[n].index
  <2>1. CASE E[n].kind = "condition"
    <3>1. j \in Conditions(E) /\ V[n] = x[j] /\ W[n] = y[j]
      BY <1>1, <2>1, NodeIs, ValuesComputed
    <3>2. (a[n] <=> ~Masked(E, x, j)) /\ (b[n] <=> ~Masked(E, y, j))
      BY <1>1, <1>3, <1>4, <2>1, ActiveDecides
    <3>3. Allows(p[j], V[n]) /\ Allows(q[j], W[n])
      BY <1>1, <3>1
    <3>4. LeafPossible(j, p, q, i, J(n))
      <4>1. CASE j = i
        <5>1. V[n] # W[n] /\ a[n] /\ b[n]
          BY <3>1, <3>2, <4>1 DEF Effect
        <5> HIDE DEF V, W, J
        <5> QED BY <1>6, <3>3, <4>1, <5>1 DEF LeafPossible
      <4>2. CASE j # i
        <5>1. V[n] = W[n] \/ (~a[n] /\ ~b[n])
          BY <3>1, <3>2, <4>2 DEF Effect
        <5> HIDE DEF V, W, J
        <5> QED BY <1>6, <3>3, <4>2, <5>1 DEF LeafPossible
      <4> QED BY <4>1, <4>2
    <3> HIDE DEF J, V, W
    <3>5. J(n) \in possible[n]
      BY <1>6, <2>1, <3>4, PossibleComputed
    <3> QED BY <3>5
  <2>2. CASE E[n].kind = "constant"
    <3>1. V[n] = E[n].constant /\ W[n] = E[n].constant
      BY <1>1, <2>2, ValuesComputed
    <3>2. J(n).value = <<E[n].constant, E[n].constant>>
      <4> HIDE DEF V, W
      <4> QED BY <3>1
    <3> HIDE DEF J, V, W
    <3>3. J(n) \in possible[n]
      BY <1>6, <2>2, <3>2, PossibleComputed
    <3> QED BY <3>3
  <2>3. CASE E[n].kind = "not"
    <3>1. V[n] = ~V[l] /\ W[n] = ~W[l]
      BY <1>1, <2>3, ValuesComputed
    <3>2. a[l] = a[n] /\ b[l] = b[n]
      BY <1>3, <1>4, <2>3 DEF IsActivity
    <3>3. J(l) \in possible[l] /\ l \in Nodes(E)
      BY <1>7, <2>3 DEF HasOperand
    <3>4. V[l] \in BOOLEAN /\ W[l] \in BOOLEAN
      BY <1>2, <3>3
    <3> HIDE DEF V, W
    <3>5. Negate(J(n)) = J(l)
      <4>1. (~V[n]) = V[l] /\ (~W[n]) = W[l]
        BY <3>1, <3>4
      <4>2. Negate(J(n)) = [value |-> <<~V[n], ~W[n]>>, active |-> <<a[n], b[n]>>]
        BY DEF Negate
      <4>3. J(l) = [value |-> <<V[l], W[l]>>, active |-> <<a[l], b[l]>>]
        OBVIOUS
      <4>4. <<~V[n], ~W[n]>> = <<V[l], W[l]>> /\ <<a[n], b[n]>> = <<a[l], b[l]>>
        BY <3>2, <4>1
      <4> HIDE DEF l, J
      <4> QED BY <4>2, <4>3, <4>4
    <3> HIDE DEF J
    <3>6. J(n) \in possible[n]
      BY <1>6, <2>3, <3>3, <3>5, PossibleComputed
    <3> QED BY <3>6
  <2>4. CASE IsBinary(E, n)
    <3>1. l \in Nodes(E) /\ r \in Nodes(E)
      BY <2>4, NodeIs
    <3>2. V[n] = Combine(E[n].kind, V[l], V[r]) /\ W[n] = Combine(E[n].kind, W[l], W[r])
      BY <1>1, <2>4, ValuesComputed DEF Combine, IsBinary
    <3>3. /\ a[l] = (a[n] /\ V[r] = NeutralValue(E[n].kind))
          /\ a[r] = (a[n] /\ V[l] = NeutralValue(E[n].kind))
      BY <1>3, <2>4 DEF IsActivity, Lets
    <3>4. /\ b[l] = (b[n] /\ W[r] = NeutralValue(E[n].kind))
          /\ b[r] = (b[n] /\ W[l] = NeutralValue(E[n].kind))
      BY <1>4, <2>4 DEF IsActivity, Lets
    <3>5. J(l) \in possible[l] /\ J(r) \in possible[r]
      BY <1>7, <2>4 DEF HasOperand, IsBinary
    <3> HIDE DEF V, W, J, l, r
    <3>6. IsJoint(E[n].kind, J(n), J(l), J(r))
      BY <1>6, <3>1, <3>2, <3>3, <3>4 DEF IsJoint
    <3>7. PICK c \in JointChoices(E[n].kind, J(n)) :
            ChildStates(E[n].kind, J(n), c) = <<J(l), J(r)>>
      BY <1>6, <2>4, <3>1, <3>6, JointIsChosen DEF IsBinary
    <3>8. /\ ChildStates(E[n].kind, J(n), c)[1] \in possible[l]
          /\ ChildStates(E[n].kind, J(n), c)[2] \in possible[r]
      BY <3>5, <3>7
    <3>9. \E d \in JointChoices(E[n].kind, J(n)) :
            /\ ChildStates(E[n].kind, J(n), d)[1] \in possible[E[n].left]
            /\ ChildStates(E[n].kind, J(n), d)[2] \in possible[E[n].right]
      BY <3>7, <3>8 DEF l, r
    <3>10. J(n) \in JointStates
      BY <1>6
    <3>11. \A st \in JointStates :
             (\E d \in JointChoices(E[n].kind, st) :
                /\ ChildStates(E[n].kind, st, d)[1] \in possible[E[n].left]
                /\ ChildStates(E[n].kind, st, d)[2] \in possible[E[n].right])
             => st \in possible[n]
      BY <2>4, PossibleComputed
    <3> HIDE DEF possible
    <3>12. J(n) \in possible[n]
      BY <3>9, <3>10, <3>11
    <3> QED BY <3>12
  <2> QED BY <2>1, <2>2, <2>3, <2>4, NodeIs DEF IsBinary
<1>8. T = Nodes(E)
  <2>1. T \in SUBSET Nodes(E)
    OBVIOUS
  <2> HIDE DEF T
  <2> QED BY <1>7, <2>1, OperandsFirst
<1>9. 1 \in Nodes(E) /\ J(1) \in possible[1]
  <2>1. 1 \in Nodes(E)
    BY DEF WellFormed, Nodes
  <2>2. 1 \in T
    <3> HIDE DEF T
    <3> QED BY <1>8, <2>1
  <2> QED BY <2>1, <2>2
<1>10. V[1] = ResultOf(E, p) /\ W[1] = ResultOf(E, q)
  BY CompletionResult DEF Value
<1>11. J(1) = RootState(E, p, q)
  <2> HIDE DEF V, W
  <2> QED BY <1>5, <1>10 DEF RootState
<1> QED BY <1>9, <1>11

(* solvePair finds a witness exactly if there is one, and one that proves  *)
(* its claim.                                                              *)
LEMMA PairIsSolved ==
  ASSUME NEW E, WellFormed(E), NEW p \in Vectors(E), NEW q \in Vectors(E),
         NEW i \in Conditions(E), ResultOf(E, p) # ResultOf(E, q)
  PROVE  LET w == SolvePair(E, p, q, i).witness
         IN  /\ w # <<>> <=> \E x \in Comp(E, p), y \in Comp(E, q) : Effect(E, i, x, y)
             /\ w # <<>> => /\ w[1] = p /\ w[2] = q
                            /\ w[3] \in Comp(E, p) /\ w[4] \in Comp(E, q)
                            /\ Value(E, w[3]) = ResultOf(E, p)
                            /\ Value(E, w[4]) = ResultOf(E, q)
                            /\ Effect(E, i, w[3], w[4])
<1> DEFINE solved == Possible(E, p, q, i)
           root == RootState(E, p, q)
           z == Completions(E, solved, root)
           w == SolvePair(E, p, q, i).witness
<1>1. [n \in DOMAIN E |-> solved[n]] = solved
  <2>1. solved \in [Nodes(E) -> SUBSET JointStates] /\ DOMAIN E = Nodes(E)
    BY PossibleComputed DEF WellFormed, Nodes
  <2> HIDE DEF solved
  <2> QED BY <2>1
<1>2. 1 \in DOMAIN E
  BY DEF WellFormed
<1>3. w = IF root \in solved[1] THEN <<p, q, z[1], z[2]>> ELSE <<>>
  <2>1. w = IF root \in [n \in DOMAIN E |-> solved[n]][1]
            THEN <<p, q, Completions(E, [n \in DOMAIN E |-> solved[n]], root)[1],
                   Completions(E, [n \in DOMAIN E |-> solved[n]], root)[2]>> ELSE <<>>
    BY DEF SolvePair
  <2> HIDE DEF w, solved, root
  <2> QED BY <1>1, <2>1
<1>4. ASSUME root \in solved[1]
      PROVE  /\ z[1] \in Comp(E, p) /\ z[2] \in Comp(E, q)
             /\ Value(E, z[1]) = ResultOf(E, p) /\ Value(E, z[2]) = ResultOf(E, q)
             /\ Effect(E, i, z[1], z[2])
  BY <1>4, SolverIsSound
<1>5. ASSUME NEW x \in Comp(E, p), NEW y \in Comp(E, q), Effect(E, i, x, y)
      PROVE  root \in solved[1]
  BY <1>5, SolverIsComplete
<1> HIDE DEF w, solved, root, z
<1>6. \A a, b, c, d : <<a, b, c, d>> # <<>>
  <2> SUFFICES ASSUME NEW a, NEW b, NEW c, NEW d PROVE <<a, b, c, d>> # <<>>
    OBVIOUS
  <2>1. Len(<<a, b, c, d>>) = 4 /\ Len(<<>>) = 0
    OBVIOUS
  <2> QED BY <2>1
<1>7. w # <<>> <=> root \in solved[1]
  BY <1>3, <1>6
<1>8. w # <<>> => w[1] = p /\ w[2] = q /\ w[3] = z[1] /\ w[4] = z[2]
  BY <1>3
<1>9. w # <<>> <=> \E x \in Comp(E, p), y \in Comp(E, q) : Effect(E, i, x, y)
  BY <1>4, <1>5, <1>7
<1>10. w # <<>> => /\ w[1] = p /\ w[2] = q
                   /\ w[3] \in Comp(E, p) /\ w[4] \in Comp(E, q)
                   /\ Value(E, w[3]) = ResultOf(E, p)
                   /\ Value(E, w[4]) = ResultOf(E, q)
                   /\ Effect(E, i, w[3], w[4])
  BY <1>4, <1>7, <1>8
<1> QED BY <1>9, <1>10 DEF w
-----------------------------------------------------------------------------
(***************************************************************************)
(* The search over the pairs.  Every settled condition has the result that *)
(* the solver's answers give it; while a condition is searched, none of    *)
(* the pairs behind it had a witness.                                      *)
(***************************************************************************)
MaskingSuite ==
  /\ WellFormed(expression)
  /\ Conditions(expression) = 1..Count
  /\ Len(evaluations) \in Nat
  /\ evaluations \in [1..Len(evaluations) -> Vectors(expression)]

Solved(w, i) == SolvePair(expression, evaluations[w[1]], evaluations[w[2]], i).witness

Right(i, r) ==
  \/ r \in {Unknown, Canceled}
  \/ r = InfeasibleResult /\ ~StructurallyPivotal(expression, i)
  \/ r = NotCovered /\ \A w \in CandidatePairs(i) : Solved(w, i) = <<>>
  \/ \E w \in CandidatePairs(i) : Solved(w, i) # <<>> /\ r = CoveredBy(Solved(w, i))

MaskingInv ==
  /\ MaskingSuite
  /\ search \in {"off", "started", "analyzing", "done"}
  /\ position \in Nat \ {0} /\ pair \in Nat
  /\ DOMAIN results = Conditions(expression)
  /\ \A i \in Conditions(expression) :
       IF Settled(i) THEN Right(i, results[i]) ELSE results[i] = NotCovered
  /\ ~searching => pair = 0
  /\ searching =>
       \A w \in CandidatePairs(position) :
         Cardinality(PairsBefore(w, position)) < pair => Solved(w, position) = <<>>

(* The pairs of a condition are finitely many, and counting those that are *)
(* tried before one numbers them.                                          *)
LEMMA PairsAreRanked ==
  ASSUME MaskingSuite, NEW i
  PROVE  /\ Cardinality(CandidatePairs(i)) \in Nat
         /\ CandidatePairs(i) = {} => Cardinality(CandidatePairs(i)) = 0
         /\ \A w \in CandidatePairs(i) :
              /\ Cardinality(PairsBefore(w, i)) \in Nat
              /\ Cardinality(PairsBefore(w, i)) < Cardinality(CandidatePairs(i))
              /\ \A v \in CandidatePairs(i) :
                   Cardinality(PairsBefore(v, i)) = Cardinality(PairsBefore(w, i)) => v = w
<1> DEFINE P == CandidatePairs(i)
           R(w) == PairsBefore(w, i)
<1>1. P \in SUBSET (Indexes \X Indexes) /\ Indexes \in SUBSET Nat /\ IsFiniteSet(Indexes)
  <2>1. IsFiniteSet(Indexes)
    BY FS_Interval DEF MaskingSuite, Indexes
  <2>2. P \in SUBSET (Indexes \X Indexes) /\ Indexes \in SUBSET Nat
    BY DEF CandidatePairs, Indexes
  <2> QED BY <2>1, <2>2
<1>2. IsFiniteSet(P)
  <2>1. IsFiniteSet(Indexes \X Indexes)
    BY <1>1, FS_Product
  <2> HIDE DEF P
  <2> QED BY <1>1, <2>1, FS_Subset
<1>3. \A w \in P : R(w) = {v \in P : TriedBefore(v, w)}
  BY DEF PairsBefore
<1>4. \A w \in P : w = <<w[1], w[2]>> /\ w[1] \in Nat /\ w[2] \in Nat
  <2> SUFFICES ASSUME NEW w \in P
               PROVE  w = <<w[1], w[2]>> /\ w[1] \in Nat /\ w[2] \in Nat
    OBVIOUS
  <2> HIDE DEF P
  <2>1. w \in Indexes \X Indexes
    BY <1>1
  <2>2. w = <<w[1], w[2]>> /\ w[1] \in Indexes /\ w[2] \in Indexes
    BY <2>1
  <2> QED BY <1>1, <2>2
<1> HIDE DEF P, R
<1>5. Cardinality(P) \in Nat /\ (P = {} => Cardinality(P) = 0)
  BY <1>2, FS_CardinalityType, FS_EmptySet
<1>6. ASSUME NEW w \in P
      PROVE  /\ IsFiniteSet(R(w)) /\ Cardinality(R(w)) \in Nat
             /\ Cardinality(R(w)) < Cardinality(P)
  <2>1. R(w) \in SUBSET P /\ w \notin R(w)
    BY <1>3, <1>4 DEF TriedBefore
  <2>2. /\ IsFiniteSet(R(w)) /\ Cardinality(R(w)) <= Cardinality(P)
        /\ (Cardinality(P) = Cardinality(R(w)) => P = R(w))
    BY <1>2, <2>1, FS_Subset
  <2>3. Cardinality(R(w)) \in Nat
    BY <2>2, FS_CardinalityType
  <2> QED BY <1>5, <2>1, <2>2, <2>3
<1>7. ASSUME NEW v \in P, NEW w \in P, TriedBefore(v, w)
      PROVE  Cardinality(R(v)) # Cardinality(R(w))
  <2>1. R(v) \in SUBSET R(w) /\ v \in R(w) /\ v \notin R(v)
    <3>1. v \in R(w) /\ v \notin R(v)
      BY <1>3, <1>4, <1>7 DEF TriedBefore
    <3>2. ASSUME NEW u \in R(v)
          PROVE  u \in R(w)
      <4>1. u \in P /\ TriedBefore(u, v)
        BY <1>3, <3>2
      <4>2. TriedBefore(u, w)
        BY <1>4, <1>7, <4>1 DEF TriedBefore
      <4> QED BY <1>3, <4>1, <4>2
    <3> QED BY <3>1, <3>2
  <2>2. Cardinality(R(w)) = Cardinality(R(v)) => R(w) = R(v)
    BY <1>6, <2>1, FS_Subset
  <2> QED BY <2>1, <2>2
<1>8. ASSUME NEW v \in P, NEW w \in P, Cardinality(R(v)) = Cardinality(R(w))
      PROVE  v = w
  <2>1. ~TriedBefore(v, w) /\ ~TriedBefore(w, v)
    BY <1>7, <1>8
  <2>2. v[1] = w[1] /\ v[2] = w[2]
    BY <1>4, <2>1 DEF TriedBefore
  <2> QED BY <1>4, <2>2
<1> QED BY <1>5, <1>6, <1>8 DEF P, R

(* What is said of pairs stays while the decision and its suite do.        *)
LEMMA PairsStay ==
  ASSUME UNCHANGED <<expression, evaluations>>
  PROVE  /\ MaskingSuite' <=> MaskingSuite
         /\ Count' = Count /\ Conditions(expression)' = Conditions(expression)
         /\ \A i : CandidatePairs(i)' = CandidatePairs(i)
         /\ \A i, r : Right(i, r)' <=> Right(i, r)
         /\ \A i, w : /\ Solved(w, i)' = Solved(w, i)
                      /\ PairsBefore(w, i)' = PairsBefore(w, i)
<1>1. (MaskingSuite' <=> MaskingSuite) /\ Count' = Count /\ Conditions(expression)' = Conditions(expression)
  BY DEF MaskingSuite, Count
<1>2. \A i : CandidatePairs(i)' = CandidatePairs(i)
  BY DEF CandidatePairs, Candidate, Indexes
<1>3. \A i, w : Solved(w, i)' = Solved(w, i)
  BY DEF Solved
<1>4. \A i, w : PairsBefore(w, i)' = PairsBefore(w, i)
  BY <1>2 DEF PairsBefore
<1>5. \A i, r : Right(i, r)' <=> Right(i, r)
  BY <1>2, <1>3 DEF Right, Unknown, Canceled, InfeasibleResult, NotCovered, CoveredBy
<1> QED BY <1>1, <1>2, <1>3, <1>4, <1>5

(* The conditions that remain are conditions of the decision.              *)
LEMMA PositionIsCondition ==
  ASSUME MaskingSuite
  PROVE  /\ Count \in Nat
         /\ \A i : i \in Conditions(expression) <=> i \in Nat \ {0} /\ i <= Count
<1>1. IsFiniteSet(Conditions(expression))
  BY ConditionsAre DEF MaskingSuite
<1>2. Count \in Nat
  BY <1>1, FS_CardinalityType DEF Count
<1> QED BY <1>2 DEF MaskingSuite

(* The search is started on a decision and on a suite of its vectors.      *)
LEMMA SuiteIsRead ==
  ASSUME NEW d \in Decisions, expression = d.expression, evaluations = d.suite
  PROVE  MaskingSuite
<1>1. WellFormed(expression) /\ Conditions(expression) = 1..Cardinality(Conditions(expression))
  BY DecisionsAssumption
<1>2. PICK suite \in SUBSET Vectors(expression) : evaluations = Prepared(suite)
  BY DecisionsAssumption
<1>3. Conditions(expression) \in SUBSET Nat /\ IsFiniteSet(Conditions(expression))
  BY <1>1, ConditionsAre
<1>4. suite \in SUBSET [Conditions(expression) -> State]
  BY DEF Vectors
<1>5. IsFiniteSet(suite)
  BY <1>3, <1>4, VectorsFinite, FS_Subset
<1>6. /\ Cardinality(suite) \in Nat
      /\ Prepared(suite) \in [1..Cardinality(suite) -> suite]
  BY <1>3, <1>4, <1>5, PreparedLists
<1>7. Len(evaluations) = Cardinality(suite) /\ evaluations \in [1..Cardinality(suite) -> suite]
  BY <1>2, <1>6
<1>8. evaluations \in [1..Len(evaluations) -> Vectors(expression)]
  BY <1>7
<1> QED BY <1>1, <1>6, <1>7, <1>8 DEF MaskingSuite, Count

(* A condition that is settled with a right result leaves all of them      *)
(* right.                                                                  *)
LEMMA SettleKeeps ==
  ASSUME MaskingInv, Analyzing, NEW r, Right(position, r), Settle(r)
  PROVE  MaskingInv'
<1>1. /\ UNCHANGED <<expression, evaluations>> /\ search' = search /\ search = "analyzing"
      /\ position' = position + 1 /\ pair' = 0 /\ searching' = FALSE
      /\ results' = [results EXCEPT ![position] = r]
  BY DEF Settle, NextCondition, Analyzing
<1>2. MaskingSuite' /\ Conditions(expression)' = Conditions(expression)
  BY <1>1, PairsStay DEF MaskingInv
<1>3. position \in Nat \ {0} /\ position \in Conditions(expression)
      /\ Conditions(expression) \in SUBSET Nat
  BY PositionIsCondition DEF MaskingInv, Analyzing
<1>4. ASSUME NEW i \in Conditions(expression), NEW o, o = results'[i]
      PROVE  IF Settled(i)' THEN Right(i, o) ELSE o = NotCovered
  <2>1. Settled(i)' <=> i < position + 1
    BY <1>1 DEF Settled
  <2>2. Settled(i) <=> i < position
    BY <1>1 DEF Settled
  <2>3. CASE i = position
    <3>1. o = r
      BY <1>1, <1>4, <2>3 DEF MaskingInv
    <3> QED BY <1>3, <2>1, <2>3, <3>1
  <2>4. CASE i # position
    <3>1. o = results[i]
      BY <1>1, <1>4, <2>4 DEF MaskingInv
    <3>2. i < position + 1 <=> i < position
      BY <1>3, <2>4
    <3> QED BY <2>1, <2>2, <3>1, <3>2 DEF MaskingInv
  <2> QED BY <2>3, <2>4
<1>5. \A i, o : Right(i, o)' <=> Right(i, o)
  BY <1>1, PairsStay
<1>6. ASSUME NEW i \in Conditions(expression)
      PROVE  IF Settled(i)' THEN Right(i, results[i])' ELSE results'[i] = NotCovered
  BY <1>4, <1>5
<1> QED BY <1>1, <1>2, <1>3, <1>6 DEF MaskingInv, NotCovered

(* A canceled search leaves what is settled, and the rest unknown.         *)
LEMMA StopKeeps ==
  ASSUME MaskingInv, NEW from \in Nat, search # "done", from <= position, MarkCanceled(from),
         search' = "done",
         UNCHANGED <<expression, evaluations, position, pair, searching>>
  PROVE  MaskingInv'
<1>1. MaskingSuite' /\ Conditions(expression)' = Conditions(expression)
      /\ \A i, o : Right(i, o)' <=> Right(i, o)
  BY PairsStay DEF MaskingInv
<1>2. \A i : CandidatePairs(i)' = CandidatePairs(i)
  BY PairsStay
<1>3. \A i, w : Solved(w, i)' = Solved(w, i) /\ PairsBefore(w, i)' = PairsBefore(w, i)
  BY PairsStay
<1>4. DOMAIN results' = Conditions(expression)
  BY DEF MarkCanceled
<1>5. ASSUME NEW i \in Conditions(expression), NEW o, o = results'[i]
      PROVE  Right(i, o)
  <2>1. CASE i < from
    <3>1. i < position /\ o = results[i]
      BY <1>5, <2>1, PositionIsCondition DEF MaskingInv, MarkCanceled
    <3> QED BY <3>1 DEF MaskingInv, Settled
  <2>2. CASE ~(i < from)
    <3>1. o = Canceled
      BY <1>5, <2>2 DEF MarkCanceled
    <3> QED BY <3>1 DEF Right
  <2> QED BY <2>1, <2>2
<1>6. \A i \in Conditions(expression) : Right(i, results[i])'
  BY <1>1, <1>5
<1>7. searching' => \A w \in CandidatePairs(position)' :
        Cardinality(PairsBefore(w, position))' < pair' => Solved(w, position)' = <<>>
  BY <1>2, <1>3 DEF MaskingInv
<1> QED BY <1>1, <1>4, <1>6, <1>7 DEF MaskingInv, Settled

(* A step that changes neither the results nor what is tried keeps them.   *)
LEMMA IdleKeeps ==
  ASSUME MaskingInv, search' = search \/ (search = "started" /\ search' = "analyzing")
                       \/ (search = "analyzing" /\ search' = "done" /\ position > Count),
         UNCHANGED <<expression, evaluations, position, pair, searching, results>>
  PROVE  MaskingInv'
<1>1. MaskingSuite' /\ Conditions(expression)' = Conditions(expression)
      /\ \A i, o : Right(i, o)' <=> Right(i, o)
  BY PairsStay DEF MaskingInv
<1>2. \A i : CandidatePairs(i)' = CandidatePairs(i)
  BY PairsStay
<1>3. \A i, w : Solved(w, i)' = Solved(w, i) /\ PairsBefore(w, i)' = PairsBefore(w, i)
  BY PairsStay
<1>4. ASSUME NEW i \in Conditions(expression)
      PROVE  Settled(i)' <=> Settled(i)
  <2>1. CASE search = "analyzing" /\ search' = "done" /\ position > Count
    <3>1. i < position
      BY <2>1, PositionIsCondition DEF MaskingInv
    <3> QED BY <2>1, <3>1 DEF Settled
  <2>2. CASE ~(search = "analyzing" /\ search' = "done" /\ position > Count)
    BY <2>2 DEF Settled
  <2> QED BY <2>1, <2>2
<1>5. \A i \in Conditions(expression) :
        IF Settled(i)' THEN Right(i, results[i])' ELSE results'[i] = NotCovered
  BY <1>1, <1>4 DEF MaskingInv
<1>6. searching' => \A w \in CandidatePairs(position)' :
        Cardinality(PairsBefore(w, position))' < pair' => Solved(w, position)' = <<>>
  BY <1>2, <1>3 DEF MaskingInv
<1> QED BY <1>1, <1>5, <1>6 DEF MaskingInv, NotCovered

(* The next pair is tried when the one at hand has no witness.             *)
LEMMA AdvanceKeeps ==
  ASSUME MaskingInv, searching, NEW w \in CandidatePairs(position),
         Cardinality(PairsBefore(w, position)) = pair, Solved(w, position) = <<>>,
         pair' = pair + 1,
         UNCHANGED <<expression, evaluations, position, searching, results, search>>
  PROVE  MaskingInv'
<1>1. MaskingSuite' /\ Conditions(expression)' = Conditions(expression)
      /\ \A i, o : Right(i, o)' <=> Right(i, o)
  BY PairsStay DEF MaskingInv
<1>2. \A i : CandidatePairs(i)' = CandidatePairs(i)
  BY PairsStay
<1>3. \A i, v : Solved(v, i)' = Solved(v, i) /\ PairsBefore(v, i)' = PairsBefore(v, i)
  BY PairsStay
<1>4. ASSUME NEW v \in CandidatePairs(position),
             Cardinality(PairsBefore(v, position)) < pair + 1
      PROVE  Solved(v, position) = <<>>
  <2>1. /\ Cardinality(PairsBefore(v, position)) \in Nat /\ pair \in Nat
        /\ Cardinality(PairsBefore(v, position)) = Cardinality(PairsBefore(w, position)) => v = w
    BY PairsAreRanked DEF MaskingInv
  <2>2. CASE Cardinality(PairsBefore(v, position)) = pair
    BY <2>1, <2>2
  <2>3. CASE Cardinality(PairsBefore(v, position)) # pair
    BY <1>4, <2>1, <2>3 DEF MaskingInv
  <2> QED BY <2>2, <2>3
<1>5. \A i \in Conditions(expression) :
        IF Settled(i)' THEN Right(i, results[i])' ELSE results'[i] = NotCovered
  BY <1>1 DEF MaskingInv, Settled
<1>6. searching' => \A v \in CandidatePairs(position)' :
        Cardinality(PairsBefore(v, position))' < pair' => Solved(v, position)' = <<>>
  BY <1>2, <1>3, <1>4
<1> QED BY <1>1, <1>5, <1>6 DEF MaskingInv, NotCovered

(* The search starts with nothing settled.                                 *)
LEMMA SearchStarts ==
  ASSUME NEW d \in Decisions, expression = d.expression, evaluations = d.suite,
         position = 1, pair = 0, searching = FALSE, search \in {"off", "started"},
         results = [i \in Conditions(expression) |-> NotCovered]
  PROVE  MaskingInv
<1>1. MaskingSuite
  BY SuiteIsRead
<1>2. \A i \in Conditions(expression) : ~Settled(i)
  BY <1>1, PositionIsCondition DEF Settled
<1> QED BY <1>1, <1>2 DEF MaskingInv

(* Every step of the search keeps the invariant.                           *)
LEMMA MaskingKeeps ==
  ASSUME MaskingInv, MaskingNext
  PROVE  MaskingInv'
<1>1. CASE Start
  <2>1. CASE canceled
    <3>1. MarkCanceled(1) /\ search' = "done" /\ search # "done" /\ 1 <= position
      BY <1>1, <2>1 DEF Start, MaskingInv
    <3> QED BY <1>1, <3>1, StopKeeps DEF Start
  <2>2. CASE ~canceled
    BY <1>1, <2>2, IdleKeeps DEF Start
  <2> QED BY <2>1, <2>2
<1>2. CASE SkipCanceled
  <2>1. search # "done" /\ position \in Nat /\ position <= position
    BY <1>2 DEF SkipCanceled, AtCondition, Analyzing, MaskingInv
  <2> QED BY <1>2, <2>1, StopKeeps DEF SkipCanceled, StopCanceled
<1>3. CASE SkipInfeasible
  <2>1. Analyzing /\ Right(position, InfeasibleResult) /\ Settle(InfeasibleResult)
    BY <1>3 DEF SkipInfeasible, AtCondition, Right
  <2> QED BY <2>1, SettleKeeps
<1>4. CASE NoCandidates
  <2>1. Analyzing /\ Right(position, NotCovered) /\ Settle(NotCovered)
    BY <1>4 DEF NoCandidates, AtCondition, Right
  <2> QED BY <2>1, SettleKeeps
<1>5. CASE TooLarge
  <2>1. Analyzing /\ Right(position, Unknown) /\ Settle(Unknown)
    BY <1>5 DEF TooLarge, AtCondition, Right
  <2> QED BY <2>1, SettleKeeps
<1>6. CASE BeginSearch
  <2>1. MaskingSuite' /\ Conditions(expression)' = Conditions(expression)
        /\ \A i, o : Right(i, o)' <=> Right(i, o)
    BY <1>6, PairsStay DEF MaskingInv, BeginSearch
  <2>2. \A i : CandidatePairs(i)' = CandidatePairs(i)
    BY <1>6, PairsStay DEF BeginSearch
  <2>3. \A i, v : PairsBefore(v, i)' = PairsBefore(v, i)
    BY <1>6, PairsStay DEF BeginSearch
  <2>4. pair' = 0 /\ UNCHANGED <<position, results, search>>
    BY <1>6 DEF BeginSearch, AtCondition, MaskingInv
  <2>5. \A v \in CandidatePairs(position) : ~(Cardinality(PairsBefore(v, position)) < 0)
    BY PairsAreRanked DEF MaskingInv
  <2>6. \A v \in CandidatePairs(position)' :
          Cardinality(PairsBefore(v, position))' < pair' => Solved(v, position)' = <<>>
    BY <2>2, <2>3, <2>4, <2>5
  <2>7. \A i \in Conditions(expression) :
          IF Settled(i)' THEN Right(i, results[i])' ELSE results'[i] = NotCovered
    BY <2>1, <2>4 DEF MaskingInv, Settled
  <2> QED BY <1>6, <2>1, <2>4, <2>6, <2>7 DEF MaskingInv, NotCovered, BeginSearch
<1>7. CASE PairsExhausted
  <2>1. \A v \in CandidatePairs(position) : Solved(v, position) = <<>>
    BY <1>7, PairsAreRanked DEF PairsExhausted, MaskingInv
  <2>2. Analyzing /\ Right(position, NotCovered) /\ Settle(NotCovered)
    BY <1>7, <2>1 DEF PairsExhausted, Right
  <2> QED BY <2>2, SettleKeeps
<1>8. CASE TryPair
  <2>1. PICK w \in CandidatePairs(position) :
          /\ Cardinality(PairsBefore(w, position)) = pair
          /\ \/ Settle(StoppedResult)
             \/ StopCanceled(position)
             \/ Solved(w, position) # <<>> /\ Settle(CoveredBy(Solved(w, position)))
             \/ /\ Solved(w, position) = <<>> /\ pair' = pair + 1
                /\ UNCHANGED <<expression, evaluations, canceled, position, searching,
                               results, search>>
    BY <1>8, Zenon DEF TryPair, Solved
  <2>2. Analyzing /\ searching
    BY <1>8 DEF TryPair
  <2>3. CASE Settle(StoppedResult)
    BY <2>2, <2>3, SettleKeeps DEF Right, StoppedResult
  <2>4. CASE StopCanceled(position)
    <3>1. search # "done" /\ position \in Nat /\ position <= position
      BY <2>2 DEF Analyzing, MaskingInv
    <3> QED BY <2>4, <3>1, StopKeeps DEF StopCanceled
  <2>5. CASE Solved(w, position) # <<>> /\ Settle(CoveredBy(Solved(w, position)))
    <3>1. Right(position, CoveredBy(Solved(w, position)))
      BY <2>5 DEF Right
    <3> QED BY <2>2, <2>5, <3>1, SettleKeeps
  <2>6. CASE /\ Solved(w, position) = <<>> /\ pair' = pair + 1
             /\ UNCHANGED <<expression, evaluations, canceled, position, searching,
                            results, search>>
    BY <2>1, <2>2, <2>6, AdvanceKeeps
  <2> QED BY <2>1, <2>3, <2>4, <2>5, <2>6
<1>9. CASE Finish
  BY <1>9, IdleKeeps DEF Finish
<1>10. CASE Cancel
  BY <1>10, IdleKeeps DEF Cancel
<1> QED BY <1>1, <1>2, <1>3, <1>4, <1>5, <1>6, <1>7, <1>8, <1>9, <1>10 DEF MaskingNext

-----------------------------------------------------------------------------
(***************************************************************************)
(* What the search says.                                                   *)
(***************************************************************************)
LEMMA ShowsIsEffect ==
  \A i, x, y : Shows(i, x, y) <=> Effect(expression, i, x, y)
BY Zenon DEF Shows, Differs, Effect

(* A pair that covers a condition is one of its candidates.                *)
LEMMA PairCovers ==
  ASSUME MaskingSuite, NEW i \in Conditions(expression), NEW k \in Indexes, NEW l \in Indexes,
         Covers(i, evaluations[k], evaluations[l])
  PROVE  /\ Candidate(k, i) /\ Candidate(l, i)
         /\ evaluations[k][i] # evaluations[l][i]
         /\ ResultOf(expression, evaluations[k]) # ResultOf(expression, evaluations[l])
         /\ \E x \in Comp(expression, evaluations[k]), y \in Comp(expression, evaluations[l]) :
              Effect(expression, i, x, y)
<1>1. PICK x \in Comp(expression, evaluations[k]), y \in Comp(expression, evaluations[l]) :
        Effect(expression, i, x, y)
  BY ShowsIsEffect DEF Covers
<1>2. evaluations[k] \in Vectors(expression) /\ evaluations[l] \in Vectors(expression)
  BY DEF MaskingSuite, Indexes
<1>3. ResultOf(expression, evaluations[k]) # ResultOf(expression, evaluations[l])
  BY <1>1, <1>2, CompletionResult DEF Effect, MaskingSuite
<1>4. Candidate(k, i) /\ Candidate(l, i)
  BY DEF Covers, Evaluated, Candidate
<1>5. evaluations[k][i] # evaluations[l][i]
  <2>1. x[i] \in BOOLEAN /\ y[i] \in BOOLEAN /\ x[i] # y[i]
    BY <1>1 DEF Comp, Assignments, Effect
  <2>2. evaluations[k][i] = StateOf(x[i]) /\ evaluations[l][i] = StateOf(y[i])
    BY <1>1, <1>4 DEF Comp, Candidate
  <2> QED BY <2>1, <2>2 DEF StateOf
<1> QED BY <1>1, <1>3, <1>4, <1>5

(* The solver tells of a pair whether it covers the condition.             *)
LEMMA CoveringIsSolved ==
  ASSUME MaskingSuite, NEW i \in Conditions(expression), NEW k \in Indexes, NEW l \in Indexes
  PROVE  k < l /\ Covers(i, evaluations[k], evaluations[l])
           <=> <<k, l>> \in CandidatePairs(i) /\ Solved(<<k, l>>, i) # <<>>
<1> DEFINE p == evaluations[k]
           q == evaluations[l]
           shown == \E x \in Comp(expression, p), y \in Comp(expression, q) :
                      Effect(expression, i, x, y)
<1>1. p \in Vectors(expression) /\ q \in Vectors(expression) /\ WellFormed(expression)
  BY DEF MaskingSuite, Indexes
<1>2. Solved(<<k, l>>, i) = SolvePair(expression, p, q, i).witness
  BY DEF Solved
<1>3. <<k, l>> \in CandidatePairs(i)
        <=> /\ k < l
            /\ Candidate(k, i) /\ Candidate(l, i)
            /\ p[i] # q[i]
            /\ ResultOf(expression, p) # ResultOf(expression, q)
  BY DEF CandidatePairs
<1>4. ResultOf(expression, p) # ResultOf(expression, q) =>
        (Solved(<<k, l>>, i) # <<>> <=> shown)
  BY <1>1, <1>2, PairIsSolved
<1>5. ASSUME Covers(i, p, q)
      PROVE  /\ Candidate(k, i) /\ Candidate(l, i) /\ p[i] # q[i]
             /\ ResultOf(expression, p) # ResultOf(expression, q)
             /\ shown
  BY <1>5, PairCovers
<1>6. ASSUME Candidate(k, i), Candidate(l, i), shown
      PROVE  Covers(i, p, q)
  BY <1>6, ShowsIsEffect DEF Covers, Evaluated, Candidate
<1> HIDE DEF shown
<1>7. k < l /\ Covers(i, p, q)
        <=> <<k, l>> \in CandidatePairs(i) /\ Solved(<<k, l>>, i) # <<>>
  <2> HIDE DEF p, q
  <2> QED BY <1>3, <1>4, <1>5, <1>6, Zenon
<1> QED BY <1>7

(* One that covers a condition has its pair among the candidates, whatever *)
(* the order of the two evaluations.                                       *)
LEMMA CoversEitherWay ==
  ASSUME MaskingSuite, NEW i \in Conditions(expression), NEW k \in Indexes, NEW l \in Indexes,
         Covers(i, evaluations[k], evaluations[l])
  PROVE  \E w \in CandidatePairs(i) : Solved(w, i) # <<>>
<1>1. Covers(i, evaluations[l], evaluations[k])
  <2>1. PICK x \in Comp(expression, evaluations[k]), y \in Comp(expression, evaluations[l]) :
          Effect(expression, i, x, y)
    BY ShowsIsEffect DEF Covers
  <2>2. Effect(expression, i, y, x)
    BY <2>1, Zenon DEF Effect
  <2> QED BY <2>1, <2>2, ShowsIsEffect DEF Covers, Evaluated
<1>2. k # l
  BY PairCovers
<1>3. k < l \/ l < k
  BY <1>2 DEF Indexes, MaskingSuite
<1> QED BY <1>1, <1>3, CoveringIsSolved

(* The results are told apart by what they say.                            *)
LEMMA ResultsAre ==
  /\ Unknown.outcome = "unknown" /\ Unknown.analysis = "incomplete" /\ Unknown.witness = <<>>
  /\ Canceled.outcome = "unknown" /\ Canceled.analysis = "canceled" /\ Canceled.witness = <<>>
  /\ InfeasibleResult.outcome = "notCovered" /\ InfeasibleResult.analysis = "infeasible"
  /\ InfeasibleResult.witness = <<>>
  /\ NotCovered.outcome = "notCovered" /\ NotCovered.analysis = "complete"
  /\ NotCovered.witness = <<>>
  /\ \A x : /\ CoveredBy(x).outcome = "covered" /\ CoveredBy(x).analysis = "complete"
            /\ CoveredBy(x).witness = x
BY DEF Unknown, Canceled, InfeasibleResult, NotCovered, CoveredBy

(* What the invariant says of the search is what its definition says.      *)
LEMMA InvMatches ==
  ASSUME MaskingInv
  PROVE  MatchesDefinition
<1>1. MaskingSuite /\ WellFormed(expression)
  BY DEF MaskingInv, MaskingSuite
<1>2. ASSUME NEW i \in Conditions(expression)
      PROVE  /\ Settled(i) => Right(i, results[i])
             /\ ~Settled(i) => results[i] = NotCovered
  BY DEF MaskingInv
<1>3. ASSUME NEW i \in Conditions(expression), NEW w \in CandidatePairs(i), Solved(w, i) # <<>>
      PROVE  \E k, l \in Indexes : k < l /\ Covers(i, evaluations[k], evaluations[l])
  <2>1. w \in Indexes \X Indexes
    BY DEF CandidatePairs
  <2>2. w = <<w[1], w[2]>> /\ w[1] \in Indexes /\ w[2] \in Indexes
    BY <2>1
  <2> QED BY <1>1, <1>3, <2>2, CoveringIsSolved
<1>4. ASSUME NEW i \in Conditions(expression), Finished(i)
      PROVE  results[i].outcome = "covered"
               <=> \E k, l \in Indexes : k < l /\ Covers(i, evaluations[k], evaluations[l])
  <2>1. Right(i, results[i]) /\ results[i].analysis = "complete"
    BY <1>2, <1>4 DEF Finished
  <2>2. CASE results[i] = NotCovered /\ \A w \in CandidatePairs(i) : Solved(w, i) = <<>>
    BY <1>1, <2>2, ResultsAre, CoversEitherWay
  <2>3. CASE \E w \in CandidatePairs(i) :
               Solved(w, i) # <<>> /\ results[i] = CoveredBy(Solved(w, i))
    BY <1>3, <2>3, ResultsAre
  <2> QED BY <2>1, <2>2, <2>3, ResultsAre DEF Right
<1>5. ASSUME NEW i \in Conditions(expression), results[i].analysis = "infeasible"
      PROVE  \A z \in Assignments(expression) : Masked(expression, z, i)
  <2>1. ~StructurallyPivotal(expression, i)
    BY <1>2, <1>5, ResultsAre DEF Right
  <2> QED BY <1>1, <2>1, DecidingIsPivotal
<1>6. ASSUME NEW i \in Conditions(expression), results[i].witness # <<>>
      PROVE  WitnessProves(i)
  <2>1. PICK w \in CandidatePairs(i) : Solved(w, i) # <<>> /\ results[i] = CoveredBy(Solved(w, i))
    BY <1>2, <1>6, ResultsAre DEF Right
  <2>2. w[1] \in Indexes /\ w[2] \in Indexes
        /\ ResultOf(expression, evaluations[w[1]]) # ResultOf(expression, evaluations[w[2]])
    BY DEF CandidatePairs
  <2> DEFINE p == evaluations[w[1]]
             q == evaluations[w[2]]
             v == Solved(w, i)
  <2>3. p \in Vectors(expression) /\ q \in Vectors(expression)
    BY <1>1, <2>2 DEF MaskingSuite, Indexes
  <2>4. v = SolvePair(expression, p, q, i).witness
    BY DEF Solved
  <2> HIDE DEF p, q, v
  <2>5. /\ v[1] = p /\ v[2] = q
        /\ v[3] \in Comp(expression, p) /\ v[4] \in Comp(expression, q)
        /\ Value(expression, v[3]) = ResultOf(expression, p)
        /\ Value(expression, v[4]) = ResultOf(expression, q)
        /\ Effect(expression, i, v[3], v[4])
    BY <1>1, <2>1, <2>2, <2>3, <2>4, PairIsSolved DEF p, q, v
  <2>6. results[i].witness = v
    BY <2>1, ResultsAre DEF v
  <2> QED BY <2>5, <2>6, ShowsIsEffect DEF WitnessProves
<1>7. ASSUME search = "done", Outcome = "covered", NEW i \in Conditions(expression)
      PROVE  results[i].witness # <<>>
  <2>1. Right(i, results[i]) /\ results[i].outcome = "covered"
    BY <1>2, <1>7 DEF Settled, Outcome
  <2> QED BY <2>1, ResultsAre DEF Right
<1>8. ASSUME search = "done", Outcome = "notCovered"
      PROVE  \E i \in Conditions(expression) : \A k, l \in Indexes :
               ~Covers(i, evaluations[k], evaluations[l])
  <2>1. PICK i \in Conditions(expression) :
          /\ results[i].outcome # "covered" /\ results[i].analysis # "infeasible"
          /\ results[i].outcome # "unknown"
    BY <1>8 DEF Outcome
  <2>2. Right(i, results[i])
    BY <1>2, <1>8 DEF Settled
  <2>3. \A w \in CandidatePairs(i) : Solved(w, i) = <<>>
    BY <2>1, <2>2, ResultsAre DEF Right
  <2> QED BY <1>1, <2>3, CoversEitherWay
<1> QED BY <1>4, <1>5, <1>6, <1>7, <1>8 DEF MatchesDefinition, OutcomeIsHonest

(* Everything but the context and the search's own state stays.            *)
LEMMA SuiteUnchanged ==
  /\ MaskingNext => UNCHANGED <<expression, evaluations>>
  /\ Next => UNCHANGED <<expression, evaluations, target>>
<1>1. MaskingNext => UNCHANGED <<expression, evaluations>>
  BY DEF MaskingNext, Start, SkipCanceled, StopCanceled, SkipInfeasible, NoCandidates,
         TooLarge, BeginSearch, PairsExhausted, TryPair, Finish, Cancel, Settle
<1>2. Next => UNCHANGED <<expression, evaluations, target>>
  BY DEF Next, Probe, NextFirst, GiveUp, Index
<1> QED BY <1>1, <1>2

(***************************************************************************)
(* The inductive invariant of the search for completions, for any          *)
(* decisions, suites and budgets, whenever the context is canceled.        *)
(***************************************************************************)
THEOREM MaskingInvariant == MaskingSpec => []MaskingInv
<1>1. MaskingInit => MaskingInv
  BY SearchStarts DEF MaskingInit
<1>2. MaskingInv /\ [MaskingNext]_<<expression, evaluations, maskingVars>> => MaskingInv'
  <2> SUFFICES ASSUME MaskingInv, [MaskingNext]_<<expression, evaluations, maskingVars>>
               PROVE  MaskingInv'
    OBVIOUS
  <2>1. CASE UNCHANGED <<expression, evaluations, maskingVars>>
    BY <2>1, IdleKeeps DEF maskingVars
  <2> QED BY <2>1, MaskingKeeps
<1> QED BY <1>1, <1>2, PTL DEF MaskingSpec

(***************************************************************************)
(* A finished search covers a condition exactly if some pair of the suite  *)
(* does by the definition; infeasible conditions decide nowhere; witnesses *)
(* prove their claims; and a search that stops early never looks like one  *)
(* that found nothing (MaskingStrategy.AnalyzeContext).                    *)
(***************************************************************************)
THEOREM MaskingMatchesDefinition == MaskingSpec => []MatchesDefinition
<1>1. MaskingInv => MatchesDefinition
  BY InvMatches
<1> QED BY <1>1, MaskingInvariant, PTL
-----------------------------------------------------------------------------
(***************************************************************************)
(* Both criteria of one decision.                                          *)
(***************************************************************************)
CriteriaInv ==
  /\ MaskingInv
  /\ phase \in {"probing", "indexing", "done", "off"}
  /\ phase # "off" => SearchInv
  /\ \E d \in Decisions : expression = d.expression

(* Both analyses start on a well-formed decision and on vectors of it.     *)
LEMMA CriteriaStarts == CriteriaInit => CriteriaInv
<1> SUFFICES ASSUME CriteriaInit PROVE CriteriaInv
  OBVIOUS
<1>1. PICK d \in Decisions : expression = d.expression /\ evaluations = d.suite
  BY DEF CriteriaInit
<1>2. MaskingInv
  BY <1>1, SearchStarts DEF CriteriaInit
<1>3. ASSUME phase # "off"
      PROVE  SearchInv
  <2>1. phase = "probing" /\ target \in Conditions(expression)
    BY <1>3 DEF CriteriaInit
  <2>2. PICK suite \in SUBSET Vectors(expression) : evaluations = Prepared(suite)
    BY <1>1, DecisionsAssumption
  <2>3. WellFormed(expression)
    BY <1>1, DecisionsAssumption
  <2>4. first = 1 /\ second = 2 /\ probes = 0 /\ witness = {}
    BY DEF CriteriaInit
  <2> QED BY <2>1, <2>2, <2>3, <2>4, ScanStarts
<1>4. phase \in {"probing", "off"}
  BY DEF CriteriaInit
<1> QED BY <1>1, <1>2, <1>3, <1>4 DEF CriteriaInv

(* A step of either analysis leaves the other one alone.                   *)
LEMMA CriteriaKeeps == CriteriaInv /\ [CriteriaNext]_criteriaVars => CriteriaInv'
<1> SUFFICES ASSUME CriteriaInv, [CriteriaNext]_criteriaVars PROVE CriteriaInv'
  OBVIOUS
<1>1. CASE UniqueCauseStep
  <2>1. UNCHANGED <<expression, evaluations, maskingVars>>
    BY <1>1, SuiteUnchanged DEF UniqueCauseStep
  <2>2. MaskingInv'
    BY <2>1, IdleKeeps DEF maskingVars, CriteriaInv
  <2>3. Next /\ phase # "off"
    BY <1>1 DEF UniqueCauseStep, Next, Probe, NextFirst, GiveUp, Index
  <2>4. SearchInv'
    BY <2>3, SearchKeeps DEF CriteriaInv
  <2> QED BY <2>1, <2>2, <2>4 DEF CriteriaInv, SearchInv
<1>2. CASE MaskingStep
  <2>1. UNCHANGED <<expression, evaluations>> /\ MaskingNext
    BY <1>2, SuiteUnchanged DEF MaskingStep
  <2>2. MaskingInv'
    BY <2>1, MaskingKeeps DEF CriteriaInv
  <2>3. UNCHANGED vars
    BY <1>2, <2>1 DEF MaskingStep, vars
  <2>4. phase # "off" => SearchInv'
    BY <2>3, SearchKeeps DEF CriteriaInv
  <2> QED BY <2>1, <2>2, <2>3, <2>4 DEF CriteriaInv, vars
<1>3. CASE UNCHANGED criteriaVars
  <2>1. UNCHANGED vars /\ UNCHANGED maskingVars
    BY <1>3 DEF criteriaVars
  <2>2. MaskingInv'
    BY <2>1, IdleKeeps DEF CriteriaInv, vars, maskingVars
  <2>3. phase # "off" => SearchInv'
    BY <2>1, SearchKeeps DEF CriteriaInv
  <2> QED BY <2>1, <2>2, <2>3 DEF CriteriaInv, vars
<1> QED BY <1>1, <1>2, <1>3 DEF CriteriaNext

(* A pair that covers a condition by Unique Cause can be completed to show *)
(* its independent effect: both completions give the conditions that were  *)
(* not evaluated the same values.                                          *)
LEMMA UniquePairShows ==
  ASSUME NEW E, WellFormed(E), NEW p \in Vectors(E), NEW q \in Vectors(E),
         NEW i \in Conditions(E), {p[i], q[i]} = {"true", "false"},
         ResultOf(E, p) # ResultOf(E, q),
         \A j \in Conditions(E) \ {i} : p[j] = q[j]
  PROVE  \E x \in Comp(E, p), y \in Comp(E, q) : Effect(E, i, x, y)
<1> DEFINE x == [j \in Conditions(E) |-> p[j] = "true"]
           y == [x EXCEPT ![i] = ~@]
<1>1. /\ x \in Assignments(E)
      /\ \A j \in Conditions(E) : p[j] \in State /\ q[j] \in State
  BY DEF Vectors, Assignments
<1>2. y \in Assignments(E) /\ y[i] = ~x[i] /\ \A j \in Conditions(E) : j # i => y[j] = x[j]
  BY <1>1 DEF Assignments
<1>3. x \in Comp(E, p)
  BY <1>1 DEF Comp, StateOf, State
<1>4. ASSUME NEW j \in Conditions(E)
      PROVE  q[j] \in {"notEvaluated", StateOf(y[j])}
  <2>1. CASE j = i
    BY <1>2, <2>1 DEF StateOf
  <2>2. CASE j # i
    BY <1>1, <1>2, <2>2 DEF StateOf, State
  <2> QED BY <2>1, <2>2
<1>5. y \in Comp(E, q)
  BY <1>2, <1>4 DEF Comp
<1>6. x[i] \in BOOLEAN /\ DOMAIN x = Conditions(E)
  OBVIOUS
<1> HIDE DEF x
<1>7. [y EXCEPT ![i] = ~@] = x
  BY <1>1, <1>2, <1>6 DEF Assignments
<1> HIDE DEF y
<1>8. Value(E, x) # Value(E, y)
  BY <1>3, <1>5, CompletionResult
<1>9. ~Masked(E, x, i) /\ ~Masked(E, y, i)
  BY <1>7, <1>8 DEF Masked, y
<1>10. Effect(E, i, x, y)
  BY <1>2, <1>6, <1>8, <1>9 DEF Effect
<1> QED BY <1>3, <1>5, <1>10

(* The witness of Unique Cause covers its condition in masking, too.       *)
LEMMA UniqueCauseCovers ==
  ASSUME CriteriaInv, phase = "done", witness # {}
  PROVE  /\ target \in Conditions(expression)
         /\ \E k, l \in Indexes : Covers(target, evaluations[k], evaluations[l])
<1>1. target \in Conditions(expression) /\ MaskingSuite
  BY DEF CriteriaInv, SearchInv, SuiteInv, MaskingInv
<1>2. PICK w \in FirstPairs : TRUE
  BY DEF CriteriaInv, SearchInv, FindsTheFirstPair
<1> DEFINE p == evaluations[w[1]]
           q == evaluations[w[2]]
<1>3. w[1] \in Indexes /\ w[2] \in Indexes /\ <<p, q>> \in PairsIn({evaluations[k] : k \in Indexes})
  BY DEF FirstPairs
<1>4. /\ {p[target], q[target]} = {"true", "false"}
      /\ ResultOf(expression, p) # ResultOf(expression, q)
      /\ \A j \in Conditions(expression) \ {target} : p[j] = q[j]
  BY <1>3 DEF PairsIn
<1>5. p \in Vectors(expression) /\ q \in Vectors(expression) /\ WellFormed(expression)
  BY <1>1, <1>3 DEF MaskingSuite, Indexes
<1> HIDE DEF p, q
<1>6. \E x \in Comp(expression, p), y \in Comp(expression, q) : Effect(expression, target, x, y)
  BY <1>1, <1>4, <1>5, UniquePairShows
<1>7. Covers(target, p, q)
  BY <1>4, <1>6, ShowsIsEffect DEF Covers, Evaluated
<1> QED BY <1>1, <1>3, <1>7 DEF p, q

(* With right results on both sides masking is the weaker demand.          *)
LEMMA WeakerByInv ==
  ASSUME CriteriaInv
  PROVE  MaskingIsWeaker
<1> SUFFICES ASSUME phase = "done", search # "off", Settled(target)
             PROVE  /\ Status = "covered" => results[target].outcome \in {"covered", "unknown"}
                    /\ results[target].analysis = "infeasible" => Status = "infeasible"
  BY DEF MaskingIsWeaker
<1>1. target \in Conditions(expression) /\ MaskingSuite /\ Right(target, results[target])
  BY DEF CriteriaInv, SearchInv, SuiteInv, MaskingInv
<1>2. WellFormed(expression)
  BY <1>1 DEF MaskingSuite
<1>3. ASSUME witness # {}
      PROVE  /\ StructurallyPivotal(expression, target)
             /\ \E w \in CandidatePairs(target) : Solved(w, target) # <<>>
  <2>1. PICK k \in Indexes, l \in Indexes : Covers(target, evaluations[k], evaluations[l])
    BY <1>3, UniqueCauseCovers
  <2>2. PICK x \in Comp(expression, evaluations[k]) : ~Masked(expression, x, target)
    BY <2>1 DEF Covers, Shows
  <2>3. x \in Assignments(expression)
    BY DEF Comp
  <2> QED BY <1>1, <1>2, <2>1, <2>2, <2>3, DecidingIsPivotal, CoversEitherWay
<1>4. Status = "covered" => witness # {}
  BY DEF Status
<1>5. Status = "covered" => results[target].outcome \in {"covered", "unknown"}
  BY <1>1, <1>3, <1>4, ResultsAre DEF Right
<1>6. results[target].analysis = "infeasible" => ~StructurallyPivotal(expression, target)
  BY <1>1, ResultsAre DEF Right
<1>7. results[target].analysis = "infeasible" => Status = "infeasible"
  BY <1>3, <1>6 DEF Status, Infeasible
<1> QED BY <1>5, <1>7

(***************************************************************************)
(* The inductive invariant of both criteria, one after the other.          *)
(***************************************************************************)
THEOREM CriteriaInvariant == CriteriaSpec => []CriteriaInv
BY CriteriaStarts, CriteriaKeeps, PTL DEF CriteriaSpec

(***************************************************************************)
(* What masking says of a decision is what its definition says, also when  *)
(* Unique Cause is analyzed before it (buildDecisionReport).               *)
(***************************************************************************)
THEOREM CriteriaMatchesDefinition == CriteriaSpec => []MatchesDefinition
<1>1. CriteriaInv => MatchesDefinition
  BY InvMatches DEF CriteriaInv
<1> QED BY <1>1, CriteriaInvariant, PTL

(***************************************************************************)
(* A condition that Unique Cause covers is covered by masking unless the   *)
(* search did not finish, and one that masking calls infeasible, Unique    *)
(* Cause calls infeasible (D18, D19).                                      *)
(***************************************************************************)
THEOREM CriteriaMaskingIsWeaker == CriteriaSpec => []MaskingIsWeaker
<1>1. CriteriaInv => MaskingIsWeaker
  BY WeakerByInv
<1> QED BY <1>1, CriteriaInvariant, PTL

(***************************************************************************)
(* Of every decision that is analyzed, Unique Cause finds the first pair   *)
(* that D18 admits, whichever criteria are asked for.                      *)
(***************************************************************************)
THEOREM CriteriaFindTheFirstPair == CriteriaSpec => []FindsTheFirstPair
<1>1. CriteriaInv => FindsTheFirstPair
  BY DEF CriteriaInv, SearchInv, FindsTheFirstPair
<1> QED BY <1>1, CriteriaInvariant, PTL
-----------------------------------------------------------------------------
(***************************************************************************)
(* The pool, for any number of tasks and any setting.                      *)
(***************************************************************************)
(* There are between one and four workers.                                 *)
LEMMA WorkersInRange ==
  ASSUME NEW configured \in Configured
  PROVE  EffectiveWorkers(configured) \in 1..MaxWorkers
<1>1. CASE Tasks <= 1 \/ configured < 0
  BY <1>1 DEF EffectiveWorkers, MaxWorkers
<1>2. CASE ~(Tasks <= 1 \/ configured < 0)
  <2> DEFINE asked == IF configured = 0 THEN Processors ELSE configured
             S == {asked, MaxWorkers, Tasks}
  <2>1. asked \in Nat \ {0} /\ Tasks \in Nat \ {0} /\ configured \in Int
    BY <1>2, PoolAssumption
  <2>2. \E x \in S : \A y \in S : x <= y
    BY <2>1 DEF MaxWorkers
  <2>3. Least(S) \in S /\ \A y \in S : Least(S) <= y
    BY <2>2 DEF Least
  <2>4. EffectiveWorkers(configured) = Least(S)
    BY <1>2 DEF EffectiveWorkers
  <2> HIDE DEF asked
  <2> QED BY <2>1, <2>3, <2>4 DEF MaxWorkers
<1> QED BY <1>1, <1>2

(* The invariant holds before the first worker runs.                       *)
LEMMA PoolStarts == PoolInit => IInv
<1> SUFFICES ASSUME PoolInit PROVE IInv
  OBVIOUS
<1>1. workers \in 1..MaxWorkers
  BY WorkersInRange DEF PoolInit
<1>2. TypeOK
  <2>1. 1 \in 1..(Tasks + 1) /\ 0 \in 0..Tasks
    BY PoolAssumption
  <2>2. /\ interrupted \in BOOLEAN /\ poolCanceled \in BOOLEAN
        /\ reports \in [TaskIds -> SUBSET {"exact", "canceled"}]
        /\ pc \in [WorkerIds -> {"loop", "select", "taken", "building", "exited"}]
    BY DEF PoolInit
  <2>3. /\ job \in [WorkerIds -> 0..Tasks] /\ begun \in [TaskIds -> Nat]
        /\ faulty \subseteq TaskIds
    BY <2>1 DEF PoolInit
  <2> QED BY <1>1, <2>1, <2>2, <2>3 DEF PoolInit, TypeOK
<1> QED
  BY <1>2, PoolAssumption DEF IInv, PoolInit, JobInv, BegunInv, ReportInv, CancelInv,
     BuiltOnce, PanicIsPassedOn, NobodyLeft, StartInv, Held, TaskIds, WorkerIds

(* A worker that only moves on or ends.                                    *)
LEMMA PoolMove ==
  ASSUME IInv, NEW w \in WorkerIds,
         Loop(w) \/ SelectDone(w) \/ SelectClosed(w)
  PROVE  IInv'
<1>1. /\ pc[w] \in {"loop", "select"}
      /\ \E where \in {"select", "exited"} : pc' = [pc EXCEPT ![w] = where]
      /\ UNCHANGED <<workers, faulty, interrupted, poolCanceled, next, job, begun,
                     reports, completed, panicValues, panicked, caller, turn>>
  BY DEF Loop, SelectDone, SelectClosed, Go, CallerUnchanged
<1>2. TypeOK'
  BY <1>1 DEF IInv, TypeOK
<1>3. caller = "waiting"
  BY <1>1 DEF IInv, NobodyLeft
<1>4. \A v \in WorkerIds : /\ Held(v)' <=> Held(v)
                           /\ pc'[v] = "building" <=> pc[v] = "building"
                           /\ pc'[v] = "taken" <=> pc[v] = "taken"
  BY <1>1 DEF IInv, TypeOK, Held
<1>5. JobInv'
  BY <1>1, <1>4 DEF IInv, JobInv
<1>6. BegunInv' /\ ReportInv' /\ CancelInv' /\ BuiltOnce' /\ PanicIsPassedOn'
        /\ StartInv'
  BY <1>1, <1>4 DEF IInv, BegunInv, ReportInv, CancelInv, BuiltOnce, PanicIsPassedOn,
                    StartInv
<1>7. NobodyLeft'
  BY <1>1, <1>3 DEF NobodyLeft
<1> QED BY <1>2, <1>5, <1>6, <1>7 DEF IInv

(* The queue hands a job to one worker.                                    *)
LEMMA PoolTake ==
  ASSUME IInv, NEW w \in WorkerIds, SelectJob(w) PROVE IInv'
<1>1. /\ pc[w] = "select" /\ next <= Tasks
      /\ job' = [job EXCEPT ![w] = next] /\ next' = next + 1
      /\ pc' = [pc EXCEPT ![w] = "taken"]
      /\ UNCHANGED <<workers, faulty, interrupted, poolCanceled, begun, reports,
                     completed, panicValues, panicked, caller, turn>>
  BY DEF SelectJob, Go, CallerUnchanged
<1>2. next \in 1..Tasks /\ next' \in 1..(Tasks + 1)
  BY <1>1, PoolAssumption DEF IInv, TypeOK
<1>3. TypeOK'
  BY <1>1, <1>2 DEF IInv, TypeOK
<1>4. caller = "waiting"
  BY <1>1 DEF IInv, NobodyLeft
<1>5. begun[next] = 0
  BY <1>2, <1>4 DEF IInv, BegunInv, TaskIds
<1>6. \A v \in WorkerIds :
        /\ v # w => job'[v] = job[v] /\ pc'[v] = pc[v]
        /\ job'[w] = next /\ pc'[w] = "taken"
  BY <1>1 DEF IInv, TypeOK
<1>7. JobInv'
  <2>1. completed' \subseteq 1..(next' - 1)
    BY <1>1, <1>2 DEF IInv, JobInv
  <2>2. ASSUME NEW v \in WorkerIds, Held(v)'
        PROVE  job'[v] \in 1..(next' - 1) /\ job'[v] \notin completed'
    BY <1>1, <1>2, <1>6, <2>2 DEF IInv, JobInv, Held
  <2>3. ASSUME NEW v \in WorkerIds, NEW u \in WorkerIds, Held(v)', Held(u)',
               job'[v] = job'[u]
        PROVE  v = u
    BY <1>1, <1>2, <1>6, <2>3 DEF IInv, JobInv, Held
  <2>4. ASSUME NEW v \in WorkerIds, pc'[v] = "taken" PROVE begun'[job'[v]] = 0
    BY <1>1, <1>5, <1>6, <2>4 DEF IInv, JobInv
  <2> QED BY <2>1, <2>2, <2>3, <2>4 DEF JobInv
<1>8. BegunInv'
  <2> SUFFICES ASSUME NEW t \in TaskIds, begun[t] # 0
               PROVE  /\ t < next'
                      /\ \/ t \in completed
                         \/ t \in panicked
                         \/ \E v \in WorkerIds : pc'[v] = "building" /\ job'[v] = t
    BY <1>1, <1>4 DEF BegunInv
  <2>1. /\ t < next
        /\ \/ t \in completed
           \/ t \in panicked
           \/ \E v \in WorkerIds : pc[v] = "building" /\ job[v] = t
    BY <1>4 DEF IInv, BegunInv
  <2> QED BY <1>1, <1>2, <1>6, <2>1 DEF TaskIds
<1>9. ReportInv' /\ CancelInv' /\ BuiltOnce' /\ PanicIsPassedOn' /\ NobodyLeft'
        /\ StartInv'
  BY <1>1, <1>4
  DEF IInv, ReportInv, CancelInv, BuiltOnce, PanicIsPassedOn, NobodyLeft, StartInv
<1> QED BY <1>3, <1>7, <1>8, <1>9 DEF IInv

(* A worker begins a build, or drops the job that it took.                 *)
LEMMA PoolBegin ==
  ASSUME IInv, NEW w \in WorkerIds, Begin(w) PROVE IInv'
<1>1. /\ pc[w] = "taken"
      /\ UNCHANGED <<workers, faulty, interrupted, poolCanceled, next, job, reports,
                     completed, panicValues, panicked, caller, turn>>
  BY DEF Begin, CallerUnchanged
<1>2. \/ begun' = begun /\ pc' = [pc EXCEPT ![w] = "exited"]
      \/ /\ begun' = [begun EXCEPT ![job[w]] = @ + 1]
         /\ pc' = [pc EXCEPT ![w] = "building"]
  BY DEF Begin, Go
<1>3. /\ job[w] \in TaskIds /\ job[w] < next /\ job[w] \notin completed
      /\ begun[job[w]] = 0 /\ job[w] \in 1..(next - 1)
  BY <1>1, PoolAssumption DEF IInv, TypeOK, JobInv, Held, TaskIds
<1>4. /\ \A v \in WorkerIds : v # w => pc'[v] = pc[v]
      /\ \A t \in TaskIds : t # job[w] => begun'[t] = begun[t]
      /\ \/ begun' = begun /\ pc'[w] = "exited"
         \/ begun'[job[w]] = 1 /\ pc'[w] = "building"
  BY <1>2, <1>3 DEF IInv, TypeOK
<1>5. TypeOK'
  BY <1>1, <1>2, <1>3 DEF IInv, TypeOK
<1>6. caller = "waiting"
  BY <1>1 DEF IInv, NobodyLeft
<1>7. JobInv'
  <2>1. \A v \in WorkerIds : Held(v)' => Held(v)
    BY <1>1, <1>4 DEF Held
  <2>2. ASSUME NEW v \in WorkerIds, pc'[v] = "taken" PROVE begun'[job'[v]] = 0
    <3>1. v # w /\ pc[v] = "taken"
      BY <1>4, <2>2
    <3>2. job[v] # job[w] /\ job[v] \in TaskIds /\ begun[job[v]] = 0
      BY <1>1, <3>1, PoolAssumption DEF IInv, TypeOK, JobInv, Held, TaskIds
    <3> QED BY <1>1, <1>4, <3>2
  <2> QED BY <1>1, <2>1, <2>2 DEF IInv, JobInv
<1>8. BegunInv'
  <2> SUFFICES ASSUME NEW t \in TaskIds, begun'[t] # 0
               PROVE  /\ t < next
                      /\ \/ t \in completed
                         \/ t \in panicked
                         \/ \E v \in WorkerIds : pc'[v] = "building" /\ job[v] = t
    BY <1>1, <1>6 DEF BegunInv
  <2>1. CASE begun[t] # 0
    <3>1. t # job[w]
      BY <1>3, <2>1
    <3> QED BY <1>1, <1>4, <1>6, <2>1, <3>1 DEF IInv, BegunInv
  <2>2. CASE begun[t] = 0
    BY <1>3, <1>4, <2>2
  <2> QED BY <2>1, <2>2
<1>9. BuiltOnce'
  BY <1>3, <1>4 DEF IInv, BuiltOnce
<1>10. ReportInv' /\ CancelInv' /\ PanicIsPassedOn' /\ NobodyLeft' /\ StartInv'
  BY <1>1, <1>6 DEF IInv, ReportInv, CancelInv, PanicIsPassedOn, NobodyLeft, StartInv
<1> QED BY <1>5, <1>7, <1>8, <1>9, <1>10 DEF IInv

(* A worker completes its build.                                           *)
LEMMA PoolComplete ==
  ASSUME IInv, NEW w \in WorkerIds, Complete(w) PROVE IInv'
<1>1. /\ pc[w] = "building"
      /\ completed' = completed \cup {job[w]}
      /\ pc' = [pc EXCEPT ![w] = "loop"]
      /\ UNCHANGED <<workers, faulty, interrupted, poolCanceled, next, job, begun,
                     panicValues, panicked, caller, turn>>
  BY DEF Complete, CompletedWith, Go, CallerUnchanged
<1>2. PICK outcome \in Outcomes(job[w]) :
        reports' = [reports EXCEPT ![job[w]] = {outcome}]
  BY DEF Complete
<1>3. outcome \in {"exact", "canceled"} /\ (~poolCanceled => outcome = "exact")
  BY Zenon DEF Outcomes
<1>4. job[w] \in TaskIds /\ job[w] \in 1..(next - 1)
  BY <1>1, PoolAssumption DEF IInv, TypeOK, JobInv, Held, TaskIds
<1>5. /\ \A v \in WorkerIds : v # w => pc'[v] = pc[v]
      /\ pc'[w] = "loop"
      /\ \A t \in TaskIds : reports'[t] = IF t = job[w] THEN {outcome} ELSE reports[t]
  BY <1>1, <1>2, <1>4 DEF IInv, TypeOK
<1>6. TypeOK'
  <2>1. reports' \in [TaskIds -> SUBSET {"exact", "canceled"}]
    BY <1>2, <1>3, <1>4 DEF IInv, TypeOK
  <2> QED BY <1>1, <1>4, <2>1 DEF IInv, TypeOK
<1>7. caller = "waiting"
  BY <1>1 DEF IInv, NobodyLeft
<1>8. JobInv'
  <2>1. \A v \in WorkerIds : Held(v)' => Held(v) /\ v # w
    BY <1>1, <1>5 DEF Held
  <2>2. \A v \in WorkerIds : Held(v)' => job[v] # job[w]
    BY <1>1, <2>1 DEF IInv, JobInv, Held
  <2>3. \A v \in WorkerIds : pc'[v] = "taken" => pc[v] = "taken"
    BY <1>5
  <2> QED BY <1>1, <1>4, <2>1, <2>2, <2>3 DEF IInv, JobInv
<1>9. BegunInv'
  BY <1>1, <1>5, <1>7 DEF IInv, BegunInv
<1>10. ReportInv'
  BY <1>1, <1>4, <1>5, <1>7 DEF IInv, TypeOK, ReportInv
<1>11. CancelInv'
  BY <1>1, <1>3, <1>5, <1>7 DEF IInv, CancelInv
<1>12. BuiltOnce' /\ PanicIsPassedOn' /\ NobodyLeft' /\ StartInv'
  BY <1>1, <1>7 DEF IInv, BuiltOnce, PanicIsPassedOn, NobodyLeft, StartInv
<1> QED BY <1>6, <1>8, <1>9, <1>10, <1>11, <1>12 DEF IInv

(* A build panics: its value is in the channel before the worker is gone.  *)
LEMMA PoolPanic ==
  ASSUME IInv, NEW w \in WorkerIds, Panic(w) PROVE IInv'
<1>1. /\ pc[w] = "building"
      /\ panicked' = panicked \cup {job[w]}
      /\ panicValues' = IF panicValues = {} THEN {job[w]} ELSE panicValues
      /\ poolCanceled' = TRUE
      /\ pc' = [pc EXCEPT ![w] = "exited"]
      /\ UNCHANGED <<workers, faulty, interrupted, next, job, begun, reports,
                     completed, caller, turn>>
  BY DEF Panic, Sent, AfterPanic, Go, CallerUnchanged
<1>2. job[w] \in TaskIds
  BY <1>1, PoolAssumption DEF IInv, TypeOK, JobInv, Held, TaskIds
<1>3. TypeOK'
  <2>1. poolCanceled' \in BOOLEAN
    BY <1>1
  <2> QED BY <1>1, <1>2, <2>1 DEF IInv, TypeOK
<1>4. \A v \in WorkerIds : /\ v # w => pc'[v] = pc[v]
                           /\ pc'[w] = "exited"
  BY <1>1 DEF IInv, TypeOK
<1>5. caller = "waiting"
  BY <1>1 DEF IInv, NobodyLeft
<1>6. JobInv'
  <2>1. \A v \in WorkerIds : /\ Held(v)' => Held(v)
                             /\ pc'[v] = "taken" => pc[v] = "taken"
    BY <1>4 DEF Held
  <2> QED BY <1>1, <2>1 DEF IInv, JobInv
<1>7. BegunInv'
  BY <1>1, <1>4, <1>5 DEF IInv, BegunInv
<1>8. CancelInv'
  BY <1>1 DEF CancelInv
<1>9. PanicIsPassedOn'
  BY <1>1, <1>5 DEF IInv, PanicIsPassedOn
<1>10. ReportInv' /\ BuiltOnce' /\ NobodyLeft' /\ StartInv'
  BY <1>1, <1>5 DEF IInv, ReportInv, BuiltOnce, NobodyLeft, StartInv
<1> QED BY <1>3, <1>6, <1>7, <1>8, <1>9, <1>10 DEF IInv

(* The caller goes on after the last worker.                               *)
LEMMA PoolWait == ASSUME IInv, Wait PROVE IInv'
<1>1. /\ caller = "waiting"
      /\ \A w \in WorkerIds : pc[w] = "exited"
      /\ caller' = IF panicValues # {} THEN "panicked" ELSE "building"
      /\ UNCHANGED <<workers, faulty, interrupted, poolCanceled, next, pc, job,
                     completed, panicValues, begun, reports, panicked, turn>>
  BY DEF Wait, Waited, WorkersUnchanged
<1>2. TypeOK'
  BY <1>1 DEF IInv, TypeOK
<1>3. turn = 1
  BY <1>1 DEF IInv, StartInv
<1>4. caller' = "building" => panicked = {}
  BY <1>1 DEF IInv, CancelInv
<1>5. JobInv' /\ BuiltOnce'
  BY <1>1 DEF IInv, JobInv, BuiltOnce, Held
<1>6. BegunInv'
  BY <1>1, <1>4 DEF IInv, BegunInv
<1>7. ReportInv'
  BY <1>1, <1>3 DEF IInv, ReportInv, TaskIds
<1>8. CancelInv' /\ PanicIsPassedOn' /\ NobodyLeft' /\ StartInv'
  BY <1>1, <1>4 DEF IInv, CancelInv, PanicIsPassedOn, NobodyLeft, StartInv
<1> QED BY <1>2, <1>5, <1>6, <1>7, <1>8 DEF IInv

(* The caller passes over what the workers completed.                      *)
LEMMA PoolSkip == ASSUME IInv, Skip PROVE IInv'
<1>1. /\ caller = "building" /\ turn <= Tasks /\ turn \in completed
      /\ turn' = turn + 1
      /\ UNCHANGED <<workers, faulty, interrupted, poolCanceled, next, pc, job,
                     completed, panicValues, begun, reports, panicked, caller>>
  BY DEF Skip, LeftToCaller, WorkersUnchanged
<1>2. turn \in 1..Tasks
  BY <1>1, PoolAssumption DEF IInv, TypeOK
<1>3. TypeOK'
  BY <1>1, <1>2, PoolAssumption DEF IInv, TypeOK
<1>4. JobInv' /\ BuiltOnce' /\ CancelInv' /\ PanicIsPassedOn' /\ NobodyLeft' /\ StartInv'
  BY <1>1 DEF IInv, JobInv, BuiltOnce, Held, CancelInv, PanicIsPassedOn, NobodyLeft,
              StartInv
<1>5. BegunInv'
  BY <1>1, <1>2 DEF IInv, BegunInv, TaskIds
<1>6. ReportInv'
  <2>1. reports[turn] # {}
    BY <1>1 DEF IInv, ReportInv
  <2>2. \A t \in TaskIds : t < turn' => t < turn \/ t = turn
    BY <1>1, <1>2 DEF TaskIds
  <2> QED BY <1>1, <2>1, <2>2 DEF IInv, ReportInv
<1> QED BY <1>3, <1>4, <1>5, <1>6 DEF IInv

(* The caller builds what they left, or panics in its turn.                *)
LEMMA PoolBuild == ASSUME IInv, Build PROVE IInv'
<1>1. /\ caller = "building" /\ turn <= Tasks /\ turn \notin completed
      /\ begun' = [begun EXCEPT ![turn] = @ + 1]
      /\ UNCHANGED <<workers, faulty, interrupted, poolCanceled, next, pc, job,
                     completed, panicValues>>
  BY DEF Build, LeftToCaller, WorkersUnchanged
<1>2. turn \in 1..Tasks /\ turn \in TaskIds
  BY <1>1, PoolAssumption DEF IInv, TypeOK, TaskIds
<1>3. begun[turn] = 0
  BY <1>1, <1>2 DEF IInv, BegunInv, TypeOK
<1>4. \A t \in TaskIds : begun'[t] = IF t = turn THEN 1 ELSE begun[t]
  BY <1>1, <1>2, <1>3 DEF IInv, TypeOK
<1>5. BuiltOnce'
  BY <1>4 DEF IInv, BuiltOnce
<1>6. \A w \in WorkerIds : pc[w] = "exited"
  BY <1>1 DEF IInv, NobodyLeft
<1>7. JobInv' /\ NobodyLeft'
  BY <1>1, <1>6 DEF IInv, JobInv, Held, NobodyLeft
<1>8. CASE /\ \E outcome \in Outcomes(turn) :
                 reports' = [reports EXCEPT ![turn] = {outcome}]
           /\ turn' = turn + 1
           /\ UNCHANGED <<panicked, caller>>
  <2>1. PICK outcome \in Outcomes(turn) :
          reports' = [reports EXCEPT ![turn] = {outcome}]
    BY <1>8
  <2>2. outcome \in {"exact", "canceled"} /\ (~poolCanceled => outcome = "exact")
    BY Zenon DEF Outcomes
  <2>3. \A t \in TaskIds : reports'[t] = IF t = turn THEN {outcome} ELSE reports[t]
    BY <1>2, <2>1 DEF IInv, TypeOK
  <2>4. TypeOK'
    <3>1. reports' \in [TaskIds -> SUBSET {"exact", "canceled"}]
      BY <1>2, <2>1, <2>2 DEF IInv, TypeOK
    <3>2. begun' \in [TaskIds -> Nat] /\ turn' \in 1..(Tasks + 1)
      BY <1>1, <1>2, <1>8, PoolAssumption DEF IInv, TypeOK
    <3> QED BY <1>1, <1>8, <3>1, <3>2 DEF IInv, TypeOK
  <2>5. BegunInv'
    BY <1>1, <1>2, <1>4, <1>8 DEF IInv, BegunInv, TaskIds
  <2>6. ReportInv'
    <3>1. \A t \in completed : reports'[t] # {}
      BY <1>1, <2>3 DEF IInv, ReportInv, TypeOK
    <3>2. \A t \in TaskIds : t < turn' => reports'[t] # {}
      BY <1>1, <1>2, <1>8, <2>3 DEF IInv, ReportInv, TaskIds
    <3> QED BY <1>1, <1>8, <3>1, <3>2 DEF ReportInv
  <2>7. CancelInv'
    BY <1>1, <1>8, <2>2, <2>3 DEF IInv, CancelInv
  <2>8. PanicIsPassedOn' /\ StartInv'
    BY <1>1, <1>8 DEF IInv, PanicIsPassedOn, StartInv
  <2> QED BY <1>5, <1>7, <2>4, <2>5, <2>6, <2>7, <2>8 DEF IInv
<1>9. CASE /\ turn \in faulty
           /\ panicked' = panicked \cup {turn}
           /\ caller' = "panicked"
           /\ UNCHANGED <<reports, turn>>
  <2>1. TypeOK'
    <3>1. begun' \in [TaskIds -> Nat]
      BY <1>1, <1>2 DEF IInv, TypeOK
    <3> QED BY <1>1, <1>2, <1>9, <3>1 DEF IInv, TypeOK
  <2>2. BegunInv' /\ StartInv' /\ CancelInv' /\ PanicIsPassedOn'
    BY <1>1, <1>9 DEF IInv, BegunInv, StartInv, CancelInv, PanicIsPassedOn
  <2>3. ReportInv'
    BY <1>1, <1>9 DEF IInv, ReportInv
  <2> QED BY <1>5, <1>7, <2>1, <2>2, <2>3 DEF IInv
<1> QED BY <1>8, <1>9 DEF Build

(* The caller has been through all the tasks.                              *)
LEMMA PoolReturn == ASSUME IInv, Return PROVE IInv'
<1>1. /\ caller = "building" /\ turn > Tasks /\ caller' = "returned"
      /\ UNCHANGED <<workers, faulty, interrupted, poolCanceled, next, pc, job,
                     completed, panicValues, begun, reports, panicked, turn>>
  BY DEF Return, WorkersUnchanged
<1>2. turn = Tasks + 1
  BY <1>1, PoolAssumption DEF IInv, TypeOK
<1>3. TypeOK'
  BY <1>1 DEF IInv, TypeOK
<1> QED
  BY <1>1, <1>2, <1>3
  DEF IInv, JobInv, BegunInv, ReportInv, CancelInv, BuiltOnce, PanicIsPassedOn,
      NobodyLeft, StartInv, Held

(* An interruption changes nothing but the flags.                          *)
LEMMA PoolInterrupt == ASSUME IInv, Interrupt PROVE IInv'
<1>1. /\ interrupted' = TRUE /\ poolCanceled' = TRUE
      /\ UNCHANGED <<workers, faulty, next, pc, job, completed, panicValues, begun,
                     reports, panicked, caller, turn>>
  BY DEF Interrupt
<1>2. TypeOK'
  <2>1. interrupted' \in BOOLEAN /\ poolCanceled' \in BOOLEAN
    BY <1>1
  <2> QED BY <1>1, <2>1 DEF IInv, TypeOK
<1>3. CancelInv'
  BY <1>1 DEF IInv, CancelInv
<1> QED
  BY <1>1, <1>2, <1>3
  DEF IInv, JobInv, BegunInv, ReportInv, BuiltOnce, PanicIsPassedOn, NobodyLeft,
      StartInv, Held

(* The inductive invariant holds in every behaviour of the pool.           *)
THEOREM PoolInvariant == PoolSpec => []IInv
<1>1. IInv /\ [PoolNext]_poolVars => IInv'
  <2> SUFFICES ASSUME IInv, [PoolNext]_poolVars PROVE IInv'
    OBVIOUS
  <2>1. CASE UNCHANGED poolVars
    BY <2>1 DEF poolVars, IInv, TypeOK, JobInv, BegunInv, ReportInv, CancelInv,
                BuiltOnce, PanicIsPassedOn, NobodyLeft, StartInv, Held
  <2>2. ASSUME NEW w \in WorkerIds, WorkerStep(w) PROVE IInv'
    BY <2>2, PoolMove, PoolTake, PoolBegin, PoolComplete, PoolPanic DEF WorkerStep
  <2>3. CASE CallerStep
    BY <2>3, PoolWait, PoolSkip, PoolBuild, PoolReturn DEF CallerStep
  <2>4. CASE Interrupt
    BY <2>4, PoolInterrupt
  <2> QED BY <2>1, <2>2, <2>3, <2>4 DEF PoolNext
<1> QED BY <1>1, PoolStarts, PTL DEF PoolSpec

(* However many tasks, workers, panics and cancellations: no task's build  *)
(* is begun a second time.                                                 *)
THEOREM PoolBuildsOnce == PoolSpec => []BuiltOnce
<1>1. IInv => BuiltOnce
  BY DEF IInv
<1> QED BY <1>1, PoolInvariant, PTL

(* A pool that returns has a report of every task, also of those that a    *)
(* worker took from the queue and dropped.                                 *)
THEOREM PoolReportsAll == PoolSpec => []EveryTaskReported
<1>1. IInv => EveryTaskReported
  BY PoolAssumption DEF IInv, ReportInv, EveryTaskReported, TaskIds
<1> QED BY <1>1, PoolInvariant, PTL

(* A pool in which a build panicked panics, with the value of such a build.*)
THEOREM PoolPassesPanicOn == PoolSpec => []PanicIsPassedOn
<1>1. IInv => PanicIsPassedOn
  BY DEF IInv
<1> QED BY <1>1, PoolInvariant, PTL

(* The caller is never ahead of a goroutine that could still write.        *)
THEOREM PoolLeavesNobody == PoolSpec => []NobodyLeft
<1>1. IInv => NobodyLeft
  BY DEF IInv
<1> QED BY <1>1, PoolInvariant, PTL

(* Without an interruption from outside every report returned is exact: the*)
(* cancellation that a panic causes inside the pool is never seen.         *)
THEOREM PoolExact == PoolSpec => []ExactUnlessInterrupted
<1>1. IInv => ExactUnlessInterrupted
  <2> SUFFICES ASSUME IInv, caller = "returned", ~interrupted, NEW t \in TaskIds
               PROVE  reports[t] = {"exact"}
    BY DEF ExactUnlessInterrupted
  <2>1. ~poolCanceled
    BY DEF IInv, CancelInv, PanicIsPassedOn
  <2>2. reports[t] \subseteq {"exact"}
    BY <2>1 DEF IInv, CancelInv
  <2>3. reports[t] # {}
    BY PoolAssumption DEF IInv, ReportInv, TaskIds
  <2> QED BY <2>2, <2>3
<1> QED BY <1>1, PoolInvariant, PTL
=============================================================================
