---------------------------- MODULE OfflineProofs ----------------------------
(***************************************************************************)
(* The union of executions, for any plan, any executions and any number of *)
(* them: it knows what the best informed of them knows, and no order of    *)
(* theirs changes it.                                                      *)
(***************************************************************************)
EXTENDS Offline, FoldTheorems

(***************************************************************************)
(* A step joins if, folded over values, it gives what H says of their set: *)
(* it is then the same for every order.                                    *)
(***************************************************************************)
Joins(V, step, H) ==
  /\ step \in [V \X V -> V] /\ H \in [SUBSET V -> V]
  /\ \A v \in V : H[{v}] = v
  /\ \A X \in SUBSET V, v \in V : X # {} => step[<<H[X], v>>] = H[X \cup {v}]

Values(vals, m) == {vals[i] : i \in 1..m}

CanFoldJoin(V, step, H, n, seq, base, f) ==
  /\ Joins(V, step, H)
  /\ n \in Nat /\ seq \in [1..n -> V] /\ base \in V
  /\ Continues(V, step, base, n, seq, f)

(* A fold of a joining step gives the join of what was folded.             *)
LEMMA FoldJoins ==
  ASSUME NEW V, NEW step, NEW H, NEW n, NEW seq, NEW base, NEW f,
         CanFoldJoin(V, step, H, n, seq, base, f)
  PROVE  f[1..n] = H[{base} \cup Values(seq, n)]
<1> USE DEF CanFoldJoin
<1>1. Iterates(V, step, base, n, seq, f)
  <2>1. CanFold(V, V, step, base, n, seq)
    BY DEF Joins, CanFold
  <2> QED BY <2>1, SetFoldIterates
<1> DEFINE P(m) == m <= n => f[1..m] = H[{base} \cup {seq[i] : i \in 1..m}]
           T == {m \in Nat : P(m)}
<1>2. P(0)
  <2>1. {base} \cup {seq[i] : i \in 1..0} = {base}
    OBVIOUS
  <2> QED BY <1>1, <2>1 DEF Joins, Iterates
<1>3. ASSUME NEW m \in Nat, P(m)
      PROVE  P(m + 1)
  <2>1. SUFFICES ASSUME m + 1 <= n
                 PROVE  f[1..(m + 1)] = H[{base} \cup {seq[i] : i \in 1..(m + 1)}]
    OBVIOUS
  <2> DEFINE X == {base} \cup {seq[i] : i \in 1..m}
  <2>2. X \in SUBSET V /\ X # {} /\ seq[m + 1] \in V
    BY <2>1
  <2>3. f[1..m] = H[X]
    BY <1>3, <2>1
  <2>4. f[1..(m + 1)] = step[<<f[1..m], seq[m + 1]>>]
    <3>1. m + 1 \in 1..n /\ (m + 1) - 1 = m
      BY <2>1
    <3> QED BY <1>1, <3>1 DEF Iterates
  <2>5. {base} \cup {seq[i] : i \in 1..(m + 1)} = X \cup {seq[m + 1]}
    <3>1. 1..(m + 1) = (1..m) \cup {m + 1}
      BY <2>1
    <3> QED BY <3>1
  <2> HIDE DEF X
  <2> QED BY <2>2, <2>3, <2>4, <2>5 DEF Joins
<1>4. T \in SUBSET Nat /\ 0 \in T /\ \A m \in T : m + 1 \in T
  <2> HIDE DEF P
  <2> QED BY <1>2, <1>3
<1>5. T = Nat
  <2> HIDE DEF T
  <2> QED BY <1>4, SetInduction
<1> QED BY <1>5 DEF Values

(***************************************************************************)
(* Values to be joined, the first of them the start; and a function on     *)
(* sets of the others that takes the step wherever it has a value.         *)
(***************************************************************************)
CanJoin(V, step, H, m, vals) ==
  Joins(V, step, H) /\ m \in Nat /\ m >= 1 /\ vals \in [1..m -> V]

JoinsAlong(V, step, m, vals, f) ==
  /\ f[{}] = vals[1]
  /\ \A s \in SUBSET (1..(m - 1)) :
       s # {} /\ f[s \ {Max(s)}] \in V
         => f[s] = step[<<f[s \ {Max(s)}], vals[Max(s) + 1]>>]

JoinFunction(V, step, m, vals, f) ==
  /\ f \in [SUBSET (1..(m - 1)) -> V]
  /\ \A s \in SUBSET (1..(m - 1)) :
       f[s] = IF s = {} THEN vals[1] ELSE step[<<f[s \ {Max(s)}], vals[Max(s) + 1]>>]

(* There is such a function.                                               *)
LEMMA JoinExists ==
  ASSUME NEW V, NEW step, NEW H, NEW m, NEW vals, CanJoin(V, step, H, m, vals)
  PROVE  \E f : JoinFunction(V, step, m, vals, f)
<1> DEFINE seq == [i \in 1..(m - 1) |-> vals[i + 1]]
<1>1. CanFold(V, V, step, vals[1], m - 1, seq)
  BY DEF CanFold, CanJoin, Joins
<1>2. m \in Nat /\ m - 1 \in Nat /\ \A i \in 1..(m - 1) : seq[i] = vals[i + 1]
  BY DEF CanJoin
<1> HIDE DEF seq
<1>3. PICK f : SetFold(V, step, vals[1], m - 1, seq, f)
  BY <1>1, SetFoldExists
<1>4. ASSUME NEW s \in SUBSET (1..(m - 1))
      PROVE  f[s] = IF s = {} THEN vals[1]
                    ELSE step[<<f[s \ {Max(s)}], vals[Max(s) + 1]>>]
  <2>1. s # {} => Max(s) \in 1..(m - 1)
    BY <1>2, LastIsIn
  <2> QED BY <1>2, <1>3, <2>1 DEF SetFold
<1> QED BY <1>3, <1>4 DEF SetFold, JoinFunction

(* Each such function comes to the join of all values.                     *)
LEMMA JoinIs ==
  ASSUME NEW V, NEW step, NEW H, NEW m, NEW vals, NEW f,
         CanJoin(V, step, H, m, vals), JoinsAlong(V, step, m, vals, f)
  PROVE  f[1..(m - 1)] = H[Values(vals, m)]
<1> DEFINE seq == [i \in 1..(m - 1) |-> vals[i + 1]]
<1>1. /\ m \in Nat /\ m >= 1 /\ m - 1 \in Nat /\ \A i \in 1..(m - 1) : seq[i] = vals[i + 1]
      /\ seq \in [1..(m - 1) -> V] /\ vals[1] \in V
  BY DEF CanJoin
<1> HIDE DEF seq
<1>2. Continues(V, step, vals[1], m - 1, seq, f)
  <2>1. \A s \in SUBSET (1..(m - 1)) : s # {} => Max(s) \in 1..(m - 1)
    BY <1>1, LastIsIn
  <2> QED BY <1>1, <2>1 DEF Continues, JoinsAlong
<1>3. CanFoldJoin(V, step, H, m - 1, seq, vals[1], f)
  BY <1>1, <1>2 DEF CanFoldJoin, CanJoin
<1>4. f[1..(m - 1)] = H[{vals[1]} \cup Values(seq, m - 1)]
  BY <1>3, FoldJoins
<1>5. {vals[1]} \cup {seq[i] : i \in 1..(m - 1)} = {vals[i] : i \in 1..m}
  <2>1. ASSUME NEW i \in 1..m
        PROVE  vals[i] \in {vals[1]} \cup {seq[j] : j \in 1..(m - 1)}
    <3>1. i = 1 \/ (i - 1 \in 1..(m - 1) /\ (i - 1) + 1 = i)
      BY <1>1
    <3> QED BY <1>1, <3>1
  <2>2. \A i \in 1..(m - 1) : seq[i] \in {vals[j] : j \in 1..m}
    BY <1>1
  <2>3. vals[1] \in {vals[j] : j \in 1..m}
    BY <1>1
  <2> QED BY <2>1, <2>2, <2>3
<1> QED BY <1>4, <1>5 DEF Values

(* The executions after the first.                                         *)
LEMMA TailIs ==
  ASSUME NEW S, NEW rs \in Seq(S), Len(rs) >= 1
  PROVE  /\ Len(Tail(rs)) \in Nat /\ DOMAIN Tail(rs) = 1..Len(Tail(rs))
         /\ DOMAIN rs = 1..(Len(Tail(rs)) + 1)
         /\ \A i \in 1..Len(Tail(rs)) : Tail(rs)[i] = rs[i + 1]
<1>1. Len(rs) \in Nat /\ Len(Tail(rs)) = Len(rs) - 1 /\ DOMAIN rs = 1..Len(rs)
      /\ DOMAIN Tail(rs) = 1..(Len(rs) - 1)
  OBVIOUS
<1>2. \A i \in 1..(Len(rs) - 1) : Tail(rs)[i] = rs[i + 1]
  BY <1>1
<1> QED BY <1>1, <1>2
-----------------------------------------------------------------------------
(* The folds of analyzeRuns, each as the join of its values.               *)
Amounts == {Known(1, 1), Known(0, 1), UnsupportedUnits(1), UnknownUnits(1)}

Highest(X) ==
  IF Known(1, 1) \in X THEN Known(1, 1)
  ELSE IF Known(0, 1) \in X THEN Known(0, 1)
  ELSE IF UnsupportedUnits(1) \in X THEN UnsupportedUnits(1) ELSE UnknownUnits(1)

(* unionObligation keeps the higher of two amounts.                        *)
LEMMA ObligationsJoin ==
  Joins(Amounts, [p \in Amounts \X Amounts |-> UnionObligation(p[1], p[2])],
        [X \in SUBSET Amounts |-> Highest(X)])
<1> DEFINE a == Known(1, 1)
           b == Known(0, 1)
           c == UnsupportedUnits(1)
           d == UnknownUnits(1)
<1>1. /\ a.covered = 1 /\ a.total = 1 /\ a.unsupported = 0 /\ a.unknown = 0
      /\ b.covered = 0 /\ b.total = 1 /\ b.unsupported = 0 /\ b.unknown = 0
      /\ c.covered = 0 /\ c.total = 0 /\ c.unsupported = 1 /\ c.unknown = 0
      /\ d.covered = 0 /\ d.total = 0 /\ d.unsupported = 0 /\ d.unknown = 1
  BY DEF Known, UnsupportedUnits, UnknownUnits, Nothing
<1>2. a # b /\ a # c /\ a # d /\ b # c /\ b # d /\ c # d
  BY <1>1
<1>3. Amounts = {a, b, c, d}
  BY DEF Amounts
<1>4. \A X : Highest(X) = IF a \in X THEN a ELSE IF b \in X THEN b
                          ELSE IF c \in X THEN c ELSE d
  BY DEF Highest
<1> HIDE DEF a, b, c, d
<1>5. \A x, y \in Amounts : UnionObligation(x, y) = Highest({x, y})
  BY <1>1, <1>2, <1>3, <1>4 DEF UnionObligation
<1>6. \A X : Highest(X) \in Amounts
  BY <1>3, <1>4
<1>7. ASSUME NEW X \in SUBSET Amounts, NEW v \in Amounts, X # {}
      PROVE  UnionObligation(Highest(X), v) = Highest(X \cup {v})
  BY <1>2, <1>3, <1>4, <1>5, <1>6, <1>7
<1>8. \A v \in Amounts : Highest({v}) = v
  BY <1>2, <1>3, <1>4
<1> DEFINE step == [p \in Amounts \X Amounts |-> UnionObligation(p[1], p[2])]
           H == [X \in SUBSET Amounts |-> Highest(X)]
<1>9. /\ \A x, y \in Amounts : step[<<x, y>>] = UnionObligation(x, y)
      /\ \A X \in SUBSET Amounts : H[X] = Highest(X)
  OBVIOUS
<1>10. step \in [Amounts \X Amounts -> Amounts]
  <2>1. \A x, y \in Amounts : UnionObligation(x, y) \in Amounts
    BY <1>5, <1>6
  <2>2. \A p \in Amounts \X Amounts : UnionObligation(p[1], p[2]) \in Amounts
    BY <2>1
  <2> QED BY <2>2
<1>11. H \in [SUBSET Amounts -> Amounts]
  BY <1>6
<1>12. ASSUME NEW X \in SUBSET Amounts, NEW v \in Amounts, X # {}
       PROVE  step[<<H[X], v>>] = H[X \cup {v}]
  BY <1>6, <1>7, <1>9, <1>12
<1>13. \A v \in Amounts : H[{v}] = v
  BY <1>8, <1>9
<1>14. Joins(Amounts, step, H)
  <2> HIDE DEF step, H
  <2> QED BY <1>10, <1>11, <1>12, <1>13 DEF Joins
<1> QED BY <1>14

(* A step that keeps the one of higher rank, where ranks differ.           *)
Ranked(V, n, rank, step) ==
  /\ n \in Nat /\ V # {} /\ rank \in [V -> 1..n]
  /\ \A v, w \in V : rank[v] = rank[w] => v = w
  /\ step \in [V \X V -> V]
  /\ \A v, w \in V : step[<<v, w>>] = IF rank[w] > rank[v] THEN w ELSE v

(* Such a step joins.                                                      *)
LEMMA RanksJoin ==
  ASSUME NEW V, NEW n, NEW rank, NEW step, Ranked(V, n, rank, step)
  PROVE  \E H : Joins(V, step, H)
<1> USE DEF Ranked
<1>0. PICK none \in V : TRUE
  OBVIOUS
<1> DEFINE Tops(X) == {v \in X : \A w \in X : rank[w] <= rank[v]}
           H == [X \in SUBSET V |-> IF X = {} THEN none ELSE CHOOSE v \in Tops(X) : TRUE]
<1>1. ASSUME NEW X \in SUBSET V, X # {}
      PROVE  /\ H[X] \in X
             /\ \A w \in X : rank[w] <= rank[H[X]]
  <2> DEFINE R == {rank[v] : v \in X}
  <2>1. R \in SUBSET (1..n) /\ R # {}
    BY <1>1
  <2>2. Max(R) \in R /\ \A y \in R : Max(R) >= y
    <3> HIDE DEF R
    <3>1. n \in Nat /\ R \subseteq Int
      BY <2>1
    <3> QED BY <2>1, <3>1, LastIsIn
  <2>3. \E v \in X : rank[v] = Max(R)
    BY <2>2
  <2>4. Tops(X) # {}
    BY <2>2, <2>3
  <2>5. H[X] = CHOOSE v \in Tops(X) : TRUE
    BY <1>1
  <2>6. H[X] \in Tops(X)
    <3> HIDE DEF Tops, H
    <3> QED BY <2>4, <2>5
  <2> QED BY <2>6
<1>2. H \in [SUBSET V -> V]
  <2>1. \A X \in SUBSET V : H[X] \in V
    <3>1. H[{}] = none
      OBVIOUS
    <3> HIDE DEF H
    <3> QED BY <1>1, <3>1
  <2> QED BY <2>1
<1> HIDE DEF H
<1>3. \A v \in V : H[{v}] = v
  BY <1>1
<1>4. ASSUME NEW X \in SUBSET V, NEW v \in V, X # {}
      PROVE  step[<<H[X], v>>] = H[X \cup {v}]
  <2> DEFINE a == H[X]
             b == H[X \cup {v}]
  <2>1. /\ a \in X /\ a \in V /\ \A w \in X : rank[w] <= rank[a]
        /\ b \in X \cup {v} /\ b \in V /\ \A w \in X \cup {v} : rank[w] <= rank[b]
    <3>1. X \cup {v} \in SUBSET V /\ X \cup {v} # {}
      OBVIOUS
    <3>2. /\ a \in X /\ \A w \in X : rank[w] <= rank[a]
          /\ b \in X \cup {v} /\ \A w \in X \cup {v} : rank[w] <= rank[b]
      BY <1>1, <1>4, <3>1
    <3> QED BY <3>2
  <2> HIDE DEF a, b, Tops, Ranked
  <2>2. rank[a] \in Int /\ rank[b] \in Int /\ rank[v] \in Int
    BY <2>1 DEF Ranked
  <2>3. rank[a] <= rank[b] /\ rank[v] <= rank[b] /\ (b # v => rank[b] <= rank[a])
    BY <2>1
  <2>4. step[<<a, v>>] = IF rank[v] > rank[a] THEN v ELSE a
    BY <2>1 DEF Ranked
  <2>5. b = IF rank[v] > rank[a] THEN v ELSE a
    <3>1. CASE rank[v] > rank[a]
      <4>1. b = v
        BY <2>2, <2>3, <3>1
      <4> QED BY <3>1, <4>1
    <3>2. CASE ~(rank[v] > rank[a])
      <4>1. b \in X => rank[b] = rank[a]
        BY <2>1, <2>2, <2>3
      <4>2. b = v => rank[b] = rank[a]
        BY <2>2, <2>3, <3>2
      <4>3. b = a
        BY <2>1, <4>1, <4>2 DEF Ranked
      <4> QED BY <3>2, <4>3
    <3> QED BY <3>1, <3>2
  <2>7. step[<<a, v>>] = b
    BY <2>4, <2>5
  <2> QED BY <2>7 DEF a, b
<1>5. Joins(V, step, H)
  BY <1>2, <1>3, <1>4 DEF Joins
<1> QED BY <1>5

RunStatuses == {"passed", "failed", "timeout"}
Results == {"not-requested", "passed", "not-run", "failed", "timeout"}
PackageStatuses == {"skipped", "passed", "started", "failed", "build-failed", "timeout"}

(* combinedRunStatus keeps the worse of two statuses.                      *)
LEMMA StatusesJoin ==
  \E H : Joins(RunStatuses,
               [p \in RunStatuses \X RunStatuses |-> CombinedRunStatus(p[1], p[2])], H)
<1> DEFINE V == RunStatuses
           rank == [v \in V |-> CASE v = "passed" -> 1 [] v = "failed" -> 2 [] v = "timeout" -> 3]
           step == [p \in V \X V |-> CombinedRunStatus(p[1], p[2])]
<1>1. rank \in [V -> 1..3] /\ \A v, w \in V : rank[v] = rank[w] => v = w
  BY DEF RunStatuses
<1>2. \A v, w \in V : CombinedRunStatus(v, w) = IF rank[w] > rank[v] THEN w ELSE v
  <2>1. rank["passed"] = 1 /\ rank["failed"] = 2 /\ rank["timeout"] = 3
    BY DEF RunStatuses
  <2> HIDE DEF rank
  <2>2. ASSUME NEW v \in V, NEW w \in V
        PROVE  CombinedRunStatus(v, w)
                 = IF v = "timeout" \/ w = "timeout" THEN "timeout"
                   ELSE IF v = "failed" \/ w = "failed" THEN "failed" ELSE "passed"
    BY DEF CombinedRunStatus
  <2> QED BY <2>1, <2>2 DEF RunStatuses
<1> HIDE DEF rank
<1>3. step \in [V \X V -> V]
  BY <1>2
<1>4. \A v, w \in V : step[<<v, w>>] = IF rank[w] > rank[v] THEN w ELSE v
  BY <1>2
<1>5. Ranked(V, 3, rank, step)
  <2> HIDE DEF step
  <2> QED BY <1>1, <1>3, <1>4 DEF Ranked, RunStatuses
<1>6. \E H : Joins(V, step, H)
  <2> HIDE DEF V, step
  <2> QED BY <1>5, RanksJoin
<1> QED BY <1>6

(* combinedResult keeps the worse of two results.                          *)
LEMMA ResultsJoin ==
  \E H : Joins(Results, [p \in Results \X Results |-> CombinedResult(p[1], p[2])], H)
<1> DEFINE V == Results
           rank == [v \in V |-> ResultRank(v) + 1]
           step == [p \in V \X V |-> CombinedResult(p[1], p[2])]
<1>1. rank \in [V -> 1..5] /\ \A v, w \in V : rank[v] = rank[w] => v = w
  BY DEF Results, ResultRank
<1>2. \A v, w \in V : CombinedResult(v, w) = IF rank[w] > rank[v] THEN w ELSE v
  BY DEF Results, ResultRank, CombinedResult
<1> HIDE DEF rank
<1>3. step \in [V \X V -> V]
  BY <1>2
<1>4. \A v, w \in V : step[<<v, w>>] = IF rank[w] > rank[v] THEN w ELSE v
  BY <1>2
<1>5. Ranked(V, 5, rank, step)
  <2> HIDE DEF step
  <2> QED BY <1>1, <1>3, <1>4 DEF Ranked, Results
<1>6. \E H : Joins(V, step, H)
  <2> HIDE DEF V, step
  <2> QED BY <1>5, RanksJoin
<1> QED BY <1>6

(* combinedPackageStatus keeps the worse of two statuses.                  *)
LEMMA PackagesJoin ==
  \E H : Joins(PackageStatuses,
               [p \in PackageStatuses \X PackageStatuses |-> CombinedPackageStatus(p[1], p[2])],
               H)
<1> DEFINE V == PackageStatuses
           rank == [v \in V |-> PackageRank(v) + 1]
           step == [p \in V \X V |-> CombinedPackageStatus(p[1], p[2])]
<1>1. rank \in [V -> 1..6] /\ \A v, w \in V : rank[v] = rank[w] => v = w
  BY DEF PackageStatuses, PackageRank
<1>2. \A v, w \in V : CombinedPackageStatus(v, w) = IF rank[w] > rank[v] THEN w ELSE v
  BY DEF PackageStatuses, PackageRank, CombinedPackageStatus
<1> HIDE DEF rank
<1>3. step \in [V \X V -> V]
  BY <1>2
<1>4. \A v, w \in V : step[<<v, w>>] = IF rank[w] > rank[v] THEN w ELSE v
  BY <1>2
<1>5. Ranked(V, 6, rank, step)
  <2> HIDE DEF step
  <2> QED BY <1>1, <1>3, <1>4 DEF Ranked, PackageStatuses
<1>6. \E H : Joins(V, step, H)
  <2> HIDE DEF V, step
  <2> QED BY <1>5, RanksJoin
<1> QED BY <1>6

(* The kind of failure of several runs: the only one there is, or mixed.   *)
OnlyFailure(X) ==
  LET Y == X \ {"none"}
  IN  IF Y = {} THEN "none" ELSE IF \E x \in Y : Y = {x} THEN CHOOSE x \in Y : TRUE ELSE "mixed"

(* analyzeRuns keeps the only kind of failure, or says that it is mixed.   *)
LEMMA FailuresJoin ==
  ASSUME NEW V, "none" \in V, "mixed" \in V
  PROVE  Joins(V, [p \in V \X V |-> CombinedFailure(p[1], p[2])],
               [X \in SUBSET V |-> OnlyFailure(X)])
<1> DEFINE step == [p \in V \X V |-> CombinedFailure(p[1], p[2])]
           H == [X \in SUBSET V |-> OnlyFailure(X)]
<1>1. ASSUME NEW a \in V, NEW b \in V
      PROVE  CombinedFailure(a, b) = IF a = "none" THEN b
                                     ELSE IF b = "none" \/ b = a THEN a ELSE "mixed"
  BY DEF CombinedFailure
<1>2. ASSUME NEW X
      PROVE  /\ X \subseteq {"none"} => OnlyFailure(X) = "none"
             /\ \A x \in X : x # "none" /\ X \subseteq {x, "none"} => OnlyFailure(X) = x
             /\ \A x, y \in X \ {"none"} : x # y => OnlyFailure(X) = "mixed"
  <2>1. X \subseteq {"none"} => OnlyFailure(X) = "none"
    BY DEF OnlyFailure
  <2>2. ASSUME NEW x \in X, x # "none", X \subseteq {x, "none"} PROVE OnlyFailure(X) = x
    <3>1. X \ {"none"} = {x}
      BY <2>2
    <3> QED BY <3>1 DEF OnlyFailure
  <2>3. ASSUME NEW x \in X \ {"none"}, NEW y \in X \ {"none"}, x # y
        PROVE  OnlyFailure(X) = "mixed"
    BY <2>3 DEF OnlyFailure
  <2> QED BY <2>1, <2>2, <2>3
<1>3. ASSUME NEW X
      PROVE  \/ X \subseteq {"none"}
             \/ \E x \in X : x # "none" /\ X \subseteq {x, "none"}
             \/ \E x, y \in X \ {"none"} : x # y
  OBVIOUS
<1>4. \A X \in SUBSET V : OnlyFailure(X) \in V
  BY <1>2, <1>3
<1>5. \A v \in V : OnlyFailure({v}) = v
  BY <1>2
<1>6. ASSUME NEW X \in SUBSET V, NEW v \in V, X # {}
      PROVE  CombinedFailure(OnlyFailure(X), v) = OnlyFailure(X \cup {v})
  <2>1. CASE X \subseteq {"none"}
    <3>1. OnlyFailure(X) = "none"
      BY <1>2, <2>1
    <3>2. OnlyFailure(X \cup {v}) = v
      <4>1. CASE v = "none"
        <5>1. X \cup {v} \subseteq {"none"}
          BY <2>1, <4>1
        <5> QED BY <1>2, <4>1, <5>1
      <4>2. CASE v # "none"
        <5>1. X \cup {v} \subseteq {v, "none"} /\ v \in X \cup {v}
          BY <2>1
        <5> QED BY <1>2, <4>2, <5>1
      <4> QED BY <4>1, <4>2
    <3> QED BY <1>1, <3>1, <3>2
  <2>2. ASSUME NEW x \in X, x # "none", X \subseteq {x, "none"}
        PROVE  CombinedFailure(OnlyFailure(X), v) = OnlyFailure(X \cup {v})
    <3>1. OnlyFailure(X) = x
      BY <1>2, <2>2
    <3>2. CASE v \in {x, "none"}
      <4>1. OnlyFailure(X \cup {v}) = x
        BY <1>2, <2>2, <3>2
      <4> QED BY <1>1, <2>2, <3>1, <3>2, <4>1
    <3>3. CASE v \notin {x, "none"}
      <4>1. OnlyFailure(X \cup {v}) = "mixed"
        BY <1>2, <2>2, <3>3
      <4> QED BY <1>1, <2>2, <3>1, <3>3, <4>1
    <3> QED BY <3>2, <3>3
  <2>3. ASSUME NEW x \in X \ {"none"}, NEW y \in X \ {"none"}, x # y
        PROVE  CombinedFailure(OnlyFailure(X), v) = OnlyFailure(X \cup {v})
    <3>1. OnlyFailure(X) = "mixed" /\ OnlyFailure(X \cup {v}) = "mixed"
      BY <1>2, <2>3
    <3> QED BY <1>1, <3>1
  <2> QED BY <1>3, <2>1, <2>2, <2>3
<1>7. step \in [V \X V -> V]
  BY <1>1
<1>8. H \in [SUBSET V -> V]
  BY <1>4
<1>9. ASSUME NEW X \in SUBSET V, NEW v \in V, X # {}
      PROVE  step[<<H[X], v>>] = H[X \cup {v}]
  BY <1>4, <1>6, <1>9
<1>10. \A v \in V : H[{v}] = v
  BY <1>5
<1>11. Joins(V, step, H)
  <2> HIDE DEF step, H
  <2> QED BY <1>7, <1>8, <1>9, <1>10 DEF Joins
<1> QED BY <1>11

JoinedStatus(rs) ==
  FoldLeft(LAMBDA acc, run : CombinedRunStatus(acc, run.status), rs[1].status, Tail(rs))

StatusesIn(rs) == {rs[i].status : i \in DOMAIN rs}

(* The status of several runs is the join of their statuses.               *)
LEMMA StatusFold ==
  ASSUME NEW S, NEW rs \in Seq(S), Len(rs) >= 1, NEW V, NEW H,
         \A i \in DOMAIN rs : rs[i].status \in V,
         Joins(V, [q \in V \X V |-> CombinedRunStatus(q[1], q[2])], H)
  PROVE  JoinedStatus(rs) = H[StatusesIn(rs)]
<1> DEFINE t == Tail(rs)
           m == Len(rs)
           vals == [i \in 1..m |-> rs[i].status]
           step == [q \in V \X V |-> CombinedRunStatus(q[1], q[2])]
           Folds(f) == f = [s \in SUBSET (DOMAIN t) |->
                              IF s = {} THEN rs[1].status
                              ELSE CombinedRunStatus(f[s \ {Max(s)}], t[Max(s)].status)]
           g == CHOOSE f : Folds(f)
<1>1. FoldLeft(LAMBDA acc, run : CombinedRunStatus(acc, run.status), rs[1].status, t) = g[DOMAIN t]
  BY Zenon DEF FoldLeft, MapThenFoldSet
<1>2. /\ m \in Nat /\ DOMAIN rs = 1..m /\ DOMAIN t = 1..(m - 1)
      /\ vals[1] = rs[1].status
      /\ \A i \in 1..(m - 1) : t[i].status = vals[i + 1]
      /\ m - 1 \in Nat /\ {rs[i].status : i \in DOMAIN rs} = Values(vals, m)
  BY TailIs DEF Values
<1>3. /\ \A a, b \in V : step[<<a, b>>] = CombinedRunStatus(a, b)
      /\ vals \in [1..m -> V]
  BY <1>2
<1>4. CanJoin(V, step, H, m, vals)
  BY <1>2, <1>3 DEF CanJoin
<1> HIDE DEF t, m, vals, step
<1>5. \A s \in SUBSET (1..(m - 1)) : s # {} => t[Max(s)].status = vals[Max(s) + 1]
                                              /\ vals[Max(s) + 1] \in V
  <2>1. \A s \in SUBSET (1..(m - 1)) : s # {} => Max(s) \in 1..(m - 1)
    BY <1>2, LastIsIn
  <2>2. \A i \in 1..(m - 1) : i + 1 \in 1..m
    BY <1>2
  <2>3. \A i \in 1..(m - 1) : vals[i + 1] \in V
    BY <1>3, <2>2
  <2> QED BY <1>2, <2>1, <2>3
<1>6. PICK h : JoinFunction(V, step, m, vals, h)
  BY <1>4, JoinExists
<1>7. Folds(h)
  <2>1. ASSUME NEW s \in SUBSET (1..(m - 1))
        PROVE  h[s] = IF s = {} THEN rs[1].status
                      ELSE CombinedRunStatus(h[s \ {Max(s)}], t[Max(s)].status)
    BY <1>2, <1>3, <1>5, <1>6 DEF JoinFunction
  <2> QED BY <1>2, <1>6, <2>1 DEF JoinFunction
<1>8. Folds(g)
  <2> HIDE DEF Folds
  <2> QED BY <1>7
<1> HIDE DEF g
<1>9. \A s \in SUBSET (1..(m - 1)) :
        g[s] = IF s = {} THEN rs[1].status ELSE CombinedRunStatus(g[s \ {Max(s)}], t[Max(s)].status)
  BY <1>2, <1>8
<1>10. JoinsAlong(V, step, m, vals, g)
  <2>1. g[{}] = vals[1]
    BY <1>2, <1>9
  <2> QED BY <1>3, <1>5, <1>9, <2>1 DEF JoinsAlong
<1>11. g[1..(m - 1)] = H[Values(vals, m)]
  BY <1>4, <1>10, JoinIs
<1> QED BY <1>1, <1>2, <1>11 DEF t, JoinedStatus, StatusesIn

JoinedFailure(rs) ==
  FoldLeft(LAMBDA acc, run : CombinedFailure(acc, run.failure), rs[1].failure, Tail(rs))

FailuresIn(rs) == {rs[i].failure : i \in DOMAIN rs}

(* The failure of several runs is the join of their failures.              *)
LEMMA FailureFold ==
  ASSUME NEW S, NEW rs \in Seq(S), Len(rs) >= 1, NEW V, NEW H,
         \A i \in DOMAIN rs : rs[i].failure \in V,
         Joins(V, [q \in V \X V |-> CombinedFailure(q[1], q[2])], H)
  PROVE  JoinedFailure(rs) = H[FailuresIn(rs)]
<1> DEFINE t == Tail(rs)
           m == Len(rs)
           vals == [i \in 1..m |-> rs[i].failure]
           step == [q \in V \X V |-> CombinedFailure(q[1], q[2])]
           Folds(f) == f = [s \in SUBSET (DOMAIN t) |->
                              IF s = {} THEN rs[1].failure
                              ELSE CombinedFailure(f[s \ {Max(s)}], t[Max(s)].failure)]
           g == CHOOSE f : Folds(f)
<1>1. FoldLeft(LAMBDA acc, run : CombinedFailure(acc, run.failure), rs[1].failure, t) = g[DOMAIN t]
  BY Zenon DEF FoldLeft, MapThenFoldSet
<1>2. /\ m \in Nat /\ DOMAIN rs = 1..m /\ DOMAIN t = 1..(m - 1)
      /\ vals[1] = rs[1].failure
      /\ \A i \in 1..(m - 1) : t[i].failure = vals[i + 1]
      /\ m - 1 \in Nat /\ {rs[i].failure : i \in DOMAIN rs} = Values(vals, m)
  BY TailIs DEF Values
<1>3. /\ \A a, b \in V : step[<<a, b>>] = CombinedFailure(a, b)
      /\ vals \in [1..m -> V]
  BY <1>2
<1>4. CanJoin(V, step, H, m, vals)
  BY <1>2, <1>3 DEF CanJoin
<1> HIDE DEF t, m, vals, step
<1>5. \A s \in SUBSET (1..(m - 1)) : s # {} => t[Max(s)].failure = vals[Max(s) + 1]
                                              /\ vals[Max(s) + 1] \in V
  <2>1. \A s \in SUBSET (1..(m - 1)) : s # {} => Max(s) \in 1..(m - 1)
    BY <1>2, LastIsIn
  <2>2. \A i \in 1..(m - 1) : i + 1 \in 1..m
    BY <1>2
  <2>3. \A i \in 1..(m - 1) : vals[i + 1] \in V
    BY <1>3, <2>2
  <2> QED BY <1>2, <2>1, <2>3
<1>6. PICK h : JoinFunction(V, step, m, vals, h)
  BY <1>4, JoinExists
<1>7. Folds(h)
  <2>1. ASSUME NEW s \in SUBSET (1..(m - 1))
        PROVE  h[s] = IF s = {} THEN rs[1].failure
                      ELSE CombinedFailure(h[s \ {Max(s)}], t[Max(s)].failure)
    BY <1>2, <1>3, <1>5, <1>6 DEF JoinFunction
  <2> QED BY <1>2, <1>6, <2>1 DEF JoinFunction
<1>8. Folds(g)
  <2> HIDE DEF Folds
  <2> QED BY <1>7
<1> HIDE DEF g
<1>9. \A s \in SUBSET (1..(m - 1)) :
        g[s] = IF s = {} THEN rs[1].failure ELSE CombinedFailure(g[s \ {Max(s)}], t[Max(s)].failure)
  BY <1>2, <1>8
<1>10. JoinsAlong(V, step, m, vals, g)
  <2>1. g[{}] = vals[1]
    BY <1>2, <1>9
  <2> QED BY <1>3, <1>5, <1>9, <2>1 DEF JoinsAlong
<1>11. g[1..(m - 1)] = H[Values(vals, m)]
  BY <1>4, <1>10, JoinIs
<1> QED BY <1>1, <1>2, <1>11 DEF t, JoinedFailure, FailuresIn

JoinedResult(rs) ==
  FoldLeft(LAMBDA acc, run : CombinedResult(acc, run.test), rs[1].test, Tail(rs))

ResultsIn(rs) == {rs[i].test : i \in DOMAIN rs}

(* The test result of several runs is the join of their results.           *)
LEMMA ResultFold ==
  ASSUME NEW S, NEW rs \in Seq(S), Len(rs) >= 1, NEW V, NEW H,
         \A i \in DOMAIN rs : rs[i].test \in V,
         Joins(V, [q \in V \X V |-> CombinedResult(q[1], q[2])], H)
  PROVE  JoinedResult(rs) = H[ResultsIn(rs)]
<1> DEFINE t == Tail(rs)
           m == Len(rs)
           vals == [i \in 1..m |-> rs[i].test]
           step == [q \in V \X V |-> CombinedResult(q[1], q[2])]
           Folds(f) == f = [s \in SUBSET (DOMAIN t) |->
                              IF s = {} THEN rs[1].test
                              ELSE CombinedResult(f[s \ {Max(s)}], t[Max(s)].test)]
           g == CHOOSE f : Folds(f)
<1>1. FoldLeft(LAMBDA acc, run : CombinedResult(acc, run.test), rs[1].test, t) = g[DOMAIN t]
  BY Zenon DEF FoldLeft, MapThenFoldSet
<1>2. /\ m \in Nat /\ DOMAIN rs = 1..m /\ DOMAIN t = 1..(m - 1)
      /\ vals[1] = rs[1].test
      /\ \A i \in 1..(m - 1) : t[i].test = vals[i + 1]
      /\ m - 1 \in Nat /\ {rs[i].test : i \in DOMAIN rs} = Values(vals, m)
  BY TailIs DEF Values
<1>3. /\ \A a, b \in V : step[<<a, b>>] = CombinedResult(a, b)
      /\ vals \in [1..m -> V]
  BY <1>2
<1>4. CanJoin(V, step, H, m, vals)
  BY <1>2, <1>3 DEF CanJoin
<1> HIDE DEF t, m, vals, step
<1>5. \A s \in SUBSET (1..(m - 1)) : s # {} => t[Max(s)].test = vals[Max(s) + 1]
                                              /\ vals[Max(s) + 1] \in V
  <2>1. \A s \in SUBSET (1..(m - 1)) : s # {} => Max(s) \in 1..(m - 1)
    BY <1>2, LastIsIn
  <2>2. \A i \in 1..(m - 1) : i + 1 \in 1..m
    BY <1>2
  <2>3. \A i \in 1..(m - 1) : vals[i + 1] \in V
    BY <1>3, <2>2
  <2> QED BY <1>2, <2>1, <2>3
<1>6. PICK h : JoinFunction(V, step, m, vals, h)
  BY <1>4, JoinExists
<1>7. Folds(h)
  <2>1. ASSUME NEW s \in SUBSET (1..(m - 1))
        PROVE  h[s] = IF s = {} THEN rs[1].test
                      ELSE CombinedResult(h[s \ {Max(s)}], t[Max(s)].test)
    BY <1>2, <1>3, <1>5, <1>6 DEF JoinFunction
  <2> QED BY <1>2, <1>6, <2>1 DEF JoinFunction
<1>8. Folds(g)
  <2> HIDE DEF Folds
  <2> QED BY <1>7
<1> HIDE DEF g
<1>9. \A s \in SUBSET (1..(m - 1)) :
        g[s] = IF s = {} THEN rs[1].test ELSE CombinedResult(g[s \ {Max(s)}], t[Max(s)].test)
  BY <1>2, <1>8
<1>10. JoinsAlong(V, step, m, vals, g)
  <2>1. g[{}] = vals[1]
    BY <1>2, <1>9
  <2> QED BY <1>3, <1>5, <1>9, <2>1 DEF JoinsAlong
<1>11. g[1..(m - 1)] = H[Values(vals, m)]
  BY <1>4, <1>10, JoinIs
<1> QED BY <1>1, <1>2, <1>11 DEF t, JoinedResult, ResultsIn

JoinedPackage(p, rs) ==
  FoldLeft(LAMBDA acc, run : CombinedPackageStatus(acc, StatusOf(run, p)), StatusOf(rs[1], p),
           Tail(rs))

PackageStatusesIn(p, rs) == {StatusOf(rs[i], p) : i \in DOMAIN rs}

(* A package's status is the join of its statuses in the runs.             *)
LEMMA PackageFold ==
  ASSUME NEW p, NEW S, NEW rs \in Seq(S), Len(rs) >= 1, NEW V, NEW H,
         \A i \in DOMAIN rs : StatusOf(rs[i], p) \in V,
         Joins(V, [q \in V \X V |-> CombinedPackageStatus(q[1], q[2])], H)
  PROVE  JoinedPackage(p, rs) = H[PackageStatusesIn(p, rs)]
<1> DEFINE t == Tail(rs)
           m == Len(rs)
           vals == [i \in 1..m |-> StatusOf(rs[i], p)]
           step == [q \in V \X V |-> CombinedPackageStatus(q[1], q[2])]
           Folds(f) == f = [s \in SUBSET (DOMAIN t) |->
                              IF s = {} THEN StatusOf(rs[1], p)
                              ELSE CombinedPackageStatus(f[s \ {Max(s)}], StatusOf(t[Max(s)], p))]
           g == CHOOSE f : Folds(f)
<1>1. FoldLeft(LAMBDA acc, run : CombinedPackageStatus(acc, StatusOf(run, p)), StatusOf(rs[1], p),
               t)
        = g[DOMAIN t]
  BY Zenon DEF FoldLeft, MapThenFoldSet
<1>2. /\ m \in Nat /\ DOMAIN rs = 1..m /\ DOMAIN t = 1..(m - 1)
      /\ vals[1] = StatusOf(rs[1], p)
      /\ \A i \in 1..(m - 1) : StatusOf(t[i], p) = vals[i + 1]
      /\ m - 1 \in Nat /\ {StatusOf(rs[i], p) : i \in DOMAIN rs} = Values(vals, m)
  BY TailIs DEF Values
<1>3. /\ \A a, b \in V : step[<<a, b>>] = CombinedPackageStatus(a, b)
      /\ vals \in [1..m -> V]
  BY <1>2
<1>4. CanJoin(V, step, H, m, vals)
  BY <1>2, <1>3 DEF CanJoin
<1> HIDE DEF t, m, vals, step
<1>5. \A s \in SUBSET (1..(m - 1)) : s # {} => StatusOf(t[Max(s)], p) = vals[Max(s) + 1]
                                              /\ vals[Max(s) + 1] \in V
  <2>1. \A s \in SUBSET (1..(m - 1)) : s # {} => Max(s) \in 1..(m - 1)
    BY <1>2, LastIsIn
  <2>2. \A i \in 1..(m - 1) : i + 1 \in 1..m
    BY <1>2
  <2>3. \A i \in 1..(m - 1) : vals[i + 1] \in V
    BY <1>3, <2>2
  <2> QED BY <1>2, <2>1, <2>3
<1>6. PICK h : JoinFunction(V, step, m, vals, h)
  BY <1>4, JoinExists
<1>7. Folds(h)
  <2>1. ASSUME NEW s \in SUBSET (1..(m - 1))
        PROVE  h[s] = IF s = {} THEN StatusOf(rs[1], p)
                      ELSE CombinedPackageStatus(h[s \ {Max(s)}], StatusOf(t[Max(s)], p))
    BY <1>2, <1>3, <1>5, <1>6 DEF JoinFunction
  <2> QED BY <1>2, <1>6, <2>1 DEF JoinFunction
<1>8. Folds(g)
  <2> HIDE DEF Folds
  <2> QED BY <1>7
<1> HIDE DEF g
<1>9. \A s \in SUBSET (1..(m - 1)) :
        g[s] = IF s = {} THEN StatusOf(rs[1], p)
               ELSE CombinedPackageStatus(g[s \ {Max(s)}], StatusOf(t[Max(s)], p))
  BY <1>2, <1>8
<1>10. JoinsAlong(V, step, m, vals, g)
  <2>1. g[{}] = vals[1]
    BY <1>2, <1>9
  <2> QED BY <1>3, <1>5, <1>9, <2>1 DEF JoinsAlong
<1>11. g[1..(m - 1)] = H[Values(vals, m)]
  BY <1>4, <1>10, JoinIs
<1> QED BY <1>1, <1>2, <1>11 DEF t, JoinedPackage, PackageStatusesIn

JoinedUnits(pl, o, rs) ==
  FoldLeft(LAMBDA acc, run : UnionObligation(acc, Single(pl, run, o)), Single(pl, rs[1], o),
           Tail(rs))

UnitsIn(pl, o, rs) == {Single(pl, rs[i], o) : i \in DOMAIN rs}

(* What several runs know of an obligation is the join of what each knows. *)
LEMMA ObligationFold ==
  ASSUME NEW pl, NEW o, NEW S, NEW rs \in Seq(S), Len(rs) >= 1, NEW V, NEW H,
         \A i \in DOMAIN rs : Single(pl, rs[i], o) \in V,
         Joins(V, [q \in V \X V |-> UnionObligation(q[1], q[2])], H)
  PROVE  JoinedUnits(pl, o, rs) = H[UnitsIn(pl, o, rs)]
<1> DEFINE t == Tail(rs)
           m == Len(rs)
           vals == [i \in 1..m |-> Single(pl, rs[i], o)]
           step == [q \in V \X V |-> UnionObligation(q[1], q[2])]
           Folds(f) == f = [s \in SUBSET (DOMAIN t) |->
                              IF s = {} THEN Single(pl, rs[1], o)
                              ELSE UnionObligation(f[s \ {Max(s)}], Single(pl, t[Max(s)], o))]
           g == CHOOSE f : Folds(f)
<1>1. FoldLeft(LAMBDA acc, run : UnionObligation(acc, Single(pl, run, o)), Single(pl, rs[1], o), t)
        = g[DOMAIN t]
  BY Zenon DEF FoldLeft, MapThenFoldSet
<1>2. /\ m \in Nat /\ DOMAIN rs = 1..m /\ DOMAIN t = 1..(m - 1)
      /\ vals[1] = Single(pl, rs[1], o)
      /\ \A i \in 1..(m - 1) : Single(pl, t[i], o) = vals[i + 1]
      /\ m - 1 \in Nat /\ {Single(pl, rs[i], o) : i \in DOMAIN rs} = Values(vals, m)
  BY TailIs DEF Values
<1>3. /\ \A a, b \in V : step[<<a, b>>] = UnionObligation(a, b)
      /\ vals \in [1..m -> V]
  BY <1>2
<1>4. CanJoin(V, step, H, m, vals)
  BY <1>2, <1>3 DEF CanJoin
<1> HIDE DEF t, m, vals, step
<1>5. \A s \in SUBSET (1..(m - 1)) : s # {} => Single(pl, t[Max(s)], o) = vals[Max(s) + 1]
                                              /\ vals[Max(s) + 1] \in V
  <2>1. \A s \in SUBSET (1..(m - 1)) : s # {} => Max(s) \in 1..(m - 1)
    BY <1>2, LastIsIn
  <2>2. \A i \in 1..(m - 1) : i + 1 \in 1..m
    BY <1>2
  <2>3. \A i \in 1..(m - 1) : vals[i + 1] \in V
    BY <1>3, <2>2
  <2> QED BY <1>2, <2>1, <2>3
<1>6. PICK h : JoinFunction(V, step, m, vals, h)
  BY <1>4, JoinExists
<1>7. Folds(h)
  <2>1. ASSUME NEW s \in SUBSET (1..(m - 1))
        PROVE  h[s] = IF s = {} THEN Single(pl, rs[1], o)
                      ELSE UnionObligation(h[s \ {Max(s)}], Single(pl, t[Max(s)], o))
    BY <1>2, <1>3, <1>5, <1>6 DEF JoinFunction
  <2> QED BY <1>2, <1>6, <2>1 DEF JoinFunction
<1>8. Folds(g)
  <2> HIDE DEF Folds
  <2> QED BY <1>7
<1> HIDE DEF g
<1>9. \A s \in SUBSET (1..(m - 1)) :
        g[s] = IF s = {} THEN Single(pl, rs[1], o)
               ELSE UnionObligation(g[s \ {Max(s)}], Single(pl, t[Max(s)], o))
  BY <1>2, <1>8
<1>10. JoinsAlong(V, step, m, vals, g)
  <2>1. g[{}] = vals[1]
    BY <1>2, <1>9
  <2> QED BY <1>3, <1>5, <1>9, <2>1 DEF JoinsAlong
<1>11. g[1..(m - 1)] = H[Values(vals, m)]
  BY <1>4, <1>10, JoinIs
<1> QED BY <1>1, <1>2, <1>11 DEF t, JoinedUnits, UnitsIn
-----------------------------------------------------------------------------
(* combineRuns, field by field.                                            *)
LEMMA RunIs ==
  ASSUME NEW pl, NEW rs
  PROVE  CombinedRun(pl, rs) =
           [status   |-> JoinedStatus(rs), failure |-> JoinedFailure(rs),
            complete |-> \A i \in DOMAIN rs : rs[i].complete,
            test     |-> JoinedResult(rs),
            packages |-> [p \in {pl[e].package : e \in DOMAIN pl} |-> JoinedPackage(p, rs)]]
BY Zenon DEF CombinedRun, JoinedStatus, JoinedFailure, JoinedResult, JoinedPackage

(* What mergeFunction makes of an obligation that is not a decision's.     *)
LEMMA MergedIs ==
  ASSUME NEW pl, NEW rs, NEW o, pl[o[2]].type # "decision"
  PROVE  Merged(pl, rs, o) = JoinedUnits(pl, o, rs)
BY Zenon DEF Merged, JoinedUnits

Types == {"decision", "clause", "noMatch", "function"}

(* An obligation belongs to an entity of the plan, and has a metric that   *)
(* the entity's type has.                                                  *)
LEMMA ObligationIs ==
  ASSUME NEW pl, \A e \in DOMAIN pl : pl[e].type \in Types,
         NEW o \in Obligations(pl)
  PROVE  /\ o[2] \in DOMAIN pl /\ pl[o[2]].type \in Types
         /\ pl[o[2]].type = "decision" => o[1] \in {"decision", "condition", "mcdc-unique"}
         /\ pl[o[2]].type # "decision" => o[1] \in {"function", "statement", "body", "selection"}
<1> DEFINE Of(e) ==
      CASE pl[e].type = "decision" ->
                {<<"decision", e, 0>>}
                  \union ({"condition", "mcdc-unique"} \X {e} \X Conditions(pl[e].tree))
           [] pl[e].type = "function" ->
                {<<"function", e, 0>>} \union ({"statement"} \X {e} \X pl[e].blocks)
           [] pl[e].type = "clause" ->
                {<<"body", e, 0>>}
                  \union (IF HasSelection(pl[e]) THEN {<<"selection", e, 0>>} ELSE {})
           [] pl[e].type = "noMatch" -> {<<"selection", e, 0>>}
<1>1. PICK e \in DOMAIN pl : o \in Of(e)
  BY DEF Obligations
<1>2. pl[e].type \in Types
  OBVIOUS
<1>3. CASE pl[e].type = "decision"
  <2>1. Of(e) = {<<"decision", e, 0>>}
                  \union ({"condition", "mcdc-unique"} \X {e} \X Conditions(pl[e].tree))
    BY <1>3
  <2> HIDE DEF Of
  <2>2. o[2] = e /\ o[1] \in {"decision", "condition", "mcdc-unique"}
    BY <1>1, <2>1
  <2> QED BY <1>3, <2>2 DEF Types
<1>4. CASE pl[e].type = "function"
  <2>1. Of(e) = {<<"function", e, 0>>} \union ({"statement"} \X {e} \X pl[e].blocks)
    BY <1>4
  <2> HIDE DEF Of
  <2>2. o[2] = e /\ o[1] \in {"function", "statement"}
    BY <1>1, <2>1
  <2> QED BY <1>4, <2>2 DEF Types
<1>5. CASE pl[e].type = "clause"
  <2>1. Of(e) = {<<"body", e, 0>>}
                  \union (IF HasSelection(pl[e]) THEN {<<"selection", e, 0>>} ELSE {})
    BY <1>5
  <2> HIDE DEF Of
  <2>2. o[2] = e /\ o[1] \in {"body", "selection"}
    BY <1>1, <2>1
  <2> QED BY <1>5, <2>2 DEF Types
<1>6. CASE pl[e].type = "noMatch"
  <2>1. Of(e) = {<<"selection", e, 0>>}
    BY <1>6
  <2> HIDE DEF Of
  <2>2. o[2] = e /\ o[1] = "selection"
    BY <1>1, <2>1
  <2> QED BY <1>6, <2>2 DEF Types
<1> HIDE DEF Of
<1> QED BY <1>2, <1>3, <1>4, <1>5, <1>6 DEF Types

(* Of anything but a decision an execution knows one of four amounts.      *)
LEMMA SingleIs ==
  ASSUME NEW pl, NEW run, NEW o, pl[o[2]].type # "decision",
         o[1] \in {"function", "statement", "body", "selection"}
  PROVE  Single(pl, run, o) \in Amounts
<1>1. \A x \in {"unknown", "unsupported", "normal"}, c \in {0, 1} : Units(x, c, 1) \in Amounts
  BY DEF Units, Amounts
<1>3. CASE o[1] = "body"
  <2>1. BodyState(pl, run, o[2]) \in {"unknown", "unsupported", "normal"}
    BY DEF BodyState, StateOfEntity
  <2>2. Observed01(run, "body", o[2]) \in {0, 1}
    BY DEF Observed01
  <2>3. Single(pl, run, o) = Units(BodyState(pl, run, o[2]), Observed01(run, "body", o[2]), 1)
    BY <1>3 DEF Single
  <2> QED BY <1>1, <2>1, <2>2, <2>3
<1>4. CASE o[1] = "selection"
  <2>1. SelectionState(pl, run, o[2]) \in {"unknown", "unsupported", "normal"}
    BY DEF SelectionState
  <2>2. Observed01(run, "selection", o[2]) \in {0, 1}
    BY DEF Observed01
  <2>3. Single(pl, run, o)
          = Units(SelectionState(pl, run, o[2]), Observed01(run, "selection", o[2]), 1)
    BY <1>4 DEF Single
  <2> QED BY <1>1, <2>1, <2>2, <2>3
<1>5. CASE o[1] = "statement"
  <2>1. Single(pl, run, o) = StatementUnits(run, o[2], o[3])
    BY <1>5 DEF Single
  <2> QED BY <2>1 DEF StatementUnits, Amounts
<1>6. CASE o[1] = "function"
  <2>1. Single(pl, run, o) = FunctionUnits(pl, run, o[2])
    BY <1>6 DEF Single
  <2> QED BY <2>1 DEF FunctionUnits, Amounts
<1> QED BY <1>3, <1>4, <1>5, <1>6
-----------------------------------------------------------------------------
(***************************************************************************)
(* The executions of a plan, as many as there are, and as they may be.     *)
(***************************************************************************)
GoodRun(run) ==
  /\ IsFiniteSet(run.evaluations)
  /\ run.status \in RunStatuses /\ run.test \in Results
  /\ \A p \in DOMAIN run.packages : run.packages[p] \in PackageStatuses

GoodRuns(rs) ==
  /\ \E S : rs \in Seq(S)
  /\ Len(rs) >= 1
  /\ \A i \in DOMAIN rs : GoodRun(rs[i])

(* The same executions, in whatever order.                                 *)
SameRuns(rs, ss) ==
  /\ Len(rs) = Len(ss)
  /\ \A i \in DOMAIN rs : \E j \in DOMAIN ss : rs[i] = ss[j]
  /\ \A j \in DOMAIN ss : \E i \in DOMAIN rs : rs[i] = ss[j]

(* In whatever order, executions have the same status, the same failure,   *)
(* test results and packages.                                              *)
LEMMA SameCombinedRun ==
  ASSUME NEW pl, NEW rs, NEW ss, GoodRuns(rs), GoodRuns(ss), SameRuns(rs, ss)
  PROVE  CombinedRun(pl, rs) = CombinedRun(pl, ss)
<1>1. /\ StatusesIn(rs) = StatusesIn(ss) /\ FailuresIn(rs) = FailuresIn(ss)
      /\ ResultsIn(rs) = ResultsIn(ss)
      /\ \A p : PackageStatusesIn(p, rs) = PackageStatusesIn(p, ss)
  BY DEF SameRuns, StatusesIn, FailuresIn, ResultsIn, PackageStatusesIn
<1>2. PICK S1 : rs \in Seq(S1)
  BY DEF GoodRuns
<1>3. PICK S2 : ss \in Seq(S2)
  BY DEF GoodRuns
<1>4. Len(rs) >= 1 /\ Len(ss) >= 1
  BY DEF GoodRuns
<1>5. JoinedStatus(rs) = JoinedStatus(ss)
  <2>1. PICK H : Joins(RunStatuses, [p \in RunStatuses \X RunStatuses |->
                                       CombinedRunStatus(p[1], p[2])], H)
    BY StatusesJoin
  <2>2. /\ \A i \in DOMAIN rs : rs[i].status \in RunStatuses
        /\ \A i \in DOMAIN ss : ss[i].status \in RunStatuses
    BY DEF GoodRuns, GoodRun
  <2>3. JoinedStatus(rs) = H[StatusesIn(rs)]
    BY <1>2, <1>4, <2>1, <2>2, StatusFold
  <2>4. JoinedStatus(ss) = H[StatusesIn(ss)]
    BY <1>3, <1>4, <2>1, <2>2, StatusFold
  <2> QED BY <1>1, <2>3, <2>4
<1>6. JoinedResult(rs) = JoinedResult(ss)
  <2>1. PICK H : Joins(Results, [p \in Results \X Results |-> CombinedResult(p[1], p[2])], H)
    BY ResultsJoin
  <2>2. /\ \A i \in DOMAIN rs : rs[i].test \in Results
        /\ \A i \in DOMAIN ss : ss[i].test \in Results
    BY DEF GoodRuns, GoodRun
  <2>3. JoinedResult(rs) = H[ResultsIn(rs)]
    BY <1>2, <1>4, <2>1, <2>2, ResultFold
  <2>4. JoinedResult(ss) = H[ResultsIn(ss)]
    BY <1>3, <1>4, <2>1, <2>2, ResultFold
  <2> QED BY <1>1, <2>3, <2>4
<1>7. JoinedFailure(rs) = JoinedFailure(ss)
  <2> DEFINE V == FailuresIn(rs) \cup {"none", "mixed"}
             H == [X \in SUBSET V |-> OnlyFailure(X)]
  <2>1. "none" \in V /\ "mixed" \in V
    OBVIOUS
  <2>2. /\ \A i \in DOMAIN rs : rs[i].failure \in V
        /\ \A i \in DOMAIN ss : ss[i].failure \in V
    BY <1>1 DEF FailuresIn
  <2> HIDE DEF V
  <2>3. Joins(V, [p \in V \X V |-> CombinedFailure(p[1], p[2])], H)
    BY <2>1, FailuresJoin
  <2> HIDE DEF H
  <2>4. JoinedFailure(rs) = H[FailuresIn(rs)]
    BY <1>2, <1>4, <2>2, <2>3, FailureFold
  <2>5. JoinedFailure(ss) = H[FailuresIn(ss)]
    BY <1>3, <1>4, <2>2, <2>3, FailureFold
  <2> QED BY <1>1, <2>4, <2>5
<1>8. ASSUME NEW q
      PROVE  JoinedPackage(q, rs) = JoinedPackage(q, ss)
  <2>1. PICK H : Joins(PackageStatuses, [p \in PackageStatuses \X PackageStatuses |->
                                           CombinedPackageStatus(p[1], p[2])], H)
    BY PackagesJoin
  <2>2. ASSUME NEW run, GoodRun(run)
        PROVE  StatusOf(run, q) \in PackageStatuses
    BY <2>2 DEF StatusOf, GoodRun, RunStatuses, PackageStatuses
  <2>3. /\ \A i \in DOMAIN rs : StatusOf(rs[i], q) \in PackageStatuses
        /\ \A i \in DOMAIN ss : StatusOf(ss[i], q) \in PackageStatuses
    BY <2>2 DEF GoodRuns
  <2>4. JoinedPackage(q, rs) = H[PackageStatusesIn(q, rs)]
    BY <1>2, <1>4, <2>1, <2>3, PackageFold
  <2>5. JoinedPackage(q, ss) = H[PackageStatusesIn(q, ss)]
    BY <1>3, <1>4, <2>1, <2>3, PackageFold
  <2> QED BY <1>1, <2>4, <2>5
<1>9. (\A i \in DOMAIN rs : rs[i].complete) <=> (\A i \in DOMAIN ss : ss[i].complete)
  BY DEF SameRuns
<1>10. (\A i \in DOMAIN rs : rs[i].complete) = (\A i \in DOMAIN ss : ss[i].complete)
  BY <1>9
<1> QED BY <1>5, <1>6, <1>7, <1>8, <1>10, RunIs

(* In whatever order, they know the same of every obligation.              *)
LEMMA SameReport ==
  ASSUME NEW pl, \A e \in DOMAIN pl : pl[e].type \in Types,
         NEW rs, NEW ss, GoodRuns(rs), GoodRuns(ss), SameRuns(rs, ss)
  PROVE  Report(pl, rs) = Report(pl, ss)
<1>1. PICK S1 : rs \in Seq(S1)
  BY DEF GoodRuns
<1>2. PICK S2 : ss \in Seq(S2)
  BY DEF GoodRuns
<1>3. Len(rs) >= 1 /\ Len(ss) >= 1 /\ Len(rs) = Len(ss)
  BY DEF GoodRuns, SameRuns
<1>4. Len(rs) = 1 => rs[1] = ss[1]
  <2>1. SUFFICES ASSUME Len(rs) = 1 PROVE rs[1] = ss[1]
    OBVIOUS
  <2>2. DOMAIN rs = {1} /\ DOMAIN ss = {1}
    <3>1. DOMAIN rs = 1..Len(rs) /\ DOMAIN ss = 1..Len(ss)
      BY <1>1, <1>2
    <3>2. 1..1 = {1}
      OBVIOUS
    <3> QED BY <1>3, <2>1, <3>1, <3>2
  <2> QED BY <2>2 DEF SameRuns
<1>5. ASSUME NEW o \in Obligations(pl)
      PROVE  Merged(pl, rs, o) = Merged(pl, ss, o)
  <2>1. CASE pl[o[2]].type = "decision"
    <3>1. /\ \A i \in DOMAIN rs : \E j \in DOMAIN ss : rs[i] = ss[j]
          /\ \A j \in DOMAIN ss : \E i \in DOMAIN rs : rs[i] = ss[j]
      BY DEF SameRuns
    <3>2. UnionDecisionState(pl, rs, o[2]) = UnionDecisionState(pl, ss, o[2])
      <4>1. {SourceDecisionState(pl, rs[i], o[2]) : i \in DOMAIN rs}
              = {SourceDecisionState(pl, ss[i], o[2]) : i \in DOMAIN ss}
        BY <3>1
      <4> QED BY <4>1 DEF UnionDecisionState
    <3>3. UnionEvaluations(pl, rs, o[2]) = UnionEvaluations(pl, ss, o[2])
      <4> DEFINE A == {EvaluationsOf(rs[i], o[2]) :
               i \in {k \in DOMAIN rs : SourceDecisionState(pl, rs[k], o[2]) = "normal"}}
                 B == {EvaluationsOf(ss[i], o[2]) :
               i \in {k \in DOMAIN ss : SourceDecisionState(pl, ss[k], o[2]) = "normal"}}
      <4>1. A = B
        BY <3>1
      <4>2. UNION A = UNION B
        BY <4>1
      <4> QED BY <4>2 DEF UnionEvaluations
    <3> QED BY <2>1, <3>2, <3>3 DEF Merged
  <2>2. CASE pl[o[2]].type # "decision"
    <3>1. \A run : Single(pl, run, o) \in Amounts
      BY <2>2, ObligationIs, SingleIs
    <3>2. UnitsIn(pl, o, rs) = UnitsIn(pl, o, ss)
      BY DEF SameRuns, UnitsIn
    <3> DEFINE H == [X \in SUBSET Amounts |-> Highest(X)]
    <3>3. Joins(Amounts, [p \in Amounts \X Amounts |-> UnionObligation(p[1], p[2])], H)
      BY ObligationsJoin
    <3> HIDE DEF H
    <3>4. JoinedUnits(pl, o, rs) = H[UnitsIn(pl, o, rs)]
      BY <1>1, <1>3, <3>1, <3>3, ObligationFold
    <3>5. JoinedUnits(pl, o, ss) = H[UnitsIn(pl, o, ss)]
      BY <1>2, <1>3, <3>1, <3>3, ObligationFold
    <3> QED BY <2>2, <3>2, <3>4, <3>5, MergedIs
  <2> QED BY <2>1, <2>2
<1>6. \A o \in Obligations(pl) :
        (IF Len(rs) = 1 THEN Single(pl, rs[1], o) ELSE Merged(pl, rs, o))
          = (IF Len(ss) = 1 THEN Single(pl, ss[1], o) ELSE Merged(pl, ss, o))
  BY <1>3, <1>4, <1>5
<1> QED BY <1>6 DEF Report

(* In whatever order, they leave the same gaps.                            *)
LEMMA SameGaps ==
  ASSUME NEW pl, NEW rs, NEW ss, SameRuns(rs, ss)
  PROVE  HasGaps(pl, rs) <=> HasGaps(pl, ss)
<1>1. \A hook, e : Probed(rs, hook, e) <=> Probed(ss, hook, e)
  BY DEF Probed, SameRuns
<1>2. \A e, b : (\A i \in DOMAIN rs : ~rs[i].blocks[e][b].evidence)
                  <=> (\A i \in DOMAIN ss : ~ss[i].blocks[e][b].evidence)
  BY DEF SameRuns
<1> QED BY <1>1, <1>2 DEF HasGaps

(* In whatever order, their evidence is as complete.                       *)
LEMMA SameComplete ==
  ASSUME NEW pl, NEW rs, NEW ss, SameRuns(rs, ss),
         CombinedRun(pl, rs) = CombinedRun(pl, ss), Report(pl, rs) = Report(pl, ss)
  PROVE  CompleteSatisfied(pl, rs) = CompleteSatisfied(pl, ss)
<1>1. HasGaps(pl, rs) <=> HasGaps(pl, ss)
  BY SameGaps
<1>2. Summary(pl, rs) = Summary(pl, ss)
  BY DEF Summary
<1>3. CombinedRun(pl, rs).complete <=> CombinedRun(pl, ss).complete
  OBVIOUS
<1> QED BY <1>1, <1>2, <1>3 DEF CompleteSatisfied
-----------------------------------------------------------------------------
(***************************************************************************)
(* The executions rs are among the executions ss.                          *)
(***************************************************************************)
Among(rs, ss) == \A i \in DOMAIN rs : \E j \in DOMAIN ss : rs[i] = ss[j]

(* A merge adds an execution to the others, and leaves those.              *)
LEMMA InsertKeeps ==
  ASSUME NEW E, NEW s \in Seq(E), NEW run \in E, NEW i \in 1..(Len(s) + 1)
  PROVE  /\ InsertAt(s, i, run) \in Seq(E) /\ Len(InsertAt(s, i, run)) = Len(s) + 1
         /\ Among(s, InsertAt(s, i, run))
<1> DEFINE a == SubSeq(s, 1, i - 1)
           u == <<run>>
           c == SubSeq(s, i, Len(s))
<1>1. Len(s) \in Nat /\ DOMAIN s = 1..Len(s)
  OBVIOUS
<1>2. a \in Seq(E) /\ Len(a) = i - 1 /\ \A k \in 1..(i - 1) : a[k] = s[k]
  BY <1>1
<1>3. c \in Seq(E) /\ Len(c) = Len(s) + 1 - i
      /\ \A k \in 1..(Len(s) + 1 - i) : c[k] = s[k + i - 1]
  BY <1>1
<1>4. u \in Seq(E) /\ Len(u) = 1
  OBVIOUS
<1>5. InsertAt(s, i, run) = (a \o u) \o c
  BY DEF InsertAt
<1> HIDE DEF a, u, c
<1> DEFINE w == a \o u
           t == w \o c
<1>6. w \in Seq(E) /\ Len(w) = i /\ \A k \in 1..Len(a) : k \in DOMAIN w /\ w[k] = a[k]
  <2>1. w \in Seq(E)
    BY <1>2, <1>4
  <2>2. Len(w) = Len(a) + Len(u) /\ \A k \in 1..Len(a) : k \in DOMAIN w /\ w[k] = a[k]
    BY <1>2, <1>4, ConcatElements
  <2> QED BY <1>1, <1>2, <1>4, <2>1, <2>2
<1> HIDE DEF w
<1>7. /\ t \in Seq(E) /\ Len(t) = Len(s) + 1
      /\ \A k \in 1..Len(w) : k \in DOMAIN t /\ t[k] = w[k]
      /\ \A k \in 1..Len(c) : k + Len(w) \in DOMAIN t /\ t[k + Len(w)] = c[k]
  <2>1. t \in Seq(E)
    BY <1>3, <1>6
  <2>2. /\ Len(t) = Len(w) + Len(c)
        /\ \A k \in 1..Len(w) : k \in DOMAIN t /\ t[k] = w[k]
        /\ \A k \in 1..Len(c) : k + Len(w) \in DOMAIN t /\ t[k + Len(w)] = c[k]
    BY <1>3, <1>6, ConcatElements
  <2> QED BY <1>1, <1>3, <1>6, <2>1, <2>2
<1> HIDE DEF t
<1>8. ASSUME NEW k \in 1..Len(s)
      PROVE  \E j \in DOMAIN t : s[k] = t[j]
  <2>1. CASE k < i
    <3>1. k \in 1..Len(a) /\ s[k] = a[k]
      BY <1>1, <1>2, <2>1
    <3>2. k \in DOMAIN w /\ w[k] = a[k] /\ DOMAIN w = 1..Len(w)
      BY <1>6, <3>1
    <3>3. k \in DOMAIN t /\ t[k] = w[k]
      BY <1>7, <3>2
    <3> QED BY <3>1, <3>2, <3>3
  <2>2. CASE k >= i
    <3>1. PICK x \in 1..Len(c) : c[x] = s[k]
      <4>1. k - i + 1 \in 1..(Len(s) + 1 - i) /\ (k - i + 1) + i - 1 = k
        BY <1>1, <2>2
      <4> QED BY <1>3, <4>1
    <3>2. x + Len(w) \in DOMAIN t /\ t[x + Len(w)] = c[x]
      BY <1>7
    <3> QED BY <3>1, <3>2
  <2> QED BY <1>1, <2>1, <2>2
<1> QED BY <1>1, <1>5, <1>7, <1>8 DEF Among, t, w

(***************************************************************************)
(* What is kept: at least one execution, each of them one that the case    *)
(* may have.                                                               *)
(***************************************************************************)
RunsInv ==
  /\ case \in DOMAIN Cases /\ plan = Cases[case].plan
  /\ runs \in Seq(Cases[case].executions) /\ Len(runs) >= 1

(* It is kept by every merge.                                              *)
LEMMA RunsInvInductive == Spec => []RunsInv
<1>1. Init => RunsInv
  <2>1. \A E, run : run \in E => <<run>> \in Seq(E) /\ Len(<<run>>) = 1
    OBVIOUS
  <2>2. SUFFICES ASSUME Init PROVE RunsInv
    OBVIOUS
  <2>3. PICK run \in Cases[case].executions : runs = <<run>>
    BY <2>2 DEF Init
  <2>4. runs \in Seq(Cases[case].executions) /\ Len(runs) = 1
    BY <2>1, <2>3
  <2> QED BY <2>2, <2>4 DEF Init, RunsInv
<1>2. RunsInv /\ [Next]_vars => RunsInv'
  <2>1. SUFFICES ASSUME RunsInv, [Next]_vars
                 PROVE  RunsInv'
    OBVIOUS
  <2>2. CASE MergeExecution
    <3> DEFINE E == Cases[case].executions
    <3>1. PICK run \in E, i \in 1..(Len(runs) + 1) : runs' = InsertAt(runs, i, run)
      BY <2>2 DEF MergeExecution
    <3>2. runs \in Seq(E) /\ Len(runs) \in Nat
      BY <2>1 DEF RunsInv
    <3> HIDE DEF E
    <3>3. runs' \in Seq(E) /\ Len(runs') = Len(runs) + 1
      BY <3>1, <3>2, InsertKeeps
    <3>6. case' = case /\ plan' = plan
      BY <2>2 DEF MergeExecution
    <3> QED BY <2>1, <3>2, <3>3, <3>6 DEF RunsInv, E
  <2>3. CASE UNCHANGED vars
    BY <2>1, <2>3 DEF RunsInv, vars
  <2> QED BY <2>1, <2>2, <2>3 DEF Next
<1> QED BY <1>1, <1>2, PTL DEF Spec

(* They are then executions that can be folded.                            *)
LEMMA CaseIsGood ==
  ASSUME NEW c \in DOMAIN Cases, NEW rs \in Seq(Cases[c].executions), Len(rs) >= 1
  PROVE  GoodRuns(rs)
<1>1. \A run \in Cases[c].executions : GoodRun(run)
  BY CasesAssumption DEF GoodRun, RunStatuses, Results, PackageStatuses
<1>2. \A i \in DOMAIN rs : rs[i] \in Cases[c].executions
  OBVIOUS
<1> QED BY <1>1, <1>2 DEF GoodRuns

(* The same of the variables.                                              *)
LEMMA RunsAreGood ==
  ASSUME RunsInv
  PROVE  /\ GoodRuns(runs) /\ DOMAIN runs = 1..Len(runs) /\ Len(runs) \in Nat
         /\ \A e \in DOMAIN plan : plan[e].type \in Types
<1>1. /\ runs \in Seq(Cases[case].executions) /\ Len(runs) >= 1 /\ case \in DOMAIN Cases
      /\ plan = Cases[case].plan
  BY DEF RunsInv
<1>2. \A e \in DOMAIN plan : plan[e].type \in Types
  BY <1>1, CasesAssumption DEF Types
<1>3. GoodRuns(runs)
  BY <1>1, CaseIsGood
<1> QED BY <1>1, <1>2, <1>3

(* The order of the identities is immaterial: to every count, to the       *)
(* combined outcome and to the requirement of complete evidence.           *)
THEOREM OfflineOrderIsImmaterial == Spec => []OrderIsImmaterial
<1>1. ASSUME RunsInv
      PROVE  OrderIsImmaterial
  <2> DEFINE D == DOMAIN runs
  <2>1. /\ GoodRuns(runs) /\ D = 1..Len(runs) /\ Len(runs) \in Nat
        /\ \A e \in DOMAIN plan : plan[e].type \in Types
    BY <1>1, RunsAreGood
  <2>2. ASSUME NEW q \in [D -> D], IsInjective(q)
        PROVE  /\ GoodRuns([i \in D |-> runs[q[i]]])
               /\ SameRuns(runs, [i \in D |-> runs[q[i]]])
    <3> DEFINE other == [i \in D |-> runs[q[i]]]
    <3>1. q \in Surjection(D, D)
      <4>1. q \in Injection(D, D)
        BY <2>2 DEF Injection
      <4>2. IsFiniteSet(D)
        BY <2>1, FS_Interval
      <4> QED BY <4>1, <4>2, FS_Injection
    <3>2. /\ \A i \in D : \E j \in D : q[j] = i
      BY <3>1 DEF Surjection
    <3>3. PICK S : runs \in Seq(S)
      BY <2>1 DEF GoodRuns
    <3>4. other \in Seq(S) /\ DOMAIN other = D /\ Len(other) = Len(runs)
      BY <2>1, <3>3
    <3>5. \A i \in D : q[i] \in D /\ other[i] = runs[q[i]]
      OBVIOUS
    <3> HIDE DEF other
    <3>6. GoodRuns(other)
      BY <2>1, <3>4, <3>5 DEF GoodRuns
    <3>7. SameRuns(runs, other)
      BY <3>2, <3>4, <3>5 DEF SameRuns
    <3> QED BY <3>6, <3>7 DEF other
  <2>3. ASSUME NEW other \in Reorderings
        PROVE  GoodRuns(other) /\ SameRuns(runs, other)
    BY <2>2 DEF Reorderings
  <2>4. ASSUME NEW other \in Reorderings
        PROVE  /\ Report(plan, other) = Report(plan, runs)
               /\ CombinedRun(plan, other) = CombinedRun(plan, runs)
               /\ CompleteSatisfied(plan, other) = CompleteSatisfied(plan, runs)
    <3>1. Report(plan, runs) = Report(plan, other)
      BY <2>1, <2>3, SameReport
    <3>2. CombinedRun(plan, runs) = CombinedRun(plan, other)
      BY <2>1, <2>3, SameCombinedRun
    <3> QED BY <2>3, <3>1, <3>2, SameComplete
  <2> QED BY <2>4 DEF OrderIsImmaterial
<1> QED BY <1>1, RunsInvInductive, PTL
-----------------------------------------------------------------------------
(* The four amounts differ, and by which of their counts.                  *)
LEMMA AmountsAre ==
  /\ Known(1, 1).covered = 1 /\ Known(1, 1).total = 1 /\ Known(1, 1).unsupported = 0
  /\ Known(0, 1).covered = 0 /\ Known(0, 1).total = 1 /\ Known(0, 1).unsupported = 0
  /\ UnsupportedUnits(1).total = 0 /\ UnsupportedUnits(1).unsupported = 1
  /\ UnknownUnits(1).total = 0 /\ UnknownUnits(1).unsupported = 0
BY DEF Known, UnsupportedUnits, UnknownUnits, Nothing

(* Of anything but a decision the report says the highest of the amounts.  *)
LEMMA ReportIsHighest ==
  ASSUME NEW pl, \A e \in DOMAIN pl : pl[e].type \in Types, NEW rs, GoodRuns(rs),
         NEW o \in Obligations(pl), pl[o[2]].type # "decision"
  PROVE  /\ UnitsIn(pl, o, rs) \in SUBSET Amounts
         /\ \A i \in DOMAIN rs : Single(pl, rs[i], o) \in Amounts
         /\ Report(pl, rs)[o] = Highest(UnitsIn(pl, o, rs))
<1>1. PICK S : rs \in Seq(S)
  BY DEF GoodRuns
<1>2. DOMAIN rs = 1..Len(rs) /\ Len(rs) \in Nat /\ Len(rs) >= 1
  BY <1>1 DEF GoodRuns
<1>3. \A run : Single(pl, run, o) \in Amounts
  BY ObligationIs, SingleIs
<1> DEFINE X == UnitsIn(pl, o, rs)
           H == [Y \in SUBSET Amounts |-> Highest(Y)]
<1>4. X \in SUBSET Amounts /\ H[X] = Highest(X)
  BY <1>3 DEF UnitsIn
<1>5. Joins(Amounts, [p \in Amounts \X Amounts |-> UnionObligation(p[1], p[2])], H)
  BY ObligationsJoin
<1>6. Report(pl, rs)[o]
        = IF Len(rs) = 1 THEN Single(pl, rs[1], o) ELSE Merged(pl, rs, o)
  BY DEF Report
<1> HIDE DEF H
<1>7. CASE Len(rs) = 1
  <2>1. X = {Single(pl, rs[1], o)}
    <3>1. DOMAIN rs = {1}
      BY <1>2, <1>7
    <3> QED BY <3>1 DEF UnitsIn
  <2> QED BY <1>3, <1>4, <1>5, <1>6, <1>7, <2>1 DEF Joins
<1>8. CASE Len(rs) # 1
  <2>1. JoinedUnits(pl, o, rs) = H[X]
    BY <1>1, <1>2, <1>3, <1>5, ObligationFold
  <2> QED BY <1>3, <1>4, <1>6, <1>8, <2>1, MergedIs
<1> QED BY <1>7, <1>8

(* The highest amount of the executions is the best of them.               *)
LEMMA HighestIsBest ==
  ASSUME RunsInv, NEW o \in Obligations(plan), plan[o[2]].type # "decision"
  PROVE  Report(plan, runs)[o] = Best(o)
<1>1. /\ GoodRuns(runs) /\ DOMAIN runs = 1..Len(runs) /\ Len(runs) \in Nat /\ Len(runs) >= 1
      /\ \A e \in DOMAIN plan : plan[e].type \in Types
  BY RunsAreGood DEF RunsInv
<1> DEFINE X == UnitsIn(plan, o, runs)
<1>2. \A i \in DOMAIN runs : Single(plan, runs[i], o) \in Amounts
  BY <1>1, ReportIsHighest
<1>3. X \in SUBSET Amounts /\ 1 \in DOMAIN runs
  BY <1>1, ReportIsHighest
<1>5. Report(plan, runs)[o] = Highest(X)
  BY <1>1, ReportIsHighest
<1>6. \A i \in DOMAIN runs : Single(plan, runs[i], o) \in X
  BY DEF UnitsIn
<1>7. \A u \in X : \E i \in DOMAIN runs : u = Single(plan, runs[i], o)
  BY DEF UnitsIn
<1>8. Best(o) = Highest(X)
  <2> DEFINE a == Known(1, 1)
             b == Known(0, 1)
             c == UnsupportedUnits(1)
             d == UnknownUnits(1)
  <2>1. /\ Amounts = {a, b, c, d}
        /\ Highest(X) = IF a \in X THEN a ELSE IF b \in X THEN b ELSE IF c \in X THEN c ELSE d
    BY DEF Amounts, Highest
  <2>2. /\ a.covered = 1 /\ a.total = 1 /\ a.unsupported = 0
        /\ b.covered = 0 /\ b.total = 1 /\ b.unsupported = 0
        /\ c.total = 0 /\ c.unsupported = 1 /\ d.total = 0 /\ d.unsupported = 0
    BY AmountsAre
  <2> HIDE DEF a, b, c, d, X
  <2>3. \A i : i \in Knowing(o) <=> i \in DOMAIN runs /\ Single(plan, runs[i], o) \in {a, b}
    BY <1>2, <2>1, <2>2 DEF Knowing
  <2>4. CASE a \in X \/ b \in X
    <3>1. Knowing(o) # {}
      BY <1>7, <2>3, <2>4
    <3>2. (\E i \in Knowing(o) : Single(plan, runs[i], o).covered > 0) <=> a \in X
      BY <1>6, <1>7, <2>2, <2>3
    <3>3. Best(o) = IF \E i \in Knowing(o) : Single(plan, runs[i], o).covered > 0
                    THEN a ELSE b
      BY <3>1 DEF Best, a, b
    <3> QED BY <2>1, <2>4, <3>2, <3>3
  <2>5. CASE a \notin X /\ b \notin X
    <3>1. Knowing(o) = {}
      BY <1>6, <2>3, <2>5
    <3>2. \A u \in X : u = c \/ u = d
      BY <1>3, <2>1, <2>5
    <3>3. CASE c \in X
      <4>1. \E i \in DOMAIN runs : Single(plan, runs[i], o).unsupported > 0
        BY <1>7, <2>2, <3>3
      <4>2. Best(o) = CHOOSE m \in {Single(plan, runs[i], o) : i \in DOMAIN runs} :
                        m.unsupported > 0
        BY <3>1, <4>1 DEF Best
      <4>3. \A m \in {Single(plan, runs[i], o) : i \in DOMAIN runs} :
              m.unsupported > 0 <=> m = c
        BY <1>6, <2>2, <3>2
      <4>4. c \in {Single(plan, runs[i], o) : i \in DOMAIN runs}
        BY <1>7, <3>3
      <4>5. Best(o) = c
        BY <4>2, <4>3, <4>4
      <4> QED BY <2>1, <2>5, <3>3, <4>5
    <3>4. CASE c \notin X
      <4>1. \A i \in DOMAIN runs : Single(plan, runs[i], o) = d
        BY <1>6, <3>2, <3>4
      <4>2. ~ \E i \in DOMAIN runs : Single(plan, runs[i], o).unsupported > 0
        BY <2>2, <4>1
      <4>3. Best(o) = Single(plan, runs[1], o)
        BY <3>1, <4>2 DEF Best
      <4> QED BY <1>3, <2>1, <2>5, <3>4, <4>1, <4>3
    <3> QED BY <3>3, <3>4
  <2> QED BY <2>4, <2>5
<1> QED BY <1>5, <1>8
-----------------------------------------------------------------------------
(* What is said of a decision in each of the states it can be in.          *)
States == {"unknown", "unsupported", "normal"}
DecisionTotal(o) == IF o[1] = "mcdc-unique" THEN 1 ELSE 2

(* Unless it is normal, the evaluations do not matter.                     *)
LEMMA DecisionUnitsAre ==
  ASSUME NEW pl, NEW o, o[1] \in {"decision", "condition", "mcdc-unique"}, NEW evaluations
  PROVE  /\ DecisionUnits(pl, o, "unknown", evaluations) = UnknownUnits(DecisionTotal(o))
         /\ DecisionUnits(pl, o, "unsupported", evaluations)
              = UnsupportedUnits(DecisionTotal(o))
         /\ DecisionUnits(pl, o, "normal", evaluations).total = DecisionTotal(o)
         /\ DecisionUnits(pl, o, "normal", evaluations).unsupported = 0
<1>1. \A c, n : /\ Units("unknown", c, n) = UnknownUnits(n)
                /\ Units("unsupported", c, n) = UnsupportedUnits(n)
                /\ Units("normal", c, n) = Known(c, n)
  BY DEF Units
<1>2. \A st \in States : \E c :
        DecisionUnits(pl, o, st, evaluations) = Units(st, c, DecisionTotal(o))
  BY DEF DecisionUnits, DecisionTotal
<1>3. \A c, n : Known(c, n).total = n /\ Known(c, n).unsupported = 0
  BY DEF Known, Nothing
<1> QED BY <1>1, <1>2, <1>3 DEF States

(* Where a package is listed, or nothing of the execution counts, the      *)
(* union takes its decisions for what its own analysis takes them.         *)
LEMMA SourceStateIs ==
  ASSUME NEW pl, NEW run, NEW d,
         pl[d].package \in DOMAIN run.packages \/ Rejects(run, "ast")
  PROVE  SourceDecisionState(pl, run, d)
           = DecisionState(pl, run, d, AstStatusOf(run, pl[d].package,
                                                   StatusOf(run, pl[d].package)))
<1>1. CASE pl[d].package \in DOMAIN run.packages
  BY <1>1 DEF SourceDecisionState, ListedStatus, StatusOf
<1>2. CASE Rejects(run, "ast")
  <2>1. \A status : DecisionState(pl, run, d, status) = "unknown"
    BY <1>2 DEF DecisionState, StateOfEntity, Unavailable
  <2> QED BY <2>1 DEF SourceDecisionState
<1> QED BY <1>1, <1>2

(* Of a decision the union knows what the executions that know it tell.    *)
LEMMA KnowingIsBest ==
  ASSUME RunsInv, NEW o \in Obligations(plan), plan[o[2]].type = "decision",
         Listed(plan[o[2]])
  PROVE  Report(plan, runs)[o] = Best(o)
<1> DEFINE d == o[2]
           p == plan[d].package
           n == DecisionTotal(o)
           state(i) == SourceDecisionState(plan, runs[i], d)
           single(i) == Single(plan, runs[i], o)
<1>1. /\ GoodRuns(runs) /\ DOMAIN runs = 1..Len(runs) /\ Len(runs) \in Nat /\ Len(runs) >= 1
      /\ \A e \in DOMAIN plan : plan[e].type \in Types
  BY RunsAreGood DEF RunsInv
<1>2. o[1] \in {"decision", "condition", "mcdc-unique"}
  BY <1>1, ObligationIs
<1>3. \A i \in DOMAIN runs : single(i) = DecisionUnits(plan, o, state(i),
                                                       EvaluationsOf(runs[i], d))
  <2>1. ASSUME NEW i \in DOMAIN runs
        PROVE  single(i) = DecisionUnits(plan, o, state(i), EvaluationsOf(runs[i], d))
    <3>1. state(i) = DecisionState(plan, runs[i], d,
                                   AstStatusOf(runs[i], p, StatusOf(runs[i], p)))
      BY SourceStateIs DEF Listed
    <3>2. single(i) = DecisionUnits(plan, o,
                        DecisionState(plan, runs[i], d,
                                      AstStatusOf(runs[i], p, StatusOf(runs[i], p))),
                        EvaluationsOf(runs[i], d))
      BY <1>2 DEF Single
    <3> QED BY <3>1, <3>2
  <2> QED BY <2>1
<1>4. \A i : state(i) \in States
  BY DEF SourceDecisionState, DecisionState, StateOfEntity, States
<1>5. n \in {1, 2}
  BY DEF DecisionTotal
<1>6. 1 \in DOMAIN runs
  BY <1>1
<1>7. Report(plan, runs)[o]
        = IF Len(runs) = 1 THEN single(1)
          ELSE DecisionUnits(plan, o, UnionDecisionState(plan, runs, d),
                             UnionEvaluations(plan, runs, d))
  BY DEF Report, Merged
<1>8. Len(runs) = 1 => DOMAIN runs = {1}
  BY <1>1
<1>9. Best(o) = IF Knowing(o) # {}
                THEN DecisionUnits(plan, o, "normal", FromKnowing(o))
                ELSE IF \E i \in DOMAIN runs : single(i).unsupported > 0
                THEN CHOOSE m \in {single(i) : i \in DOMAIN runs} : m.unsupported > 0
                ELSE single(1)
  BY DEF Best
<1>10. UnionDecisionState(plan, runs, d)
         = IF \E i \in DOMAIN runs : state(i) = "normal" THEN "normal"
           ELSE IF \E i \in DOMAIN runs : state(i) = "unsupported" THEN "unsupported"
           ELSE "unknown"
  BY DEF UnionDecisionState
<1>11. \A i : i \in Knowing(o) <=> i \in DOMAIN runs /\ single(i).total > 0
  BY DEF Knowing
<1>12. UnionEvaluations(plan, runs, d)
         = UNION {EvaluationsOf(runs[i], d) : i \in {k \in DOMAIN runs : state(k) = "normal"}}
  BY DEF UnionEvaluations
<1>13. FromKnowing(o) = UNION {EvaluationsOf(runs[i], d) : i \in Knowing(o)}
  BY DEF FromKnowing
<1>14. \A ev : /\ DecisionUnits(plan, o, "unknown", ev) = UnknownUnits(n)
               /\ DecisionUnits(plan, o, "unsupported", ev) = UnsupportedUnits(n)
               /\ DecisionUnits(plan, o, "normal", ev).total = n
               /\ DecisionUnits(plan, o, "normal", ev).unsupported = 0
  BY <1>2, DecisionUnitsAre
<1>15. /\ UnknownUnits(n).total = 0 /\ UnknownUnits(n).unsupported = 0
       /\ UnsupportedUnits(n).total = 0 /\ UnsupportedUnits(n).unsupported = n
  BY DEF UnknownUnits, UnsupportedUnits, Nothing
<1> HIDE DEF n, state, single, d
<1>16. \A i \in DOMAIN runs :
         /\ state(i) = "normal" <=> single(i).total > 0
         /\ state(i) = "unsupported" <=> single(i).unsupported > 0
         /\ state(i) = "unsupported" => single(i) = UnsupportedUnits(n)
         /\ state(i) = "unknown" => single(i) = UnknownUnits(n)
  BY <1>3, <1>4, <1>5, <1>14, <1>15 DEF States
<1>17. Knowing(o) = {k \in DOMAIN runs : state(k) = "normal"}
  BY <1>11, <1>16
<1>18. UnionEvaluations(plan, runs, d) = FromKnowing(o)
  BY <1>12, <1>13, <1>17
<1>19. CASE Knowing(o) # {}
  <2>1. Best(o) = DecisionUnits(plan, o, "normal", FromKnowing(o))
    BY <1>9, <1>19
  <2>2. UnionDecisionState(plan, runs, d) = "normal"
    BY <1>10, <1>17, <1>19
  <2>3. CASE Len(runs) = 1
    <3>1. Knowing(o) = {1} /\ state(1) = "normal"
      BY <1>8, <1>17, <1>19, <2>3
    <3>2. FromKnowing(o) = EvaluationsOf(runs[1], d)
      BY <1>13, <3>1
    <3> QED BY <1>3, <1>6, <1>7, <2>1, <2>3, <3>1, <3>2
  <2>4. CASE Len(runs) # 1
    BY <1>7, <1>18, <2>1, <2>2, <2>4
  <2> QED BY <2>3, <2>4
<1>20. CASE Knowing(o) = {} /\ \E i \in DOMAIN runs : state(i) = "unsupported"
  <2> DEFINE singles == {single(i) : i \in DOMAIN runs}
  <2>1. Best(o) = CHOOSE m \in singles : m.unsupported > 0
    BY <1>9, <1>16, <1>20
  <2>2. UnsupportedUnits(n) \in singles
    BY <1>16, <1>20
  <2>3. \A m \in singles : m.unsupported > 0 <=> m = UnsupportedUnits(n)
    BY <1>5, <1>15, <1>16
  <2>4. Best(o) = UnsupportedUnits(n)
    <3> HIDE DEF singles
    <3> QED BY <2>1, <2>2, <2>3
  <2>5. UnionDecisionState(plan, runs, d) = "unsupported"
    BY <1>10, <1>17, <1>20
  <2>6. Len(runs) = 1 => single(1) = UnsupportedUnits(n)
    BY <1>8, <1>16, <1>20
  <2> QED BY <1>7, <1>14, <2>4, <2>5, <2>6
<1>21. CASE Knowing(o) = {} /\ ~ \E i \in DOMAIN runs : state(i) = "unsupported"
  <2>1. \A i \in DOMAIN runs : state(i) = "unknown" /\ single(i) = UnknownUnits(n)
    BY <1>4, <1>16, <1>17, <1>21 DEF States
  <2>2. Best(o) = single(1)
    BY <1>9, <1>15, <1>21, <2>1
  <2>3. UnionDecisionState(plan, runs, d) = "unknown"
    BY <1>10, <2>1
  <2> QED BY <1>6, <1>7, <1>14, <2>1, <2>2, <2>3
<1> QED BY <1>19, <1>20, <1>21

(* Every obligation is as well known in the union as in the execution that *)
(* knows most of it, whatever the executions, and however many.            *)
THEOREM OfflineUnionIsBest == Spec => []UnionIsBest
<1>1. RunsInv => UnionIsBest
  BY HighestIsBest, KnowingIsBest DEF UnionIsBest
<1> QED BY <1>1, RunsInvInductive, PTL
-----------------------------------------------------------------------------
(***************************************************************************)
(* Sums over sets of obligations: a sum adds one of them, whichever CHOOSE *)
(* picks, to the sum over the others.                                      *)
(***************************************************************************)
Summaries == [covered : Nat, total : Nat, unsupported : Nat, unknown : Nat]

One(T) == CHOOSE o \in T : TRUE

IsSum(f, S, g) ==
  g = [T \in SUBSET S |-> IF T = {} THEN Nothing ELSE Add(f[One(T)], g[T \ {One(T)}])]

SumOf(f, S) ==
  MapThenFoldSet(Add, Nothing, LAMBDA o : f[o], LAMBDA T : CHOOSE o \in T : TRUE, S)

(* Some member of a set that is not empty, and what is left.               *)
LEMMA OneIs ==
  ASSUME NEW S, IsFiniteSet(S), NEW T \in SUBSET S, T # {}
  PROVE  /\ One(T) \in T /\ T \ {One(T)} \in SUBSET S
         /\ Cardinality(T) \in Nat /\ Cardinality(T) # 0
         /\ Cardinality(T \ {One(T)}) = Cardinality(T) - 1
<1>1. One(T) \in T
  BY DEF One
<1>2. IsFiniteSet(T)
  BY FS_Subset
<1>3. Cardinality(T) \in Nat
  BY <1>2, FS_CardinalityType
<1>4. Cardinality(T) # 0
  BY <1>2, FS_EmptySet
<1>5. Cardinality(T \ {One(T)}) = Cardinality(T) - 1
  BY <1>1, <1>2, FS_RemoveElement
<1> QED BY <1>1, <1>3, <1>4, <1>5

(* There is a function of all sums.                                        *)
LEMMA SumExists ==
  ASSUME NEW S, IsFiniteSet(S), NEW f
  PROVE  \E g : IsSum(f, S, g)
<1> DEFINE Small(k) == {T \in SUBSET S : Cardinality(T) <= k}
           Sums(k, g) == g = [T \in Small(k) |-> IF T = {} THEN Nothing
                                                 ELSE Add(f[One(T)], g[T \ {One(T)}])]
           P(k) == \E g : Sums(k, g)
           K == {k \in Nat : P(k)}
<1>1. P(0)
  <2>1. ASSUME NEW T \in Small(0) PROVE T = {}
    <3>1. T # {} => Cardinality(T) \in Nat /\ Cardinality(T) # 0
      BY OneIs
    <3> QED BY <3>1
  <2> DEFINE g == [T \in Small(0) |-> Nothing]
  <2>2. \A T \in Small(0) : g[T] = IF T = {} THEN Nothing
                                   ELSE Add(f[One(T)], g[T \ {One(T)}])
    BY <2>1
  <2>3. Sums(0, g)
    <3> HIDE DEF Small
    <3> QED BY <2>1
  <2> QED BY <2>3
<1>2. ASSUME NEW k \in Nat, P(k)
      PROVE  P(k + 1)
  <2>1. PICK g : Sums(k, g)
    BY <1>2
  <2> DEFINE h == [T \in Small(k + 1) |-> IF T = {} THEN Nothing
                                          ELSE Add(f[One(T)], g[T \ {One(T)}])]
  <2>2. ASSUME NEW T \in Small(k + 1), T # {}
        PROVE  T \ {One(T)} \in Small(k)
    BY <2>2, OneIs
  <2>3. Small(k) \subseteq Small(k + 1)
    <3>1. \A T \in SUBSET S : Cardinality(T) \in Nat
      BY FS_Subset, FS_CardinalityType
    <3> QED BY <3>1
  <2> HIDE DEF Small
  <2>4. ASSUME NEW T \in Small(k)
        PROVE  h[T] = g[T]
    <3>1. h[T] = IF T = {} THEN Nothing ELSE Add(f[One(T)], g[T \ {One(T)}])
      BY <2>3
    <3>2. g[T] = IF T = {} THEN Nothing ELSE Add(f[One(T)], g[T \ {One(T)}])
      BY <2>1
    <3> QED BY <3>1, <3>2
  <2>5. ASSUME NEW T \in Small(k + 1)
        PROVE  h[T] = IF T = {} THEN Nothing ELSE Add(f[One(T)], h[T \ {One(T)}])
    <3>1. T # {} => h[T \ {One(T)}] = g[T \ {One(T)}]
      BY <2>2, <2>4
    <3> QED BY <3>1
  <2>6. h = [T \in Small(k + 1) |-> h[T]]
    OBVIOUS
  <2>7. Sums(k + 1, h)
    <3> HIDE DEF h
    <3> QED BY <2>5, <2>6
  <2> QED BY <2>7
<1>3. K \in SUBSET Nat /\ 0 \in K /\ \A k \in K : k + 1 \in K
  <2> HIDE DEF P
  <2> QED BY <1>1, <1>2
<1>4. K = Nat
  <2> HIDE DEF K
  <2> QED BY <1>3, SetInduction
<1>5. Cardinality(S) \in Nat
  BY FS_CardinalityType
<1>6. P(Cardinality(S))
  <2> HIDE DEF P
  <2> QED BY <1>4, <1>5
<1>7. Small(Cardinality(S)) = SUBSET S
  BY FS_Subset
<1> QED BY <1>6, <1>7 DEF IsSum

(* A sum is the value of such a function.                                 *)
LEMMA SumIs ==
  ASSUME NEW S, IsFiniteSet(S), NEW f
  PROVE  \E g : IsSum(f, S, g) /\ SumOf(f, S) = g[S]
<1> DEFINE h == CHOOSE g : IsSum(f, S, g)
<1>1. SumOf(f, S) = h[S]
  BY Zenon DEF SumOf, MapThenFoldSet, One, IsSum
<1>2. IsSum(f, S, h)
  BY SumExists
<1> QED BY <1>1, <1>2

(***************************************************************************)
(* What one more execution does to what was known for good: the total      *)
(* stays, and what is covered does not get less.                           *)
(***************************************************************************)
Grows(u, v) ==
  /\ u \in Summaries /\ v \in Summaries
  /\ u.unknown = 0 /\ u.unsupported = 0 =>
       v.unknown = 0 /\ v.unsupported = 0 /\ v.total = u.total /\ v.covered >= u.covered

(* The sum of two that grow grows.                                         *)
LEMMA AddGrows ==
  ASSUME NEW u1, NEW v1, NEW u2, NEW v2, Grows(u1, v1), Grows(u2, v2)
  PROVE  Grows(Add(u1, u2), Add(v1, v2))
BY DEF Grows, Add, Summaries

(* A sum over growing units grows.                                         *)
LEMMA SumGrows ==
  ASSUME NEW S, IsFiniteSet(S), NEW r, NEW q, \A o \in S : Grows(r[o], q[o])
  PROVE  Grows(SumOf(r, S), SumOf(q, S))
<1>1. PICK f : IsSum(r, S, f) /\ SumOf(r, S) = f[S]
  BY SumIs
<1>2. PICK g : IsSum(q, S, g) /\ SumOf(q, S) = g[S]
  BY SumIs
<1> DEFINE P(k) == \A T \in SUBSET S : Cardinality(T) = k => Grows(f[T], g[T])
           K == {k \in Nat : P(k)}
<1>3. Grows(Nothing, Nothing)
  BY DEF Grows, Nothing, Summaries
<1>4. P(0)
  <2>1. \A T \in SUBSET S : Cardinality(T) = 0 => T = {}
    BY FS_Subset, FS_EmptySet
  <2>2. f[{}] = Nothing /\ g[{}] = Nothing
    BY <1>1, <1>2 DEF IsSum
  <2> QED BY <1>3, <2>1, <2>2
<1>5. ASSUME NEW k \in Nat, P(k)
      PROVE  P(k + 1)
  <2>1. SUFFICES ASSUME NEW T \in SUBSET S, Cardinality(T) = k + 1
                 PROVE  Grows(f[T], g[T])
    OBVIOUS
  <2>2. T # {}
    BY <2>1, FS_EmptySet
  <2>3. /\ One(T) \in S /\ T \ {One(T)} \in SUBSET S
        /\ Cardinality(T \ {One(T)}) = k
    BY <2>1, <2>2, OneIs
  <2>4. /\ f[T] = Add(r[One(T)], f[T \ {One(T)}])
        /\ g[T] = Add(q[One(T)], g[T \ {One(T)}])
    BY <1>1, <1>2, <2>2 DEF IsSum
  <2>5. Grows(f[T \ {One(T)}], g[T \ {One(T)}])
    BY <1>5, <2>3
  <2> QED BY <2>3, <2>4, <2>5, AddGrows
<1>6. K \in SUBSET Nat /\ 0 \in K /\ \A k \in K : k + 1 \in K
  <2> HIDE DEF P
  <2> QED BY <1>4, <1>5
<1>7. K = Nat
  <2> HIDE DEF K
  <2> QED BY <1>6, SetInduction
<1>8. Cardinality(S) \in Nat
  BY FS_CardinalityType
<1>9. P(Cardinality(S))
  <2> HIDE DEF P
  <2> QED BY <1>7, <1>8
<1> QED BY <1>1, <1>2, <1>9

(* Units are counted by natural numbers.                                   *)
LEMMA UnitsAre ==
  ASSUME NEW m \in Nat, NEW n \in Nat
  PROVE  /\ Known(m, n) \in Summaries
         /\ UnknownUnits(n) \in Summaries /\ UnsupportedUnits(n) \in Summaries
<1>1. \A u \in Summaries, k \in Nat : /\ [u EXCEPT !.covered = k] \in Summaries
                                      /\ [u EXCEPT !.total = k] \in Summaries
                                      /\ [u EXCEPT !.unsupported = k] \in Summaries
                                      /\ [u EXCEPT !.unknown = k] \in Summaries
  BY DEF Summaries
<1>2. Nothing \in Summaries
  BY DEF Nothing, Summaries
<1>3. UnknownUnits(n) \in Summaries /\ UnsupportedUnits(n) \in Summaries
  BY <1>1, <1>2 DEF UnknownUnits, UnsupportedUnits
<1>4. Known(m, n) \in Summaries
  <2> DEFINE u == [Nothing EXCEPT !.covered = m]
  <2>1. u \in Summaries
    BY <1>1, <1>2
  <2>2. Known(m, n) = [u EXCEPT !.total = n]
    BY Zenon DEF Known
  <2> HIDE DEF u
  <2> QED BY <1>1, <2>1, <2>2
<1> QED BY <1>3, <1>4

(* What is told of anything but a decision grows.                          *)
LEMMA HighestGrows ==
  ASSUME NEW pl, \A e \in DOMAIN pl : pl[e].type \in Types,
         NEW rs, NEW ss, GoodRuns(rs), GoodRuns(ss), Among(rs, ss),
         NEW o \in Obligations(pl), pl[o[2]].type # "decision"
  PROVE  Grows(Report(pl, rs)[o], Report(pl, ss)[o])
<1> DEFINE X == UnitsIn(pl, o, rs)
           Y == UnitsIn(pl, o, ss)
           a == Known(1, 1)
           b == Known(0, 1)
           c == UnsupportedUnits(1)
           d == UnknownUnits(1)
<1>1. X \subseteq Y
  BY DEF Among, UnitsIn
<1>2. Report(pl, rs)[o] = Highest(X) /\ Report(pl, ss)[o] = Highest(Y)
  BY ReportIsHighest
<1>3. \A Z : Highest(Z) = IF a \in Z THEN a ELSE IF b \in Z THEN b ELSE IF c \in Z THEN c ELSE d
  BY DEF Highest
<1>4. \A u \in {a, b, c, d} : u \in Summaries
  BY UnitsAre
<1>5. /\ a.covered = 1 /\ a.total = 1 /\ a.unsupported = 0 /\ a.unknown = 0
      /\ b.covered = 0 /\ b.total = 1 /\ b.unsupported = 0 /\ b.unknown = 0
      /\ c.unsupported = 1 /\ d.unknown = 1
  BY DEF Known, UnsupportedUnits, UnknownUnits, Nothing
<1> HIDE DEF a, b, c, d, X, Y
<1>6. Grows(Highest(X), Highest(Y))
  <2>1. Highest(X) \in Summaries /\ Highest(Y) \in Summaries
    BY <1>3, <1>4
  <2>2. CASE a \in X
    <3>1. Highest(X) = a /\ Highest(Y) = a
      BY <1>1, <1>3, <2>2
    <3> QED BY <1>5, <2>1, <3>1 DEF Grows
  <2>3. CASE a \notin X /\ b \in X
    <3>1. Highest(X) = b /\ (Highest(Y) = a \/ Highest(Y) = b)
      BY <1>1, <1>3, <2>3
    <3> QED BY <1>5, <2>1, <3>1 DEF Grows
  <2>4. CASE a \notin X /\ b \notin X
    <3>1. Highest(X) = c \/ Highest(X) = d
      BY <1>3, <2>4
    <3> QED BY <1>5, <2>1, <3>1 DEF Grows
  <2> QED BY <2>2, <2>3, <2>4
<1> QED BY <1>2, <1>6

(* The values of a function on a finite set are finitely many.             *)
LEMMA ImageIsFinite ==
  ASSUME NEW S, IsFiniteSet(S), NEW f
  PROVE  IsFiniteSet({f[x] : x \in S})
<1> DEFINE T == {f[x] : x \in S}
           g == [x \in S |-> f[x]]
<1>1. g \in Surjection(S, T)
  BY DEF Surjection
<1> HIDE DEF T
<1>3. IsFiniteSet(T)
  BY <1>1, FS_Surjection
<1> QED BY <1>3 DEF T

(* What is covered of a decision: outcomes or a pair.                      *)
Count(tree, o, evaluations) ==
  IF o[1] = "decision" THEN Cardinality(Outcomes(tree, evaluations))
  ELSE IF o[1] = "condition" THEN Cardinality(ConditionOutcomes(o[3], evaluations))
  ELSE IF PairCovers(tree, o[3], evaluations) THEN 1 ELSE 0

(* In every state it is told in the same number of units.                  *)
LEMMA CountIs ==
  ASSUME NEW pl, NEW o, o[1] \in {"decision", "condition", "mcdc-unique"}, NEW st,
         NEW evaluations
  PROVE  DecisionUnits(pl, o, st, evaluations)
           = Units(st, Count(pl[o[2]].tree, o, evaluations), DecisionTotal(o))
BY DEF DecisionUnits, Count, DecisionTotal

(* More evaluations cover no less.                                         *)
LEMMA CountGrows ==
  ASSUME NEW tree, NEW o, NEW E, NEW F, IsFiniteSet(F), E \subseteq F
  PROVE  /\ Count(tree, o, E) \in Nat /\ Count(tree, o, F) \in Nat
         /\ Count(tree, o, E) <= Count(tree, o, F)
<1>1. Completed(E) \subseteq Completed(F) /\ IsFiniteSet(Completed(F))
  <2>1. Completed(E) \subseteq Completed(F) /\ Completed(F) \subseteq F
    BY DEF Completed
  <2> QED BY <2>1, FS_Subset
<1>2. ASSUME NEW X, NEW Y, IsFiniteSet(Y), X \subseteq Y
      PROVE  Cardinality(X) \in Nat /\ Cardinality(Y) \in Nat /\ Cardinality(X) <= Cardinality(Y)
  BY <1>2, FS_Subset, FS_CardinalityType
<1>3. IsFiniteSet(Outcomes(tree, F)) /\ Outcomes(tree, E) \subseteq Outcomes(tree, F)
  <2> DEFINE f == [v \in Completed(F) |-> ResultOf(tree, v.states)]
  <2>1. IsFiniteSet({f[v] : v \in Completed(F)})
    <3> HIDE DEF f
    <3> QED BY <1>1, ImageIsFinite
  <2>2. {f[v] : v \in Completed(F)} = Outcomes(tree, F)
    BY DEF Outcomes
  <2> QED BY <1>1, <2>1, <2>2 DEF Outcomes
<1>4. /\ IsFiniteSet(ConditionOutcomes(o[3], F))
      /\ ConditionOutcomes(o[3], E) \subseteq ConditionOutcomes(o[3], F)
  <2> DEFINE f == [v \in Completed(F) |-> v.states[o[3]]]
             V == {f[v] : v \in Completed(F)}
  <2>1. IsFiniteSet(V)
    <3> HIDE DEF f
    <3> QED BY <1>1, ImageIsFinite
  <2>2. ConditionOutcomes(o[3], F) \in SUBSET V
    BY DEF ConditionOutcomes
  <2>3. ConditionOutcomes(o[3], E) \subseteq ConditionOutcomes(o[3], F)
    BY <1>1 DEF ConditionOutcomes
  <2> HIDE DEF V
  <2> QED BY <2>1, <2>2, <2>3, FS_Subset
<1>5. PairCovers(tree, o[3], E) => PairCovers(tree, o[3], F)
  BY <1>1 DEF PairCovers
<1>6. CASE o[1] = "decision"
  <2>1. /\ Count(tree, o, E) = Cardinality(Outcomes(tree, E))
        /\ Count(tree, o, F) = Cardinality(Outcomes(tree, F))
    BY <1>6 DEF Count
  <2> QED BY <1>2, <1>3, <2>1
<1>7. CASE o[1] = "condition"
  <2>1. /\ Count(tree, o, E) = Cardinality(ConditionOutcomes(o[3], E))
        /\ Count(tree, o, F) = Cardinality(ConditionOutcomes(o[3], F))
    BY <1>7 DEF Count
  <2> QED BY <1>2, <1>4, <2>1
<1>8. CASE o[1] \notin {"decision", "condition"}
  BY <1>5, <1>8 DEF Count
<1> QED BY <1>6, <1>7, <1>8

(* Of a decision only units in the normal state are known for good.        *)
LEMMA KnownIsNormal ==
  ASSUME NEW pl, NEW o, o[1] \in {"decision", "condition", "mcdc-unique"}, NEW st \in States,
         NEW E, IsFiniteSet(E)
  PROVE  /\ DecisionUnits(pl, o, st, E) \in Summaries
         /\ DecisionUnits(pl, o, st, E).unknown = 0
              /\ DecisionUnits(pl, o, st, E).unsupported = 0 => st = "normal"
<1> DEFINE n == DecisionTotal(o)
           k == Count(pl[o[2]].tree, o, E)
<1>1. k \in Nat
  BY CountGrows
<1>2. n \in Nat /\ n > 0
  BY DEF DecisionTotal
<1>3. DecisionUnits(pl, o, st, E) = Units(st, k, n)
  BY CountIs
<1> HIDE DEF n, k
<1>4. /\ st = "unknown" => Units(st, k, n) = UnknownUnits(n)
      /\ st = "unsupported" => Units(st, k, n) = UnsupportedUnits(n)
      /\ st = "normal" => Units(st, k, n) = Known(k, n)
  BY DEF Units
<1>5. UnknownUnits(n).unknown = n /\ UnsupportedUnits(n).unsupported = n
  BY DEF UnknownUnits, UnsupportedUnits, Nothing
<1> QED BY <1>1, <1>2, <1>3, <1>4, <1>5, UnitsAre DEF States

(* What an execution knows of a decision by itself, the union takes.       *)
LEMMA NormalStays ==
  ASSUME NEW pl, NEW run, NEW d, GoodRun(run),
         DecisionState(pl, run, d, AstStatusOf(run, pl[d].package,
                                               StatusOf(run, pl[d].package))) = "normal"
  PROVE  SourceDecisionState(pl, run, d) = "normal"
<1> DEFINE p == pl[d].package
<1>1. PackageUnknown(AstStatusOf(run, p, ListedStatus(run, p)), RunsAst(pl, run, p))
        => PackageUnknown(AstStatusOf(run, p, StatusOf(run, p)), RunsAst(pl, run, p))
  BY DEF PackageUnknown, AstStatusOf, ListedStatus, StatusOf
<1> QED BY <1>1 DEF SourceDecisionState, DecisionState, StateOfEntity, Unavailable

(* The evaluations of all executions are finitely many.                    *)
LEMMA UnionIsFinite ==
  ASSUME NEW pl, NEW rs, GoodRuns(rs), NEW d
  PROVE  IsFiniteSet(UnionEvaluations(pl, rs, d))
<1> DEFINE I == {k \in DOMAIN rs : SourceDecisionState(pl, rs[k], d) = "normal"}
           f == [i \in I |-> EvaluationsOf(rs[i], d)]
           T == {f[i] : i \in I}
<1>1. IsFiniteSet(I)
  <2>1. PICK S : rs \in Seq(S)
    BY DEF GoodRuns
  <2>2. DOMAIN rs = 1..Len(rs) /\ Len(rs) \in Nat
    BY <2>1
  <2>3. IsFiniteSet(DOMAIN rs) /\ I \in SUBSET (DOMAIN rs)
    BY <2>2, FS_Interval
  <2> HIDE DEF I
  <2> QED BY <2>3, FS_Subset
<1>2. \A i \in I : IsFiniteSet(EvaluationsOf(rs[i], d))
  <2>1. \A i \in I : IsFiniteSet(rs[i].evaluations)
    BY DEF GoodRuns, GoodRun
  <2>2. \A i \in I : EvaluationsOf(rs[i], d) \in SUBSET rs[i].evaluations
    BY DEF EvaluationsOf
  <2> QED BY <2>1, <2>2, FS_Subset
<1>3. IsFiniteSet(T)
  <2> HIDE DEF I, f
  <2> QED BY <1>1, ImageIsFinite
<1>4. \A t \in T : IsFiniteSet(t)
  BY <1>2
<1>5. IsFiniteSet(UNION T)
  <2> HIDE DEF T
  <2> QED BY <1>3, <1>4, FS_UNION
<1>6. UnionEvaluations(pl, rs, d) = UNION T
  BY DEF UnionEvaluations
<1> QED BY <1>5, <1>6

(* What is told of a decision grows.                                       *)
LEMMA DecisionGrows ==
  ASSUME NEW pl, \A e \in DOMAIN pl : pl[e].type \in Types,
         NEW rs, NEW ss, GoodRuns(rs), GoodRuns(ss), Among(rs, ss), Len(ss) # 1,
         NEW o \in Obligations(pl), pl[o[2]].type = "decision"
  PROVE  Grows(Report(pl, rs)[o], Report(pl, ss)[o])
<1> DEFINE d == o[2]
           n == DecisionTotal(o)
           own == DecisionState(pl, rs[1], d, AstStatusOf(rs[1], pl[d].package,
                                                          StatusOf(rs[1], pl[d].package)))
           st == IF Len(rs) = 1 THEN own ELSE UnionDecisionState(pl, rs, d)
           E == IF Len(rs) = 1 THEN EvaluationsOf(rs[1], d) ELSE UnionEvaluations(pl, rs, d)
           st2 == UnionDecisionState(pl, ss, d)
           F == UnionEvaluations(pl, ss, d)
<1>1. o[1] \in {"decision", "condition", "mcdc-unique"}
  BY ObligationIs
<1>2. 1 \in DOMAIN rs
  <2>1. PICK S : rs \in Seq(S) /\ Len(rs) >= 1
    BY DEF GoodRuns
  <2> QED BY <2>1
<1>3. Report(pl, rs)[o] = DecisionUnits(pl, o, st, E)
  <2>1. Report(pl, rs)[o]
          = IF Len(rs) = 1 THEN Single(pl, rs[1], o) ELSE Merged(pl, rs, o)
    BY DEF Report
  <2>2. Single(pl, rs[1], o) = DecisionUnits(pl, o, own, EvaluationsOf(rs[1], d))
    BY <1>1 DEF Single
  <2>3. Merged(pl, rs, o) = DecisionUnits(pl, o, UnionDecisionState(pl, rs, d),
                                          UnionEvaluations(pl, rs, d))
    BY DEF Merged
  <2> QED BY <2>1, <2>2, <2>3
<1>4. Report(pl, ss)[o] = DecisionUnits(pl, o, st2, F)
  BY DEF Report, Merged
<1>5. st \in States /\ st2 \in States
  BY DEF UnionDecisionState, DecisionState, StateOfEntity, States
<1>6. IsFiniteSet(E) /\ IsFiniteSet(F)
  <2>1. IsFiniteSet(rs[1].evaluations) /\ EvaluationsOf(rs[1], d) \in SUBSET rs[1].evaluations
    BY <1>2 DEF GoodRuns, GoodRun, EvaluationsOf
  <2>2. IsFiniteSet(EvaluationsOf(rs[1], d))
    BY <2>1, FS_Subset
  <2> QED BY <2>2, UnionIsFinite
<1>7. ASSUME st = "normal"
      PROVE  st2 = "normal" /\ E \subseteq F
  <2>1. ASSUME NEW i \in DOMAIN rs, SourceDecisionState(pl, rs[i], d) = "normal"
        PROVE  st2 = "normal" /\ EvaluationsOf(rs[i], d) \subseteq F
    <3>1. PICK j \in DOMAIN ss : rs[i] = ss[j]
      BY DEF Among
    <3>2. SourceDecisionState(pl, ss[j], d) = "normal"
      BY <2>1, <3>1
    <3>3. st2 = "normal"
      BY <3>2 DEF UnionDecisionState
    <3>4. EvaluationsOf(ss[j], d) \subseteq F
      BY <3>2 DEF UnionEvaluations
    <3> QED BY <3>1, <3>3, <3>4
  <2>2. CASE Len(rs) = 1
    <3>1. SourceDecisionState(pl, rs[1], d) = "normal"
      BY <1>2, <1>7, <2>2, NormalStays DEF GoodRuns
    <3> QED BY <1>2, <2>1, <2>2, <3>1
  <2>3. CASE Len(rs) # 1
    <3>1. UnionDecisionState(pl, rs, d) = "normal"
      BY <1>7, <2>3
    <3>2. \E i \in DOMAIN rs : SourceDecisionState(pl, rs[i], d) = "normal"
      BY <3>1 DEF UnionDecisionState
    <3>3. UnionEvaluations(pl, rs, d) \subseteq F
      <4> HIDE DEF F
      <4> QED BY <2>1 DEF UnionEvaluations
    <3> QED BY <2>1, <2>3, <3>2, <3>3
  <2> QED BY <2>2, <2>3
<1> HIDE DEF n, own, st, E, st2, F
<1>8. ASSUME st = "normal"
      PROVE  Grows(DecisionUnits(pl, o, st, E), DecisionUnits(pl, o, st2, F))
  <2> DEFINE k == Count(pl[d].tree, o, E)
             m == Count(pl[d].tree, o, F)
  <2>1. k \in Nat /\ m \in Nat /\ k <= m
    BY <1>6, <1>7, <1>8, CountGrows
  <2>2. DecisionUnits(pl, o, st, E) = Units("normal", k, n)
        /\ DecisionUnits(pl, o, st2, F) = Units("normal", m, n)
    BY <1>1, <1>7, <1>8, CountIs DEF n
  <2> HIDE DEF k, m
  <2>3. DecisionUnits(pl, o, st, E) = Known(k, n) /\ DecisionUnits(pl, o, st2, F) = Known(m, n)
    BY <2>2 DEF Units
  <2>4. n \in Nat
    BY DEF n, DecisionTotal
  <2>5. Known(k, n) \in Summaries /\ Known(m, n) \in Summaries
    BY <2>1, <2>4, UnitsAre
  <2>6. /\ Known(m, n).unknown = 0 /\ Known(m, n).unsupported = 0
        /\ Known(m, n).total = n /\ Known(m, n).covered = m
        /\ Known(k, n).total = n /\ Known(k, n).covered = k
    BY DEF Known, Nothing
  <2> QED BY <2>1, <2>3, <2>5, <2>6 DEF Grows
<1>9. ASSUME st # "normal"
      PROVE  Grows(DecisionUnits(pl, o, st, E), DecisionUnits(pl, o, st2, F))
  <2>1. /\ DecisionUnits(pl, o, st, E) \in Summaries
        /\ ~ (/\ DecisionUnits(pl, o, st, E).unknown = 0
              /\ DecisionUnits(pl, o, st, E).unsupported = 0)
    BY <1>1, <1>5, <1>6, <1>9, KnownIsNormal
  <2>2. DecisionUnits(pl, o, st2, F) \in Summaries
    BY <1>1, <1>5, <1>6, KnownIsNormal
  <2> QED BY <2>1, <2>2 DEF Grows
<1> QED BY <1>3, <1>4, <1>8, <1>9

(* So does every metric of the summary.                                    *)
LEMMA SummaryGrows ==
  ASSUME NEW pl, \A e \in DOMAIN pl : pl[e].type \in Types, IsFiniteSet(Obligations(pl)),
         NEW rs, NEW ss, GoodRuns(rs), GoodRuns(ss), Among(rs, ss), Len(ss) # 1,
         NEW m \in DOMAIN Summary(pl, rs)
  PROVE  m \in DOMAIN Summary(pl, ss) /\ Grows(Summary(pl, rs)[m], Summary(pl, ss)[m])
<1> DEFINE S == {o \in Obligations(pl) : MetricOf(pl, o) = m}
<1>1. \A o \in Obligations(pl) : Grows(Report(pl, rs)[o], Report(pl, ss)[o])
  BY HighestGrows, DecisionGrows
<1>2. /\ Summary(pl, rs) = [k \in {MetricOf(pl, o) : o \in DOMAIN Report(pl, rs)} |->
           SumOf(Report(pl, rs), {o \in DOMAIN Report(pl, rs) : MetricOf(pl, o) = k})]
      /\ Summary(pl, ss) = [k \in {MetricOf(pl, o) : o \in DOMAIN Report(pl, ss)} |->
           SumOf(Report(pl, ss), {o \in DOMAIN Report(pl, ss) : MetricOf(pl, o) = k})]
  BY Zenon DEF Summary, SummaryOf, SumOf
<1>3. DOMAIN Report(pl, rs) = Obligations(pl) /\ DOMAIN Report(pl, ss) = Obligations(pl)
  BY DEF Report
<1>4. m \in {MetricOf(pl, o) : o \in Obligations(pl)}
  BY <1>2, <1>3
<1>5. /\ m \in DOMAIN Summary(pl, ss)
      /\ Summary(pl, rs)[m] = SumOf(Report(pl, rs), S)
      /\ Summary(pl, ss)[m] = SumOf(Report(pl, ss), S)
  BY <1>2, <1>3, <1>4
<1>6. IsFiniteSet(S) /\ \A o \in S : Grows(Report(pl, rs)[o], Report(pl, ss)[o])
  BY <1>1, FS_Subset
<1> HIDE DEF S
<1>7. Grows(SumOf(Report(pl, rs), S), SumOf(Report(pl, ss), S))
  BY <1>6, SumGrows
<1> QED BY <1>5, <1>7

(* A minimum that what was known satisfies is satisfied by what is known   *)
(* of one more execution: totals stay, and nothing covered is taken back.  *)
THEOREM OfflineMinimumsStay == Spec => MinimumsStaySatisfied
<1> DEFINE Stay == \A m \in DOMAIN Summary(plan, runs) :
                     \A minimum \in {1, 50, 100} :
                       MinimumSatisfied(Summary(plan, runs)[m], minimum)
                         => MinimumSatisfied(Summary(plan, runs')[m], minimum)
<1>1. ASSUME RunsInv, RunsInv', MergeExecution
      PROVE  Stay
  <2>1. /\ GoodRuns(runs) /\ \A e \in DOMAIN plan : plan[e].type \in Types
        /\ Len(runs) \in Nat /\ Len(runs) >= 1
    BY <1>1, RunsAreGood DEF RunsInv
  <2>2. GoodRuns(runs')
    <3>1. runs' \in Seq(Cases[case'].executions) /\ Len(runs') >= 1 /\ case' \in DOMAIN Cases
      BY <1>1 DEF RunsInv
    <3> QED BY <3>1, CaseIsGood
  <2>3. PICK run \in Cases[case].executions, i \in 1..(Len(runs) + 1) :
          runs' = InsertAt(runs, i, run)
    BY <1>1 DEF MergeExecution
  <2>4. Len(runs') # 1 /\ Among(runs, runs')
    <3>1. runs \in Seq(Cases[case].executions)
      BY <1>1 DEF RunsInv
    <3>2. Len(runs') = Len(runs) + 1 /\ Among(runs, runs')
      BY <2>3, <3>1, InsertKeeps
    <3> QED BY <2>1, <3>2
  <2>5. IsFiniteSet(Obligations(plan))
    BY <1>1, CasesAssumption DEF RunsInv
  <2>6. SUFFICES ASSUME NEW m \in DOMAIN Summary(plan, runs), NEW minimum \in {1, 50, 100},
                        MinimumSatisfied(Summary(plan, runs)[m], minimum)
                 PROVE  MinimumSatisfied(Summary(plan, runs')[m], minimum)
    OBVIOUS
  <2>7. Grows(Summary(plan, runs)[m], Summary(plan, runs')[m])
    BY <2>1, <2>2, <2>4, <2>5, SummaryGrows
  <2> QED BY <2>6, <2>7 DEF Grows, Summaries, MinimumSatisfied, Undecided
<1>2. ASSUME UNCHANGED vars
      PROVE  Stay
  BY <1>2 DEF vars
<1>3. RunsInv /\ RunsInv' /\ [Next]_vars
        => [Analyzed /\ Analyzed' => Stay]_vars
  BY <1>1, <1>2 DEF Next
<1> QED BY <1>3, RunsInvInductive, PTL DEF Spec, MinimumsStaySatisfied
=============================================================================
