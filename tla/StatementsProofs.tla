------------------------- MODULE StatementsProofs --------------------------
(* Theorems about Statements, for every value of its constants.            *)
EXTENDS Statements, FoldTheorems
-----------------------------------------------------------------------------
(***************************************************************************)
(* The places of a source, and their order.                                *)
(***************************************************************************)

(* A place is the number of a list and one of a statement in it.           *)
LEMMA PlaceIs ==
  ASSUME NEW lists, IsText(lists), NEW p \in Places(lists)
  PROVE  /\ p = <<p[1], p[2]>> /\ p[1] \in DOMAIN lists /\ p[2] \in DOMAIN lists[p[1]]
         /\ p[1] \in Nat \ {0} /\ p[2] \in Nat \ {0} /\ p[2] \in 1..Len(lists[p[1]])
<1>1. PICK l \in DOMAIN lists : p \in {l} \X DOMAIN lists[l]
  BY DEF Places
<1>2. /\ l \in Nat \ {0} /\ DOMAIN lists[l] = 1..Len(lists[l]) /\ Len(lists[l]) \in Nat
  BY DEF IsText
<1> QED BY <1>1, <1>2

(* A list's statements have places.                                        *)
LEMMA IsPlace ==
  ASSUME NEW lists, NEW l \in DOMAIN lists, NEW k \in DOMAIN lists[l]
  PROVE  <<l, k>> \in Places(lists) /\ Statement(lists, <<l, k>>) = lists[l][k]
BY DEF Places, Statement

(* The order of the places is total.                                       *)
LEMMA UpToIsTotal ==
  ASSUME NEW lists, IsText(lists),
         NEW p \in Places(lists), NEW q \in Places(lists)
  PROVE  /\ UpTo(p, p)
         /\ UpTo(p, q) \/ UpTo(q, p)
         /\ UpTo(p, q) /\ UpTo(q, p) => p = q
         /\ \A r \in Places(lists) : UpTo(p, q) /\ UpTo(q, r) => UpTo(p, r)
<1>1. \A r \in Places(lists) : r = <<r[1], r[2]>> /\ r[1] \in Nat /\ r[2] \in Nat
  BY PlaceIs
<1>2. UpTo(p, p) /\ (UpTo(p, q) \/ UpTo(q, p))
  BY <1>1 DEF UpTo
<1>3. ASSUME UpTo(p, q), UpTo(q, p) PROVE p = q
  <2>1. p[1] = q[1] /\ p[2] = q[2]
    BY <1>1, <1>3 DEF UpTo
  <2> QED BY <1>1, <2>1
<1>4. ASSUME NEW r \in Places(lists), UpTo(p, q), UpTo(q, r) PROVE UpTo(p, r)
  BY <1>1, <1>4 DEF UpTo
<1> QED BY <1>2, <1>3, <1>4

(* There are finitely many.                                                *)
LEMMA PlacesFinite ==
  ASSUME NEW lists, IsText(lists)
  PROVE  IsFiniteSet(Places(lists))
<1> DEFINE n == Len(lists)
           f == [l \in 1..n |-> {l} \X DOMAIN lists[l]]
           S == {f[l] : l \in 1..n}
<1>1. n \in Nat /\ DOMAIN lists = 1..n
  BY DEF IsText
<1>2. ASSUME NEW l \in 1..n PROVE IsFiniteSet(f[l])
  <2>1. DOMAIN lists[l] = 1..Len(lists[l]) /\ Len(lists[l]) \in Nat
    BY <1>1 DEF IsText
  <2>2. IsFiniteSet(DOMAIN lists[l])
    BY <2>1, FS_Interval
  <2>3. IsFiniteSet({l})
    BY FS_Singleton
  <2>4. IsFiniteSet({l} \X DOMAIN lists[l])
    BY <2>2, <2>3, FS_Product
  <2> QED BY <2>4
<1>3. IsFiniteSet(S)
  <2>1. f \in Surjection(1..n, S)
    BY DEF Surjection
  <2>2. IsFiniteSet(1..n)
    BY <1>1, FS_Interval
  <2> HIDE DEF f, S
  <2> QED BY <2>1, <2>2, FS_Surjection
<1>4. IsFiniteSet(UNION S)
  <2>1. \A T \in S : IsFiniteSet(T)
    BY <1>2
  <2> HIDE DEF S
  <2> QED BY <1>3, <2>1, FS_UNION
<1>5. UNION S = Places(lists)
  BY <1>1 DEF Places
<1> QED BY <1>4, <1>5
-----------------------------------------------------------------------------
(***************************************************************************)
(* The regions of an inventory divide the statements among them.           *)
(***************************************************************************)

(* A region is named by a list and the number of a start.                  *)
LEMMA RegionIs ==
  ASSUME NEW lists, IsText(lists), NEW layout,
         NEW first \in DOMAIN Inventory(lists, layout)
  PROVE  /\ first = <<first[1], first[2]>> /\ first[1] \in DOMAIN lists
         /\ first[2] \in Starts(lists[first[1]], layout)
         /\ first[1] \in Nat /\ first[2] \in Nat \ {0}
         /\ first[2] # 1 => first[2] \in DOMAIN lists[first[1]]
         /\ Inventory(lists, layout)[first].units = Cut(lists, layout, first)
         /\ Inventory(lists, layout)[first].statements = Counted(lists, layout, first)
<1>1. PICK l \in DOMAIN lists : first \in {l} \X Starts(lists[l], layout)
  BY DEF Inventory
<1>2. /\ l \in Nat /\ DOMAIN lists[l] = 1..Len(lists[l]) /\ Len(lists[l]) \in Nat
  BY DEF IsText
<1>3. Starts(lists[l], layout) \subseteq Nat \ {0}
      /\ \A k \in Starts(lists[l], layout) : k # 1 => k \in DOMAIN lists[l]
  BY <1>2 DEF Starts
<1>4. /\ Inventory(lists, layout)[first].units = Cut(lists, layout, first)
      /\ Inventory(lists, layout)[first].statements = Counted(lists, layout, first)
  BY DEF Inventory
<1> QED BY <1>1, <1>2, <1>3, <1>4

(* A region with statements begins with the one that names it.             *)
LEMMA CutBegins ==
  ASSUME NEW lists, IsText(lists), NEW layout,
         NEW first \in DOMAIN Inventory(lists, layout), NEW p \in Cut(lists, layout, first)
  PROVE  /\ p \in Places(lists) /\ p[1] = first[1] /\ first[2] <= p[2]
         /\ first \in Cut(lists, layout, first) /\ first \in Places(lists)
<1>1. /\ first = <<first[1], first[2]>> /\ first[1] \in DOMAIN lists
      /\ first[2] \in Starts(lists[first[1]], layout)
      /\ first[2] \in Nat \ {0}
  BY RegionIs
<1>2. /\ p \in Places(lists) /\ p[1] = first[1]
      /\ \A k \in Starts(lists[first[1]], layout) : k <= p[2] <=> k <= first[2]
  BY DEF Cut
<1>3. first[2] <= p[2]
  BY <1>1, <1>2
<1>4. p[2] \in 1..Len(lists[p[1]]) /\ DOMAIN lists[p[1]] = 1..Len(lists[p[1]])
      /\ Len(lists[p[1]]) \in Nat
  BY <1>2, PlaceIs DEF IsText
<1>5. first[2] \in DOMAIN lists[first[1]]
  BY <1>1, <1>2, <1>3, <1>4
<1>6. first \in Places(lists)
  BY <1>1, <1>5, IsPlace
<1>7. first \in Cut(lists, layout, first)
  BY <1>6 DEF Cut
<1> QED BY <1>2, <1>3, <1>6, <1>7

(* No statement is in two regions.                                         *)
LEMMA CutsApart ==
  ASSUME NEW lists, IsText(lists), NEW layout,
         NEW f \in DOMAIN Inventory(lists, layout),
         NEW g \in DOMAIN Inventory(lists, layout),
         NEW p \in Cut(lists, layout, f), p \in Cut(lists, layout, g)
  PROVE  f = g
<1>1. /\ f = <<f[1], f[2]>> /\ f[2] \in Starts(lists[f[1]], layout) /\ f[2] \in Nat
      /\ g = <<g[1], g[2]>> /\ g[2] \in Starts(lists[g[1]], layout) /\ g[2] \in Nat
  BY RegionIs
<1>2. p[1] = f[1] /\ p[1] = g[1] /\ f[2] <= p[2] /\ g[2] <= p[2]
  BY CutBegins
<1>3. f[2] <= g[2] /\ g[2] <= f[2]
  BY <1>1, <1>2 DEF Cut
<1> QED BY <1>1, <1>2, <1>3

(* Every statement is in one.                                              *)
LEMMA CutsCover ==
  ASSUME NEW lists, IsText(lists), NEW layout, NEW p \in Places(lists)
  PROVE  \E first \in DOMAIN Inventory(lists, layout) : p \in Cut(lists, layout, first)
<1> DEFINE B == Starts(lists[p[1]], layout)
           before == {k \in B : k <= p[2]}
           m == Max(before)
<1>1. p = <<p[1], p[2]>> /\ p[1] \in DOMAIN lists /\ p[2] \in Nat \ {0}
  BY PlaceIs
<1>2. Len(lists[p[1]]) \in Nat /\ B \subseteq Nat \ {0} /\ 1 \in B
  BY <1>1 DEF IsText, Starts
<1>3. before \in SUBSET (1..p[2]) /\ 1 \in before
  <2> HIDE DEF B
  <2> QED BY <1>1, <1>2
<1>4. m \in before /\ \A k \in before : k <= m
  <2> HIDE DEF before
  <2> QED BY <1>1, <1>3, LastIsIn
<1> HIDE DEF m
<1>5. \A k \in B : k <= p[2] <=> k <= m
  <2> HIDE DEF B
  <2>1. m \in Nat /\ m <= p[2]
    BY <1>2, <1>4
  <2>2. TAKE k \in B
  <2>3. k \in Nat
    BY <1>2
  <2> QED BY <1>1, <1>4, <2>1, <2>3
<1>6. m \in B
  BY <1>4
<1> DEFINE first == <<p[1], m>>
<1>7. first \in DOMAIN Inventory(lists, layout)
  BY <1>1, <1>6 DEF Inventory
<1>8. p \in Cut(lists, layout, first)
  BY <1>5 DEF Cut
<1> QED BY <1>7, <1>8
-----------------------------------------------------------------------------
(***************************************************************************)
(* Where a statement of a rewritten source comes from.                     *)
(***************************************************************************)
HomeOf(original, rewritten, p) ==
  CHOOSE x \in Places(original) : Statement(original, x).id = Statement(rewritten, p).id

Sound(original, rewritten) ==
  IsText(original) /\ IsText(rewritten) /\ IsRewriting(original, rewritten)

(* The statements of a rewritten source that are its own are, one by one   *)
(* and in their order, those of the original one.                          *)
LEMMA HomeIs ==
  ASSUME NEW o, NEW r, Sound(o, r)
  PROVE  /\ \A p \in Own(r) :
              /\ p \in Places(r) /\ HomeOf(o, r, p) \in Places(o)
              /\ Statement(o, HomeOf(o, r, p)).id = Statement(r, p).id
              /\ Statement(r, p).at \in {Statement(o, HomeOf(o, r, p)).at,
                                         <<Statement(o, HomeOf(o, r, p)).at[1], 0>>}
         /\ \A p, q \in Own(r) :
              /\ HomeOf(o, r, p) = HomeOf(o, r, q) => p = q
              /\ UpTo(p, q) <=> UpTo(HomeOf(o, r, p), HomeOf(o, r, q))
         /\ \A x \in Places(o) : \E p \in Own(r) : HomeOf(o, r, p) = x
<1>0. IsRewriting(o, r)
  BY DEF Sound
<1>1. ASSUME NEW p \in Own(r)
      PROVE  /\ p \in Places(r) /\ HomeOf(o, r, p) \in Places(o)
             /\ Statement(o, HomeOf(o, r, p)).id = Statement(r, p).id
  <2>1. Statement(r, p).id \in Ids(o, Places(o))
    BY <1>0 DEF IsRewriting, Ids
  <2>2. \E x \in Places(o) : Statement(o, x).id = Statement(r, p).id
    BY <2>1 DEF Ids
  <2> QED BY <2>2 DEF HomeOf, Own
<1>2. ASSUME NEW p \in Own(r)
      PROVE  Statement(r, p).at \in {Statement(o, HomeOf(o, r, p)).at,
                                     <<Statement(o, HomeOf(o, r, p)).at[1], 0>>}
  <2> DEFINE h == HomeOf(o, r, p)
  <2>1. h \in Places(o) /\ Statement(r, p).id = Statement(o, h).id
    BY <1>1
  <2> HIDE DEF h
  <2>2. Statement(r, p).at \in {Statement(o, h).at, <<Statement(o, h).at[1], 0>>}
    BY <1>0, <2>1, Zenon DEF IsRewriting
  <2> QED BY <2>2 DEF h
<1>3. ASSUME NEW p \in Own(r), NEW q \in Own(r)
      PROVE  /\ HomeOf(o, r, p) = HomeOf(o, r, q) => p = q
             /\ UpTo(p, q) <=> UpTo(HomeOf(o, r, p), HomeOf(o, r, q))
  <2> DEFINE h == HomeOf(o, r, p)
             g == HomeOf(o, r, q)
  <2>1. /\ h \in Places(o) /\ Statement(r, p).id = Statement(o, h).id
        /\ g \in Places(o) /\ Statement(r, q).id = Statement(o, g).id
    BY <1>1
  <2> HIDE DEF h, g
  <2>2. UpTo(p, q) <=> UpTo(h, g)
    BY <1>0, <2>1, Zenon DEF IsRewriting
  <2>3. h = g => p = q
    BY <1>0, <2>1, Zenon DEF IsRewriting, HasIdentities
  <2> QED BY <2>2, <2>3 DEF h, g
<1>4. ASSUME NEW x \in Places(o)
      PROVE  \E p \in Own(r) : HomeOf(o, r, p) = x
  <2>1. Statement(o, x).id \in Ids(r, Own(r))
    BY <1>0 DEF IsRewriting, Ids
  <2>2. PICK p \in Own(r) : Statement(r, p).id = Statement(o, x).id
    BY <2>1 DEF Ids
  <2>3. HomeOf(o, r, p) \in Places(o) /\ Statement(o, HomeOf(o, r, p)).id = Statement(o, x).id
    BY <1>1, <2>2
  <2>4. HomeOf(o, r, p) = x
    BY <1>0, <2>3, Zenon DEF IsRewriting, HasIdentities
  <2> QED BY <2>4
<1> QED BY <1>1, <1>2, <1>3, <1>4

(* Sets of statements that correspond have the same size.                  *)
LEMMA HomesCount ==
  ASSUME NEW o, NEW r, Sound(o, r), NEW A \in SUBSET Own(r), NEW B \in SUBSET Places(o),
         \A p \in Own(r) : p \in A <=> HomeOf(o, r, p) \in B
  PROVE  IsFiniteSet(A) /\ IsFiniteSet(B) /\ Cardinality(A) = Cardinality(B)
<1> DEFINE f == [p \in A |-> HomeOf(o, r, p)]
<1>1. IsFiniteSet(A)
  <2>1. A \in SUBSET Places(r) /\ IsFiniteSet(Places(r))
    BY PlacesFinite DEF Sound, Own
  <2> QED BY <2>1, FS_Subset
<1>2. f \in [A -> B] /\ \A p, q \in A : f[p] = f[q] => p = q
  BY HomeIs
<1>3. ASSUME NEW x \in B PROVE \E p \in A : f[p] = x
  <2>1. PICK p \in Own(r) : HomeOf(o, r, p) = x
    BY HomeIs
  <2> QED BY <2>1
<1>4. f \in Bijection(A, B)
  <2> HIDE DEF f
  <2> QED BY <1>2, <1>3 DEF Bijection, Injection, Surjection, IsInjective
<1>5. ExistsBijection(A, B)
  BY <1>4 DEF ExistsBijection
<1> QED BY <1>1, <1>5, FS_Bijection

(* Two statements of a set have different ranks in it.                     *)
LEMMA RankIsStrict ==
  ASSUME NEW lists, IsText(lists), NEW S \in SUBSET Places(lists),
         NEW j \in S, NEW k \in S, Rank(j, S) = Rank(k, S)
  PROVE  j = k
<1> DEFINE U(x) == {q \in S : UpTo(q, x)}
<1>1. IsFiniteSet(S)
  BY PlacesFinite, FS_Subset
<1>2. ASSUME NEW x \in S, NEW y \in S, UpTo(x, y), Rank(x, S) = Rank(y, S)
      PROVE  x = y
  <2>1. U(x) \subseteq U(y)
    BY <1>2, UpToIsTotal
  <2>2. IsFiniteSet(U(y))
    BY <1>1, FS_Subset
  <2>3. Cardinality(U(x)) = Cardinality(U(y))
    BY <1>2 DEF Rank
  <2>4. U(x) = U(y)
    <3> HIDE DEF U
    <3> QED BY <2>1, <2>2, <2>3, FS_Subset
  <2>5. y \in U(y)
    BY UpToIsTotal
  <2> QED BY <1>2, <2>4, <2>5, UpToIsTotal
<1>3. UpTo(j, k) \/ UpTo(k, j)
  BY UpToIsTotal
<1> QED BY <1>2, <1>3
-----------------------------------------------------------------------------
(***************************************************************************)
(* If what is found at its exact position is found where it comes from,    *)
(* the ordinals lead the rest there.                                       *)
(***************************************************************************)
AnchorsHold(o, r) ==
  \A p \in Own(r) : Anchored(o, Statement(r, p)) \subseteq {HomeOf(o, r, p)}

(* Claimed is what the anchored statements come from.                      *)
LEMMA ClaimedIs ==
  ASSUME NEW o, NEW r, Sound(o, r), AnchorsHold(o, r), NEW p \in Own(r)
  PROVE  HomeOf(o, r, p) \in Claimed(o, r) <=> Anchored(o, Statement(r, p)) # {}
<1>1. ASSUME Anchored(o, Statement(r, p)) # {}
      PROVE  HomeOf(o, r, p) \in Claimed(o, r)
  <2>1. Anchored(o, Statement(r, p)) = {HomeOf(o, r, p)}
    BY <1>1 DEF AnchorsHold
  <2>2. Cardinality(Anchored(o, Statement(r, p))) = 1
    BY <2>1, FS_Singleton
  <2> QED BY <2>1, <2>2 DEF Claimed
<1>2. ASSUME HomeOf(o, r, p) \in Claimed(o, r)
      PROVE  Anchored(o, Statement(r, p)) # {}
  <2>1. PICK q \in Own(r) : HomeOf(o, r, p) \in Anchored(o, Statement(r, q))
    BY <1>2 DEF Claimed
  <2>2. HomeOf(o, r, p) = HomeOf(o, r, q)
    BY <2>1 DEF AnchorsHold
  <2>3. p = q
    BY <2>2, HomeIs
  <2> QED BY <2>1, <2>3
<1> QED BY <1>1, <1>2

(* What has lost its column comes from what is available.                  *)
LEMMA MovedIsAvailable ==
  ASSUME NEW o, NEW r, Sound(o, r), AnchorsHold(o, r), NEW line, NEW p \in Own(r)
  PROVE  p \in Moved(o, r, line) <=> HomeOf(o, r, p) \in Available(o, r, line)
<1> DEFINE h == HomeOf(o, r, p)
<1>1. /\ h \in Places(o)
      /\ Statement(r, p).at \in {Statement(o, h).at, <<Statement(o, h).at[1], 0>>}
  BY HomeIs
<1>2. h \in Claimed(o, r) <=> Anchored(o, Statement(r, p)) # {}
  BY ClaimedIs
<1> HIDE DEF h
<1>3. Statement(r, p).at[1] = Statement(o, h).at[1]
  BY <1>1
<1>4. h \in Available(o, r, line) <=> /\ Statement(o, h).at[1] = line
                                      /\ Anchored(o, Statement(r, p)) = {}
  BY <1>1, <1>2 DEF Available, OnLine
<1>5. p \in Moved(o, r, line) <=> /\ Statement(r, p).at[1] = line
                                  /\ Anchored(o, Statement(r, p)) = {}
  BY DEF Moved
<1> QED BY <1>3, <1>4, <1>5 DEF h

(* So the numbers agree, and the ordinals.                                 *)
LEMMA OrdinalsAgree ==
  ASSUME NEW o, NEW r, Sound(o, r), AnchorsHold(o, r), NEW line
  PROVE  /\ Cardinality(Moved(o, r, line)) = Cardinality(Available(o, r, line))
         /\ \A p \in Moved(o, r, line) :
              Rank(HomeOf(o, r, p), Available(o, r, line)) = Rank(p, Moved(o, r, line))
<1> DEFINE M == Moved(o, r, line)
           A == Available(o, r, line)
<1>1. M \in SUBSET Own(r) /\ A \in SUBSET Places(o)
  BY DEF Moved, Available, OnLine
<1>2. \A p \in Own(r) : p \in M <=> HomeOf(o, r, p) \in A
  BY MovedIsAvailable
<1> HIDE DEF M, A
<1>3. Cardinality(M) = Cardinality(A)
  BY <1>1, <1>2, HomesCount
<1>4. ASSUME NEW p \in M
      PROVE  Rank(HomeOf(o, r, p), A) = Rank(p, M)
  <2> DEFINE X == {q \in M : UpTo(q, p)}
             Y == {y \in A : UpTo(y, HomeOf(o, r, p))}
  <2>1. X \in SUBSET Own(r) /\ Y \in SUBSET Places(o)
    BY <1>1
  <2>2. \A q \in Own(r) : q \in X <=> HomeOf(o, r, q) \in Y
    BY <1>1, <1>2, HomeIs
  <2> HIDE DEF X, Y
  <2>3. Cardinality(X) = Cardinality(Y)
    BY <2>1, <2>2, HomesCount
  <2> QED BY <2>3 DEF X, Y, Rank
<1> QED BY <1>3, <1>4 DEF M, A

(* Everything is found where it comes from.                                *)
LEMMA CandidatesAreHome ==
  ASSUME NEW o, NEW r, Sound(o, r), AnchorsHold(o, r), NEW p \in Own(r)
  PROVE  Candidates(o, r, p) = {HomeOf(o, r, p)}
<1> DEFINE anchored == Anchored(o, Statement(r, p))
           line == Statement(r, p).at[1]
           M == Moved(o, r, line)
           A == Available(o, r, line)
           h == HomeOf(o, r, p)
<1>1. Candidates(o, r, p) = IF anchored # {} THEN anchored
        ELSE IF Cardinality(M) = Cardinality(A) THEN {j \in A : Rank(j, A) = Rank(p, M)}
        ELSE OnLine(o, line)
  BY DEF Candidates
<1>2. CASE anchored # {}
  BY <1>1, <1>2 DEF AnchorsHold
<1>3. CASE anchored = {}
  <2>1. p \in M
    BY <1>3 DEF Moved
  <2>2. h \in A /\ Rank(h, A) = Rank(p, M) /\ Cardinality(M) = Cardinality(A)
    BY <2>1, MovedIsAvailable, OrdinalsAgree
  <2>3. A \in SUBSET Places(o) /\ IsText(o)
    BY DEF Available, OnLine, Sound
  <2> HIDE DEF anchored, A, M, h, line
  <2>4. \A j \in A : Rank(j, A) = Rank(p, M) => j = h
    BY <2>2, <2>3, RankIsStrict
  <2> QED BY <1>1, <1>3, <2>2, <2>4 DEF h
<1> QED BY <1>2, <1>3

(***************************************************************************)
(* If all find one statement each, and each another, they find where they  *)
(* come from: another's exact position would be found twice.               *)
(***************************************************************************)
FindOneEach(o, r) ==
  /\ \A p \in Own(r) : \E x : Candidates(o, r, p) = {x}
  /\ \A p, q \in Own(r) : Candidates(o, r, p) \cap Candidates(o, r, q) # {} => p = q

(* Then the exact positions are right.                                     *)
LEMMA OneEachAnchors ==
  ASSUME NEW o, NEW r, Sound(o, r), FindOneEach(o, r)
  PROVE  AnchorsHold(o, r)
<1>1. SUFFICES ASSUME NEW p \in Own(r), NEW x \in Anchored(o, Statement(r, p))
               PROVE  x = HomeOf(o, r, p)
  BY DEF AnchorsHold
<1>2. Candidates(o, r, p) = Anchored(o, Statement(r, p))
  BY <1>1 DEF Candidates
<1>3. x \in Places(o) /\ Statement(o, x).at = Statement(r, p).at
  BY DEF Anchored
<1> DEFINE h == HomeOf(o, r, p)
<1>4. /\ h \in Places(o)
      /\ Statement(r, p).at \in {Statement(o, h).at, <<Statement(o, h).at[1], 0>>}
  BY HomeIs
<1>5. CASE Statement(r, p).at = Statement(o, h).at
  <2>1. h \in Anchored(o, Statement(r, p))
    BY <1>4, <1>5 DEF Anchored
  <2> QED BY <1>2, <2>1 DEF FindOneEach
<1>6. CASE Statement(r, p).at # Statement(o, h).at
  <2>1. PICK q \in Own(r) : HomeOf(o, r, q) = x
    BY <1>3, HomeIs
  <2>2. Statement(r, q).at \in {Statement(o, x).at, <<Statement(o, x).at[1], 0>>}
    BY <2>1, HomeIs
  <2> HIDE DEF h
  <2>3. Statement(o, x).at = <<Statement(o, x).at[1], 0>>
    <3>1. Statement(r, p).at = <<Statement(o, h).at[1], 0>>
      BY <1>4, <1>6
    <3> QED BY <1>3, <3>1
  <2>4. Statement(r, q).at = Statement(o, x).at
    BY <2>2, <2>3
  <2>5. x \in Anchored(o, Statement(r, q))
    BY <1>3, <2>4 DEF Anchored
  <2>6. Candidates(o, r, q) = Anchored(o, Statement(r, q))
    BY <2>5 DEF Candidates
  <2>7. p = q
    BY <1>2, <2>5, <2>6 DEF FindOneEach
  <2> QED BY <2>1, <2>7
<1> QED BY <1>5, <1>6
-----------------------------------------------------------------------------
(***************************************************************************)
(* What a plan says.                                                       *)
(***************************************************************************)
Regioned(source, layout) == Inventory(source.rewritten, layout)
RegionPlans(source, layout) ==
  Planned(source.lists, source.rewritten, Regioned(source, layout))

Relations == {"projectable", "generated"}

(* The plan of a region.                                                   *)
LEMMA RegionPlanIs ==
  ASSUME NEW o, NEW r, NEW regions, NEW k
  PROVE  LET p == RegionPlan(o, r, regions, k)
             own == regions[k].units \cap Own(r)
         IN  /\ p.region = k /\ p.shape = <<k, regions[k].statements>>
             /\ p.lost <=> \E u \in own : Candidates(o, r, u) = {}
             /\ p.obligations = UNION {Candidates(o, r, u) : u \in own}
             /\ p.relation = "generated" <=> own = {}
             /\ p.relation = "projectable" <=>
                  /\ own # {} /\ own = regions[k].units
                  /\ \A u \in own : ~(Cardinality(Candidates(o, r, u)) > 1)
                  /\ \A u, v \in own : u # v => Candidates(o, r, u) \cap Candidates(o, r, v) = {}
             /\ [p EXCEPT !.relation = "partial"].relation = "partial"
<1> DEFINE own == regions[k].units \cap Own(r)
           p == RegionPlan(o, r, regions, k)
           found == [u \in own |-> Candidates(o, r, u)]
           many == \/ \E u \in own : Cardinality(found[u]) > 1
                   \/ \E u, v \in own : u # v /\ found[u] \cap found[v] # {}
           lost == \E u \in own : found[u] = {}
           rel == IF own = {} THEN "generated"
                  ELSE IF own # regions[k].units THEN "partial"
                  ELSE IF many THEN "ambiguous" ELSE "projectable"
           obl == UNION {found[u] : u \in own}
           partial == "partial"
<1>1. p = [region |-> k, shape |-> <<k, regions[k].statements>>, lost |-> lost,
           obligations |-> obl, relation |-> rel]
  BY Zenon DEF RegionPlan
<1>2. /\ lost <=> \E u \in own : Candidates(o, r, u) = {}
      /\ many <=> \/ \E u \in own : Cardinality(Candidates(o, r, u)) > 1
                  \/ \E u, v \in own : u # v /\ Candidates(o, r, u) \cap Candidates(o, r, v) # {}
      /\ obl = UNION {Candidates(o, r, u) : u \in own}
  <2> HIDE DEF own
  <2>1. \A u \in own : found[u] = Candidates(o, r, u)
    OBVIOUS
  <2>2. obl = UNION {Candidates(o, r, u) : u \in own}
    BY <2>1
  <2> HIDE DEF found
  <2> QED BY <2>1, <2>2
<1>3. /\ rel = "generated" <=> own = {}
      /\ rel = "projectable" <=> own # {} /\ own = regions[k].units /\ ~many
  <2> HIDE DEF own, many
  <2> QED OBVIOUS
<1> HIDE DEF lost, rel, obl, partial, p, many, own
<1>4. /\ p.region = k /\ p.shape = <<k, regions[k].statements>>
      /\ p.lost = lost /\ p.obligations = obl /\ p.relation = rel
      /\ [p EXCEPT !.relation = partial].relation = partial
  BY <1>1
<1>5. /\ p.region = k /\ p.shape = <<k, regions[k].statements>>
      /\ p.lost <=> \E u \in own : Candidates(o, r, u) = {}
      /\ p.obligations = UNION {Candidates(o, r, u) : u \in own}
      /\ p.relation = "generated" <=> own = {}
      /\ p.relation = "projectable" <=>
           /\ own # {} /\ own = regions[k].units
           /\ \A u \in own : ~(Cardinality(Candidates(o, r, u)) > 1)
           /\ \A u, v \in own : u # v => Candidates(o, r, u) \cap Candidates(o, r, v) = {}
  BY <1>2, <1>3, <1>4
<1> QED BY <1>4, <1>5 DEF p, own, partial

(* The plans of two regions are two.                                       *)
LEMMA PlansAre ==
  ASSUME NEW o, NEW r, NEW regions
  PROVE  /\ \A p \in Planned(o, r, regions) :
              /\ p.region \in DOMAIN regions /\ regions[p.region].units # {}
              /\ p = RegionPlan(o, r, regions, p.region)
         /\ \A k \in DOMAIN regions : regions[k].units # {} =>
              RegionPlan(o, r, regions, k) \in Planned(o, r, regions)
<1>1. ASSUME NEW p \in Planned(o, r, regions)
      PROVE  /\ p.region \in DOMAIN regions /\ regions[p.region].units # {}
             /\ p = RegionPlan(o, r, regions, p.region)
  <2>1. PICK k \in DOMAIN regions : regions[k].units # {} /\ p = RegionPlan(o, r, regions, k)
    BY DEF Planned
  <2>2. p.region = k
    BY <2>1, RegionPlanIs
  <2> QED BY <2>1, <2>2
<1> QED BY <1>1 DEF Planned

(* Nothing is downgraded in a plan that can be projected.                  *)
LEMMA NoneDowngraded ==
  ASSUME NEW o, NEW r, NEW regions
  PROVE  LET planned == Planned(o, r, regions)
         IN  (\A q \in Downgraded(planned) : q.relation \in Relations) <=>
               /\ \A p \in planned : p.relation \in Relations /\ ~Competes(p, planned)
               /\ Downgraded(planned) = planned
<1> DEFINE planned == Planned(o, r, regions)
<1>1. ASSUME NEW p \in planned
      PROVE  [p EXCEPT !.relation = "partial"].relation = "partial"
  BY PlansAre, RegionPlanIs
<1>2. Downgraded(planned) = {IF Competes(p, planned) THEN [p EXCEPT !.relation = "partial"]
                             ELSE p : p \in planned}
  BY DEF Downgraded
<1> HIDE DEF planned
<1>3. ASSUME \A q \in Downgraded(planned) : q.relation \in Relations
      PROVE  /\ \A p \in planned : p.relation \in Relations /\ ~Competes(p, planned)
             /\ Downgraded(planned) = planned
  <2>1. ASSUME NEW p \in planned PROVE ~Competes(p, planned)
    <3>1. SUFFICES ASSUME Competes(p, planned) PROVE FALSE
      OBVIOUS
    <3>2. [p EXCEPT !.relation = "partial"] \in Downgraded(planned)
      BY <1>2, <3>1
    <3> QED BY <1>1, <1>3, <3>2 DEF Relations
  <2>2. Downgraded(planned) = planned
    BY <1>2, <2>1
  <2> QED BY <1>3, <2>1, <2>2
<1>4. ASSUME /\ \A p \in planned : p.relation \in Relations /\ ~Competes(p, planned)
             /\ Downgraded(planned) = planned
      PROVE  \A q \in Downgraded(planned) : q.relation \in Relations
  BY <1>4
<1> QED BY <1>3, <1>4 DEF planned

(* Candidates are original statements.                                     *)
LEMMA CandidatesType ==
  ASSUME NEW o, NEW r, IsText(o), NEW p
  PROVE  Candidates(o, r, p) \subseteq Places(o) /\ IsFiniteSet(Candidates(o, r, p))
<1>1. Candidates(o, r, p) \in SUBSET Places(o)
  BY DEF Candidates, Anchored, Available, OnLine
<1> QED BY <1>1, PlacesFinite, FS_Subset

(* In a plan that can be projected every statement finds one, and each     *)
(* another.                                                                *)
LEMMA ProjectableFinds ==
  ASSUME NEW source, NEW layout, Sound(source.lists, source.rewritten),
         Projectable(PlanOf(source, Regioned(source, layout)))
  PROVE  /\ PlanOf(source, Regioned(source, layout)).regions = RegionPlans(source, layout)
         /\ \A p \in RegionPlans(source, layout) : p.relation \in Relations
         /\ FindOneEach(source.lists, source.rewritten)
<1> DEFINE o == source.lists
           r == source.rewritten
           regions == Regioned(source, layout)
           planned == RegionPlans(source, layout)
           P == PlanOf(source, regions)
<1>1. /\ P.regions = Downgraded(planned)
      /\ P.made <=> /\ \A p \in planned : ~p.lost
                    /\ UNION {p.obligations : p \in planned} = Places(o)
  BY DEF PlanOf, RegionPlans
<1>2. /\ P.made /\ \A q \in P.regions : q.relation \in Relations
  BY DEF Projectable, Relations
<1>3. /\ \A p \in planned : p.relation \in Relations /\ ~Competes(p, planned)
      /\ P.regions = planned
  BY <1>1, <1>2, NoneDowngraded DEF RegionPlans
<1>4. IsText(o) /\ IsText(r)
  BY DEF Sound
<1>5. \A p \in Own(r) : \E k \in DOMAIN regions : p \in regions[k].units
  <2>1. TAKE p \in Own(r)
  <2>2. PICK k \in DOMAIN regions : p \in Cut(r, layout, k)
    BY <1>4, CutsCover DEF Own, Regioned
  <2>3. regions[k].units = Cut(r, layout, k)
    BY <1>4, RegionIs DEF Regioned
  <2> QED BY <2>2, <2>3
<1>6. \A k \in DOMAIN regions : regions[k].units # {} => RegionPlan(o, r, regions, k) \in planned
  BY PlansAre DEF RegionPlans
<1> HIDE DEF o, r, regions, planned, P
<1>7. ASSUME NEW p \in Own(r), NEW k \in DOMAIN regions, p \in regions[k].units
      PROVE  LET q == RegionPlan(o, r, regions, k)
             IN  /\ q \in planned /\ q.region = k
                 /\ q.relation = "projectable" /\ Candidates(o, r, p) \subseteq q.obligations
                 /\ Candidates(o, r, p) # {} /\ ~(Cardinality(Candidates(o, r, p)) > 1)
                 /\ \A v \in Own(r) : v \in regions[k].units /\ v # p =>
                      Candidates(o, r, p) \cap Candidates(o, r, v) = {}
  <2> DEFINE q == RegionPlan(o, r, regions, k)
  <2>1. q \in planned /\ ~q.lost /\ q.relation \in Relations
    BY <1>1, <1>2, <1>3, <1>6, <1>7
  <2>2. p \in regions[k].units \cap Own(r)
    BY <1>7
  <2>3. q.relation # "generated"
    BY <2>2, RegionPlanIs
  <2>4. q.relation = "projectable"
    BY <2>1, <2>3 DEF Relations
  <2>5. /\ q.region = k /\ Candidates(o, r, p) \subseteq q.obligations
        /\ Candidates(o, r, p) # {}
    BY <2>1, <2>2, RegionPlanIs
  <2>6. /\ \A u \in regions[k].units \cap Own(r) : ~(Cardinality(Candidates(o, r, u)) > 1)
        /\ \A u, v \in regions[k].units \cap Own(r) :
             u # v => Candidates(o, r, u) \cap Candidates(o, r, v) = {}
    BY <2>4, RegionPlanIs
  <2> QED BY <2>1, <2>2, <2>4, <2>5, <2>6
<1>8. ASSUME NEW p \in Own(r)
      PROVE  \E x : Candidates(o, r, p) = {x}
  <2> DEFINE C == Candidates(o, r, p)
  <2>1. C # {} /\ ~(Cardinality(C) > 1)
    BY <1>5, <1>7
  <2>2. IsFiniteSet(C)
    BY <1>4, CandidatesType
  <2> HIDE DEF C
  <2>3. Cardinality(C) \in Nat /\ Cardinality(C) # 0
    BY <2>1, <2>2, FS_CardinalityType, FS_EmptySet
  <2>4. Cardinality(C) = 1
    BY <2>1, <2>3
  <2> QED BY <2>2, <2>4, FS_Singleton DEF C
<1>9. ASSUME NEW p \in Own(r), NEW v \in Own(r),
             Candidates(o, r, p) \cap Candidates(o, r, v) # {}
      PROVE  p = v
  <2>1. PICK k \in DOMAIN regions : p \in regions[k].units
    BY <1>5
  <2>2. PICK j \in DOMAIN regions : v \in regions[j].units
    BY <1>5
  <2>3. CASE j = k
    BY <1>7, <1>9, <2>1, <2>2, <2>3
  <2>4. CASE j # k
    <3> DEFINE a == RegionPlan(o, r, regions, k)
               b == RegionPlan(o, r, regions, j)
    <3>1. /\ a \in planned /\ a.region = k /\ a.relation = "projectable"
          /\ Candidates(o, r, p) \subseteq a.obligations
      BY <1>7, <2>1
    <3>2. /\ b \in planned /\ b.region = j /\ b.relation = "projectable"
          /\ Candidates(o, r, v) \subseteq b.obligations
      BY <1>7, <2>2
    <3> HIDE DEF a, b
    <3>3. b \in planned \ {a} /\ b.obligations \cap a.obligations # {}
      BY <1>9, <2>4, <3>1, <3>2
    <3>4. Competes(a, planned)
      BY <3>1, <3>2, <3>3 DEF Competes
    <3> QED BY <1>3, <3>1, <3>4
  <2> QED BY <2>3, <2>4
<1>10. FindOneEach(o, r)
  BY <1>8, <1>9 DEF FindOneEach
<1> QED BY <1>3, <1>10 DEF o, r, regions, planned, P

(* So it stands for what is in its regions.                                *)
LEMMA ProjectableIsHome ==
  ASSUME NEW source, NEW layout, Sound(source.lists, source.rewritten),
         Projectable(PlanOf(source, Regioned(source, layout))),
         NEW p \in RegionPlans(source, layout)
  PROVE  LET o == source.lists
             r == source.rewritten
             units == Regioned(source, layout)[p.region].units
         IN  /\ p.relation = "projectable" <=> units \subseteq Own(r)
             /\ p.relation # "projectable" => units \cap Own(r) = {}
             /\ p.relation = "projectable" =>
                  p.obligations = {HomeOf(o, r, u) : u \in units}
<1> DEFINE o == source.lists
           r == source.rewritten
           regions == Regioned(source, layout)
           units == regions[p.region].units
<1>1. p.relation \in Relations /\ FindOneEach(o, r)
  BY ProjectableFinds
<1>2. AnchorsHold(o, r)
  BY <1>1, OneEachAnchors
<1>3. p.region \in DOMAIN regions /\ units # {} /\ p = RegionPlan(o, r, regions, p.region)
  BY PlansAre DEF RegionPlans
<1>4. \A u \in Own(r) : Candidates(o, r, u) = {HomeOf(o, r, u)}
  BY <1>2, CandidatesAreHome
<1> HIDE DEF o, r, regions
<1>5. /\ p.relation = "generated" <=> units \cap Own(r) = {}
      /\ p.relation = "projectable" => units \cap Own(r) = units
      /\ p.obligations = UNION {Candidates(o, r, u) : u \in units \cap Own(r)}
  BY <1>3, RegionPlanIs
<1> HIDE DEF units
<1>6. p.relation = "projectable" <=> units \subseteq Own(r)
  BY <1>1, <1>3, <1>5 DEF Relations
<1>7. p.relation # "projectable" => units \cap Own(r) = {}
  BY <1>1, <1>5 DEF Relations
<1>8. ASSUME p.relation = "projectable"
      PROVE  p.obligations = {HomeOf(o, r, u) : u \in units}
  BY <1>4, <1>5, <1>6, <1>8
<1> QED BY <1>6, <1>7, <1>8 DEF o, r, regions, units

(* Positions of their own are enough for a plan that can be projected,     *)
(* unless a region holds more than the source's own statements.            *)
LEMMA PositionsAreEnough ==
  ASSUME NEW source, NEW layout, Sound(source.lists, source.rewritten),
         HasPositions(source.lists),
         \A k \in DOMAIN Regioned(source, layout) :
           LET units == Regioned(source, layout)[k].units
           IN  units \subseteq Own(source.rewritten) \/ units \cap Own(source.rewritten) = {}
  PROVE  Projectable(PlanOf(source, Regioned(source, layout)))
<1> DEFINE o == source.lists
           r == source.rewritten
           regions == Regioned(source, layout)
           planned == RegionPlans(source, layout)
<1>0. IsText(o) /\ IsText(r)
  BY DEF Sound
<1>1. AnchorsHold(o, r)
  <2>1. SUFFICES ASSUME NEW p \in Own(r), NEW x \in Anchored(o, Statement(r, p))
                 PROVE  x = HomeOf(o, r, p)
    BY DEF AnchorsHold
  <2>2. x \in Places(o) /\ Statement(o, x).at = Statement(r, p).at
    BY DEF Anchored
  <2> DEFINE h == HomeOf(o, r, p)
  <2>3. /\ h \in Places(o)
        /\ Statement(r, p).at \in {Statement(o, h).at, <<Statement(o, h).at[1], 0>>}
    BY HomeIs
  <2> HIDE DEF h
  <2>4. Statement(o, x).at[2] # 0 /\ (x # h => Statement(o, x).at # Statement(o, h).at)
    BY <2>2, <2>3 DEF HasPositions
  <2> QED BY <2>2, <2>3, <2>4 DEF h
<1>2. \A u \in Own(r) : Candidates(o, r, u) = {HomeOf(o, r, u)}
  BY <1>1, CandidatesAreHome
<1>3. \A u, v \in Own(r) : u # v => Candidates(o, r, u) \cap Candidates(o, r, v) = {}
  BY <1>2, HomeIs
<1>4. \A k \in DOMAIN regions : \/ regions[k].units \subseteq Own(r)
                                \/ regions[k].units \cap Own(r) = {}
  OBVIOUS
<1>5. \A p \in planned : /\ p.region \in DOMAIN regions /\ regions[p.region].units # {}
                         /\ p = RegionPlan(o, r, regions, p.region)
  BY PlansAre DEF RegionPlans
<1>6. \A k \in DOMAIN regions : regions[k].units # {} => RegionPlan(o, r, regions, k) \in planned
  BY PlansAre DEF RegionPlans
<1>7. \A p \in Own(r) : \E k \in DOMAIN regions : p \in regions[k].units
  <2>1. TAKE p \in Own(r)
  <2>2. PICK k \in DOMAIN regions : p \in Cut(r, layout, k)
    BY <1>0, CutsCover DEF Own, Regioned
  <2>3. regions[k].units = Cut(r, layout, k)
    BY <1>0, RegionIs DEF Regioned
  <2> QED BY <2>2, <2>3
<1>8. \A j, k \in DOMAIN regions : regions[j].units \cap regions[k].units # {} => j = k
  BY <1>0, RegionIs, CutsApart DEF Regioned
<1>9. /\ PlanOf(source, regions).regions = Downgraded(planned)
      /\ PlanOf(source, regions).made <=>
           /\ \A p \in planned : ~p.lost
           /\ UNION {p.obligations : p \in planned} = Places(o)
  BY DEF PlanOf, RegionPlans
<1>10. \A x \in Places(o) : \E u \in Own(r) : HomeOf(o, r, u) = x
  BY HomeIs
<1>11. \A u \in Own(r) : HomeOf(o, r, u) \in Places(o)
  BY HomeIs
<1>12. (\A q \in Downgraded(planned) : q.relation \in Relations) <=>
         /\ \A p \in planned : p.relation \in Relations /\ ~Competes(p, planned)
         /\ Downgraded(planned) = planned
  BY NoneDowngraded DEF RegionPlans
<1> HIDE DEF o, r, regions, planned
<1>13. ASSUME NEW p \in planned
       PROVE  /\ p.relation \in Relations /\ ~p.lost
              /\ p.obligations = UNION {Candidates(o, r, u) :
                                          u \in regions[p.region].units \cap Own(r)}
  <2> DEFINE own == regions[p.region].units \cap Own(r)
  <2>1. /\ p.lost <=> \E u \in own : Candidates(o, r, u) = {}
        /\ p.obligations = UNION {Candidates(o, r, u) : u \in own}
        /\ p.relation = "generated" <=> own = {}
        /\ p.relation = "projectable" <=>
             /\ own # {} /\ own = regions[p.region].units
             /\ \A u \in own : ~(Cardinality(Candidates(o, r, u)) > 1)
             /\ \A u, v \in own : u # v => Candidates(o, r, u) \cap Candidates(o, r, v) = {}
    BY <1>5, RegionPlanIs
  <2>2. \A u \in own : Cardinality(Candidates(o, r, u)) = 1 /\ Candidates(o, r, u) # {}
    BY <1>2, FS_Singleton
  <2>3. own = {} \/ own = regions[p.region].units
    BY <1>4, <1>5
  <2>4. \A u, v \in own : u # v => Candidates(o, r, u) \cap Candidates(o, r, v) = {}
    BY <1>3
  <2> HIDE DEF own
  <2>5. ~p.lost
    BY <2>1, <2>2
  <2>6. p.relation \in Relations
    BY <2>1, <2>2, <2>3, <2>4 DEF Relations
  <2> QED BY <2>1, <2>5, <2>6 DEF own
<1>14. UNION {p.obligations : p \in planned} \subseteq Places(o)
  BY <1>2, <1>11, <1>13
<1>15. ASSUME NEW x \in Places(o)
       PROVE  x \in UNION {p.obligations : p \in planned}
  <2>1. PICK u \in Own(r) : HomeOf(o, r, u) = x
    BY <1>10
  <2>2. PICK k \in DOMAIN regions : u \in regions[k].units
    BY <1>7
  <2> DEFINE p == RegionPlan(o, r, regions, k)
  <2>3. p \in planned /\ p.region = k
    BY <1>6, <2>2, RegionPlanIs
  <2> HIDE DEF p
  <2>4. x \in p.obligations
    BY <1>2, <1>13, <2>1, <2>2, <2>3
  <2> QED BY <2>3, <2>4
<1>16. ASSUME NEW p \in planned
       PROVE  ~Competes(p, planned)
  <2>1. SUFFICES ASSUME NEW q \in planned, q # p, q.obligations \cap p.obligations # {}
                 PROVE  FALSE
    BY DEF Competes
  <2>2. PICK u \in regions[p.region].units \cap Own(r),
             v \in regions[q.region].units \cap Own(r) :
               Candidates(o, r, u) \cap Candidates(o, r, v) # {}
    <3>1. PICK x : x \in q.obligations /\ x \in p.obligations
      BY <2>1
    <3>2. PICK u \in regions[p.region].units \cap Own(r) : x \in Candidates(o, r, u)
      BY <1>13, <3>1
    <3>3. PICK v \in regions[q.region].units \cap Own(r) : x \in Candidates(o, r, v)
      BY <1>13, <3>1
    <3> QED BY <3>2, <3>3
  <2>3. u = v
    BY <1>3, <2>2
  <2>4. p.region = q.region
    BY <1>5, <1>8, <2>2, <2>3
  <2> QED BY <1>5, <2>1, <2>4
<1>17. PlanOf(source, regions).made
  BY <1>9, <1>13, <1>14, <1>15
<1>18. Downgraded(planned) = planned
  BY <1>16 DEF Downgraded
<1>19. \A q \in Downgraded(planned) : q.relation \in Relations
  BY <1>13, <1>18
<1> QED BY <1>9, <1>17, <1>19 DEF Projectable, Relations, regions
-----------------------------------------------------------------------------
(***************************************************************************)
(* Nothing changes the program or its plans.                               *)
(***************************************************************************)
planning == <<program, mode, producer, plan>>

PlanInv ==
  /\ program \in Programs
  /\ producer = [s \in Sources |-> Regioned(program.sources[s], program.layout)]
  /\ plan = [s \in Sources |-> PlanOf(program.sources[s], producer[s])]

(* No step replaces them.                                                  *)
LEMMA NextKeepsPlans ==
  ASSUME [Next]_vars
  PROVE  UNCHANGED planning
BY DEF Next, vars, planning, stored, Execute, NewFile, HitFails, EndBinary, Parse, Accept

(* The plans are those of the program.                                     *)
LEMMA PlanInvHolds == Spec => []PlanInv
<1>1. Init => PlanInv
  BY DEF Init, PlanInv, Regioned, Sources
<1>2. PlanInv /\ [Next]_vars => PlanInv'
  BY NextKeepsPlans DEF PlanInv, planning, Sources
<1> QED BY <1>1, <1>2, PTL DEF Spec

(* What is assumed of the programs holds of the one that is measured.      *)
LEMMA SourceIs ==
  ASSUME PlanInv, NEW s \in Sources
  PROVE  /\ Sound(program.sources[s].lists, program.sources[s].rewritten)
         /\ Sound(Original(s), Rewritten(s))
         /\ producer[s] = Regioned(program.sources[s], program.layout)
         /\ plan[s] = PlanOf(program.sources[s], producer[s])
         /\ program.sources[s].test \in BOOLEAN /\ program.sources[s].planned \in BOOLEAN
<1>1. /\ IsText(program.sources[s].lists) /\ IsText(program.sources[s].rewritten)
      /\ IsRewriting(program.sources[s].lists, program.sources[s].rewritten)
      /\ program.sources[s].test \in BOOLEAN /\ program.sources[s].planned \in BOOLEAN
  BY ProgramsAssumption DEF PlanInv, Sources
<1> QED BY <1>1 DEF PlanInv, Sound, Original, Rewritten

(* The identities of a set of statements and of what they come from.       *)
LEMMA SameIds ==
  ASSUME NEW o, NEW r, Sound(o, r), NEW units \in SUBSET Own(r)
  PROVE  Ids(o, {HomeOf(o, r, u) : u \in units}) = Ids(r, units)
<1>1. \A u \in units : Statement(o, HomeOf(o, r, u)).id = Statement(r, u).id
  BY HomeIs
<1> QED BY <1>1 DEF Ids

(* Regions hold places of the rewritten source.                            *)
LEMMA UnitsArePlaces ==
  ASSUME PlanInv, NEW s \in Sources, NEW k \in DOMAIN producer[s]
  PROVE  producer[s][k].units \subseteq Places(Rewritten(s))
<1>1. producer[s] = Inventory(Rewritten(s), program.layout) /\ IsText(Rewritten(s))
  BY SourceIs DEF Sound, Regioned, Rewritten
<1> QED BY <1>1, RegionIs DEF Cut

(***************************************************************************)
(* A plan tells the truth: a region that may be projected stands for       *)
(* exactly the statements in it, and statements with positions of their    *)
(* own are enough for that (PlanCoverageCorrespondence).                   *)
(***************************************************************************)
THEOREM PlansAreTrue == Spec => []PlansTellTheTruth
<1>1. ASSUME PlanInv, NEW s \in Sources, Projectable(plan[s]), NEW p \in plan[s].regions,
             p.relation = "projectable"
      PROVE  Ids(Original(s), p.obligations) = Ids(Rewritten(s), producer[s][p.region].units)
  <2> DEFINE source == program.sources[s]
  <2>1. /\ Sound(source.lists, source.rewritten) /\ plan[s] = PlanOf(source, producer[s])
        /\ producer[s] = Regioned(source, program.layout)
    BY <1>1, SourceIs
  <2> HIDE DEF source
  <2>2. p \in RegionPlans(source, program.layout)
    BY <1>1, <2>1, ProjectableFinds
  <2> DEFINE units == producer[s][p.region].units
  <2>3. /\ units \subseteq Own(source.rewritten)
        /\ p.obligations = {HomeOf(source.lists, source.rewritten, u) : u \in units}
    BY <1>1, <2>1, <2>2, ProjectableIsHome
  <2> HIDE DEF units
  <2>4. Ids(source.lists, p.obligations) = Ids(source.rewritten, units)
    BY <2>1, <2>3, SameIds
  <2> QED BY <2>4 DEF source, units, Original, Rewritten
<1>2. ASSUME PlanInv, NEW s \in Sources, ~Mixed(s), HasPositions(Original(s))
      PROVE  Projectable(plan[s])
  <2> DEFINE source == program.sources[s]
  <2>1. /\ Sound(source.lists, source.rewritten) /\ plan[s] = PlanOf(source, producer[s])
        /\ producer[s] = Regioned(source, program.layout)
    BY <1>2, SourceIs
  <2>2. ASSUME NEW k \in DOMAIN producer[s]
        PROVE  \/ producer[s][k].units \subseteq Own(source.rewritten)
               \/ producer[s][k].units \cap Own(source.rewritten) = {}
    <3> DEFINE units == producer[s][k].units
               ids == Ids(Rewritten(s), units)
    <3>1. units \subseteq Places(source.rewritten)
      BY <1>2, <2>2, UnitsArePlaces DEF Rewritten
    <3>2. ~(Generated \in ids /\ ids # {Generated})
      BY <1>2 DEF Mixed
    <3> HIDE DEF units
    <3>3. CASE Generated \in ids
      <4>1. \A u \in units : Statement(source.rewritten, u).id = Generated
        BY <3>2, <3>3 DEF Ids, Rewritten
      <4> QED BY <4>1 DEF Own, units
    <3>4. CASE Generated \notin ids
      <4>1. \A u \in units : Statement(source.rewritten, u).id # Generated
        BY <3>4 DEF Ids, Rewritten
      <4> QED BY <3>1, <4>1 DEF Own, units
    <3> QED BY <3>3, <3>4
  <2>3. HasPositions(source.lists)
    BY <1>2 DEF Original
  <2> HIDE DEF source
  <2>4. Projectable(PlanOf(source, Regioned(source, program.layout)))
    BY <2>1, <2>2, <2>3, PositionsAreEnough
  <2> QED BY <2>1, <2>4
<1>3. PlanInv => PlansTellTheTruth
  BY <1>1, <1>2 DEF PlansTellTheTruth
<1> QED BY <1>3, PlanInvHolds, PTL
-----------------------------------------------------------------------------
(***************************************************************************)
(* A sum of counters adds one of them, whichever CHOOSE picks, to the sum  *)
(* of the others.                                                          *)
(***************************************************************************)
One(T) == CHOOSE b \in T : TRUE

IsSum(f, S, g) ==
  g = [T \in SUBSET S |-> IF T = {} THEN 0 ELSE f[One(T)] + g[T \ {One(T)}]]

(* Some member of a set that is not empty, and what is left.               *)
LEMMA OneIs ==
  ASSUME NEW S, IsFiniteSet(S), NEW T \in SUBSET S, T # {}
  PROVE  /\ One(T) \in T /\ T \ {One(T)} \in SUBSET S
         /\ Cardinality(T) \in Nat /\ Cardinality(T) # 0
         /\ Cardinality(T \ {One(T)}) = Cardinality(T) - 1
<1>1. One(T) \in T
  BY DEF One
<1>2. IsFiniteSet(T)
  BY FS_Subset
<1>3. Cardinality(T) \in Nat /\ Cardinality(T) # 0
  BY <1>2, FS_CardinalityType, FS_EmptySet
<1>4. Cardinality(T \ {One(T)}) = Cardinality(T) - 1
  BY <1>1, <1>2, FS_RemoveElement
<1> QED BY <1>1, <1>3, <1>4

(* There is a function of all sums.                                        *)
LEMMA SumExists ==
  ASSUME NEW S, IsFiniteSet(S), NEW f
  PROVE  \E g : IsSum(f, S, g)
<1> DEFINE Small(k) == {T \in SUBSET S : Cardinality(T) <= k}
           Sums(k, g) == g = [T \in Small(k) |-> IF T = {} THEN 0
                                                 ELSE f[One(T)] + g[T \ {One(T)}]]
           P(k) == \E g : Sums(k, g)
           K == {k \in Nat : P(k)}
<1>1. P(0)
  <2>1. ASSUME NEW T \in Small(0) PROVE T = {}
    <3>1. T # {} => Cardinality(T) \in Nat /\ Cardinality(T) # 0
      BY OneIs
    <3> QED BY <3>1
  <2> DEFINE g == [T \in Small(0) |-> 0]
  <2>2. Sums(0, g)
    <3> HIDE DEF Small
    <3> QED BY <2>1
  <2> QED BY <2>2
<1>2. ASSUME NEW k \in Nat, P(k)
      PROVE  P(k + 1)
  <2>1. PICK g : Sums(k, g)
    BY <1>2
  <2> DEFINE h == [T \in Small(k + 1) |-> IF T = {} THEN 0
                                          ELSE f[One(T)] + g[T \ {One(T)}]]
  <2>2. ASSUME NEW T \in Small(k + 1), T # {}
        PROVE  T \ {One(T)} \in Small(k)
    BY <2>2, OneIs
  <2>3. Small(k) \subseteq Small(k + 1)
    <3>1. \A T \in SUBSET S : Cardinality(T) \in Nat
      BY FS_Subset, FS_CardinalityType
    <3> QED BY <3>1
  <2> HIDE DEF Small
  <2>4. ASSUME NEW T \in Small(k)
        PROVE  h[T] = g[T]
    <3>1. h[T] = IF T = {} THEN 0 ELSE f[One(T)] + g[T \ {One(T)}]
      BY <2>3
    <3>2. g[T] = IF T = {} THEN 0 ELSE f[One(T)] + g[T \ {One(T)}]
      BY <2>1
    <3> QED BY <3>1, <3>2
  <2>5. ASSUME NEW T \in Small(k + 1)
        PROVE  h[T] = IF T = {} THEN 0 ELSE f[One(T)] + h[T \ {One(T)}]
    <3>1. T # {} => h[T \ {One(T)}] = g[T \ {One(T)}]
      BY <2>2, <2>4
    <3> QED BY <3>1
  <2>6. h = [T \in Small(k + 1) |-> h[T]]
    OBVIOUS
  <2>7. Sums(k + 1, h)
    <3> HIDE DEF h
    <3> QED BY <2>5, <2>6
  <2> QED BY <2>7
<1>3. K \in SUBSET Nat /\ 0 \in K /\ \A k \in K : k + 1 \in K
  <2> HIDE DEF P
  <2> QED BY <1>1, <1>2
<1>4. K = Nat
  <2> HIDE DEF K
  <2> QED BY <1>3, SetInduction
<1>5. P(Cardinality(S))
  <2>1. Cardinality(S) \in Nat
    BY FS_CardinalityType
  <2> HIDE DEF P
  <2> QED BY <1>4, <2>1
<1>6. Small(Cardinality(S)) = SUBSET S
  BY FS_Subset
<1> QED BY <1>5, <1>6 DEF IsSum

(* A sum of counters is positive if one of them is.                        *)
LEMMA SumIsPositive ==
  ASSUME NEW S, IsFiniteSet(S), NEW f, \A b \in S : f[b] \in Nat
  PROVE  /\ SumFunctionOnSet(f, S) \in Nat
         /\ SumFunctionOnSet(f, S) > 0 <=> \E b \in S : f[b] > 0
<1> DEFINE h == CHOOSE g : IsSum(f, S, g)
<1>1. SumFunctionOnSet(f, S) = h[S]
  BY Zenon DEF SumFunctionOnSet, FoldFunctionOnSet, MapThenFoldSet, One, IsSum
<1>2. IsSum(f, S, h)
  BY SumExists
<1> HIDE DEF h
<1> DEFINE P(k) == \A T \in SUBSET S : Cardinality(T) = k =>
                     h[T] \in Nat /\ (h[T] > 0 <=> \E b \in T : f[b] > 0)
           K == {k \in Nat : P(k)}
<1>3. P(0)
  <2>1. \A T \in SUBSET S : Cardinality(T) = 0 => T = {}
    BY FS_Subset, FS_EmptySet
  <2>2. h[{}] = 0
    BY <1>2 DEF IsSum
  <2> QED BY <2>1, <2>2
<1>4. ASSUME NEW k \in Nat, P(k)
      PROVE  P(k + 1)
  <2>1. SUFFICES ASSUME NEW T \in SUBSET S, Cardinality(T) = k + 1
                 PROVE  h[T] \in Nat /\ (h[T] > 0 <=> \E b \in T : f[b] > 0)
    OBVIOUS
  <2>2. T # {}
    BY <2>1, FS_EmptySet
  <2> DEFINE one == One(T)
             rest == T \ {one}
  <2>3. /\ one \in T /\ rest \in SUBSET S /\ Cardinality(rest) = k
    BY <2>1, <2>2, OneIs
  <2>4. h[T] = f[one] + h[rest]
    BY <1>2, <2>2 DEF IsSum
  <2>5. h[rest] \in Nat /\ (h[rest] > 0 <=> \E b \in rest : f[b] > 0)
    BY <1>4, <2>3
  <2>6. f[one] \in Nat /\ \A b \in T : b = one \/ b \in rest
    BY <2>1, <2>3
  <2>7. rest \subseteq T
    OBVIOUS
  <2> HIDE DEF one, rest
  <2> QED BY <2>3, <2>4, <2>5, <2>6, <2>7
<1>5. K \in SUBSET Nat /\ 0 \in K /\ \A k \in K : k + 1 \in K
  <2> HIDE DEF P
  <2> QED BY <1>3, <1>4
<1>6. K = Nat
  <2> HIDE DEF K
  <2> QED BY <1>5, SetInduction
<1>7. P(Cardinality(S))
  <2>1. Cardinality(S) \in Nat
    BY FS_CardinalityType
  <2> HIDE DEF P
  <2> QED BY <1>6, <2>1
<1> QED BY <1>1, <1>7
-----------------------------------------------------------------------------
(***************************************************************************)
(* A block's evidence, projected: the span of a statement has the          *)
(* statement's own evidence, however the spans are grouped.                *)
(***************************************************************************)
EachType == [observed : BOOLEAN, count : Nat]

(* Up to a statement within a block there is a last one that begins a      *)
(* span, and from there on the evidence is the same.                       *)
LEMMA HeadIs ==
  ASSUME NEW lists, IsText(lists), NEW first \in DOMAIN Inventory(lists, Basic),
         NEW each, NEW separate \in BOOLEAN, NEW p \in Cut(lists, Basic, first)
  PROVE  LET units == Cut(lists, Basic, first)
             heads == Heads(each, units, separate)
         IN  \E h \in heads : /\ UpTo(h, p) /\ each[h] = each[p]
                              /\ \A g \in heads : UpTo(g, p) => UpTo(g, h)
<1> DEFINE units == Cut(lists, Basic, first)
           heads == Heads(each, units, separate)
           l == first[1]
           before == {k \in 1..p[2] : <<l, k>> \in heads}
           m == Max(before)
<1>1. /\ first = <<l, first[2]>> /\ first[2] \in Nat \ {0}
      /\ first[2] \in Starts(lists[l], Basic) /\ l \in DOMAIN lists
  BY RegionIs
<1>2. /\ \A q \in units : q \in Places(lists) /\ q[1] = l /\ first[2] <= q[2]
                           /\ q = <<l, q[2]>> /\ q[2] \in Nat \ {0}
      /\ first \in units
  <2>1. \A q \in units : q \in Places(lists) /\ q[1] = l /\ first[2] <= q[2] /\ first \in units
    BY CutBegins
  <2> QED BY <2>1, PlaceIs
<1>3. p[1] = l /\ p[2] \in Nat \ {0} /\ p = <<l, p[2]>> /\ first[2] <= p[2]
  BY <1>2
<1>4. ASSUME NEW k \in first[2]..p[2]
      PROVE  <<l, k>> \in units
  <2>1. k \in Nat \ {0} /\ k <= p[2] /\ first[2] <= k
    BY <1>1, <1>3
  <2>2. p[2] \in 1..Len(lists[l]) /\ Len(lists[l]) \in Nat /\ DOMAIN lists[l] = 1..Len(lists[l])
    BY <1>1, <1>2, <1>3, PlaceIs DEF IsText
  <2>3. <<l, k>> \in Places(lists)
    BY <1>1, <2>1, <2>2, IsPlace
  <2>4. \A j \in Starts(lists[l], Basic) : j <= p[2] <=> j <= first[2]
    BY DEF Cut
  <2>5. \A j \in Starts(lists[l], Basic) : j \in Nat
    BY <2>2 DEF Starts
  <2>6. \A j \in Starts(lists[l], Basic) : j <= k <=> j <= first[2]
    BY <1>1, <1>3, <2>1, <2>4, <2>5
  <2> QED BY <2>3, <2>6 DEF Cut
<1>5. first \in heads
  <2>1. <<l, first[2] - 1>> \notin units
    <3>1. SUFFICES ASSUME <<l, first[2] - 1>> \in units PROVE FALSE
      OBVIOUS
    <3>2. first[2] <= <<l, first[2] - 1>>[2]
      BY <1>2, <3>1
    <3> QED BY <1>1, <3>2
  <2> QED BY <1>2, <2>1 DEF Heads
<1>6. heads \subseteq units
  BY DEF Heads
<1>7. ASSUME NEW k \in first[2]..p[2], k # first[2], <<l, k>> \notin heads
      PROVE  each[<<l, k>>] = each[<<l, k - 1>>]
  <2>1. <<l, k>> \in units
    BY <1>4
  <2> QED BY <1>7, <2>1 DEF Heads
<1> HIDE DEF units, heads, l
<1>8. before \in SUBSET (1..p[2]) /\ first[2] \in before
  BY <1>1, <1>3, <1>5
<1> HIDE DEF before
<1>9. m \in before /\ \A y \in before : y <= m
  BY <1>3, <1>8, LastIsIn
<1> HIDE DEF m
<1>10. m \in first[2]..p[2] /\ <<l, m>> \in heads /\ \A k \in 1..p[2] : k > m => <<l, k>> \notin heads
  <2>1. m \in 1..p[2] /\ <<l, m>> \in heads
    BY <1>9 DEF before
  <2>2. first[2] <= m
    BY <1>8, <1>9
  <2>3. ASSUME NEW k \in 1..p[2], k > m PROVE <<l, k>> \notin heads
    <3>1. <<l, k>> \in heads => k <= m
      BY <1>9 DEF before
    <3> QED BY <2>1, <2>3, <3>1
  <2> QED BY <1>1, <1>3, <2>1, <2>2, <2>3
<1> DEFINE T == {n \in Nat : m + n <= p[2] => each[<<l, m + n>>] = each[<<l, m>>]}
<1>11. T = Nat
  <2>1. 0 \in T
    BY <1>10
  <2>2. ASSUME NEW n \in T PROVE n + 1 \in T
    <3>1. SUFFICES ASSUME m + (n + 1) <= p[2]
                   PROVE  each[<<l, m + (n + 1)>>] = each[<<l, m>>]
      OBVIOUS
    <3> DEFINE k == m + (n + 1)
    <3>2. /\ n \in Nat /\ m \in Nat /\ k \in first[2]..p[2] /\ k # first[2] /\ k \in 1..p[2]
          /\ k > m /\ k - 1 = m + n /\ m + n <= p[2]
      BY <1>1, <1>3, <1>10, <3>1
    <3>3. each[<<l, k>>] = each[<<l, k - 1>>]
      <4> HIDE DEF k
      <4> QED BY <1>7, <1>10, <3>2
    <3>4. each[<<l, m + n>>] = each[<<l, m>>]
      BY <3>2
    <3> QED BY <3>2, <3>3, <3>4
  <2>3. T \in SUBSET Nat
    OBVIOUS
  <2> HIDE DEF T
  <2> QED BY <2>1, <2>2, <2>3, SetInduction
<1>12. each[p] = each[<<l, m>>]
  <2>1. p[2] - m \in Nat /\ m + (p[2] - m) = p[2]
    BY <1>1, <1>3, <1>10
  <2>2. p[2] - m \in T
    BY <1>11, <2>1
  <2> QED BY <1>3, <2>1, <2>2
<1>13. UpTo(<<l, m>>, p)
  BY <1>3, <1>10 DEF UpTo
<1>14. ASSUME NEW g \in heads, UpTo(g, p) PROVE UpTo(g, <<l, m>>)
  <2>1. g[1] = l /\ g = <<l, g[2]>> /\ g[2] \in Nat \ {0}
    BY <1>2, <1>6
  <2>2. g[2] <= p[2]
    <3>1. l \in Nat
      BY RegionIs DEF l
    <3> QED BY <1>3, <1>14, <2>1, <3>1 DEF UpTo
  <2>3. g[2] \in before
    BY <1>3, <2>1, <2>2 DEF before
  <2>4. g[2] <= m
    BY <1>9, <2>3
  <2> QED BY <2>1, <2>4 DEF UpTo
<1> QED BY <1>10, <1>12, <1>13, <1>14 DEF units, heads

(* The spans from one first statement to the next.                         *)
SpansFrom(each, units, separate) ==
  LET heads == Heads(each, units, separate)
  IN  {[units |-> {p \in units : \A h \in heads : UpTo(h, p) <=> UpTo(h, first)},
        evidence |-> each[first]] : first \in heads}

(* Every statement is in one of them, which has its evidence.              *)
LEMMA SpansFromIs ==
  ASSUME NEW lists, IsText(lists), NEW first \in DOMAIN Inventory(lists, Basic),
         NEW each, NEW separate \in BOOLEAN, NEW p \in Cut(lists, Basic, first)
  PROVE  LET spans == SpansFrom(each, Cut(lists, Basic, first), separate)
         IN  \E span \in spans : /\ {x \in spans : p \in x.units} = {span}
                                 /\ span.evidence = each[p]
<1> DEFINE units == Cut(lists, Basic, first)
           heads == Heads(each, units, separate)
           Part(f) == {q \in units : \A h \in heads : UpTo(h, q) <=> UpTo(h, f)}
           Span(f) == [units |-> Part(f), evidence |-> each[f]]
           spans == SpansFrom(each, units, separate)
<1>1. PICK h \in heads : /\ UpTo(h, p) /\ each[h] = each[p]
                         /\ \A g \in heads : UpTo(g, p) => UpTo(g, h)
  BY HeadIs
<1>2. \A q \in units : q \in Places(lists)
  BY DEF Cut
<1>3. heads \subseteq units /\ p \in units
  BY DEF Heads
<1>4. spans = {Span(f) : f \in heads}
  BY DEF SpansFrom
<1> HIDE DEF units, heads, spans
<1>5. \A g \in heads : UpTo(g, h) => UpTo(g, p)
  BY <1>1, <1>2, <1>3, UpToIsTotal
<1>6. p \in Part(h)
  BY <1>1, <1>3, <1>5
<1>7. ASSUME NEW f \in heads, p \in Part(f)
      PROVE  f = h
  <2>1. UpTo(f, p) /\ UpTo(h, f)
    BY <1>1, <1>2, <1>3, <1>7, UpToIsTotal
  <2>2. UpTo(f, h)
    BY <1>1, <2>1
  <2> QED BY <1>2, <1>3, <2>1, <2>2, UpToIsTotal
<1> HIDE DEF Part
<1>8. {x \in spans : p \in x.units} = {Span(h)}
  BY <1>4, <1>6, <1>7
<1>9. Span(h) \in spans /\ Span(h).evidence = each[p]
  BY <1>1, <1>4
<1> QED BY <1>8, <1>9 DEF spans, units

(* Spans hold statements of the block.                                     *)
LEMMA SpansWithin ==
  ASSUME NEW e, NEW units, NEW separate, NEW span \in Spans(e, units, separate)
  PROVE  span.units \subseteq units
BY DEF Spans

(* What a block's evidence says of a statement is the statement's own.     *)
LEMMA SpanIs ==
  ASSUME NEW lists, IsText(lists), NEW first \in DOMAIN Inventory(lists, Basic),
         NEW each, DOMAIN each = Cut(lists, Basic, first),
         \A q \in Cut(lists, Basic, first) : each[q] \in EachType,
         NEW separate \in BOOLEAN, NEW p \in Cut(lists, Basic, first)
  PROVE  LET spans == Spans(BlockEvidence(each, first), Cut(lists, Basic, first), separate)
         IN  \E span \in spans : /\ {x \in spans : p \in x.units} = {span}
                                 /\ span.evidence.count = each[p].count
                                 /\ span.evidence.observed = each[p].observed
<1> DEFINE units == Cut(lists, Basic, first)
           e == BlockEvidence(each, first)
           obs == \A q \in DOMAIN each : each[q].observed
           count == each[first].count
           uniform == \A q \in DOMAIN each : each[q] = each[first]
           stmts == IF uniform THEN <<>> ELSE each
           whole == Whole(e)
           own == Each(e, units)
           spans == Spans(e, units, separate)
<1>1. first \in units /\ p \in units
  BY CutBegins
<1>2. e = [count |-> count, observed |-> obs, statements |-> stmts]
  BY DEF BlockEvidence, Summarized
<1>3. obs \in BOOLEAN /\ (uniform => obs = each[first].observed)
  <2>1. each[first].observed \in BOOLEAN
    BY <1>1 DEF EachType
  <2>2. ASSUME uniform PROVE obs <=> each[first].observed
    BY <1>1, <2>2
  <2> HIDE DEF obs, uniform
  <2> QED BY <2>1, <2>2 DEF obs
<1>4. DOMAIN each # {} /\ each # <<>>
  BY <1>1
<1>5. uniform => each[p] = each[first]
  BY <1>1
<1> HIDE DEF obs, count, stmts
<1>6. e.count = count /\ e.observed = obs /\ e.statements = stmts
  BY <1>2
<1> HIDE DEF e
<1>7. whole.count = count /\ whole.observed = obs
  BY <1>6 DEF Whole
<1>8. spans = IF e.statements = <<>> /\ ~separate THEN {[units |-> units, evidence |-> whole]}
              ELSE SpansFrom(own, units, separate)
  BY DEF Spans, SpansFrom
<1>9. own = IF e.statements # <<>> THEN e.statements ELSE [q \in units |-> whole]
  BY DEF Each
<1> HIDE DEF whole, own, spans
<1>10. CASE uniform
  <2>1. whole.count = each[p].count /\ whole.observed = each[p].observed
    BY <1>3, <1>5, <1>7, <1>10 DEF count
  <2>2. e.statements = <<>>
    BY <1>6, <1>10 DEF stmts
  <2>3. CASE ~separate
    <3> DEFINE span == [units |-> units, evidence |-> whole]
    <3>1. spans = {span} /\ span.units = units /\ span.evidence = whole
      BY <1>8, <2>2, <2>3
    <3> HIDE DEF span
    <3>2. {x \in spans : p \in x.units} = {span}
      BY <1>1, <3>1
    <3> QED BY <2>1, <3>1, <3>2 DEF spans, units, e
  <2>4. CASE separate
    <3>1. spans = SpansFrom(own, units, separate)
      BY <1>8, <2>4
    <3>2. own[p] = whole
      BY <1>1, <1>9, <2>2
    <3>3. \E span \in spans : {x \in spans : p \in x.units} = {span} /\ span.evidence = own[p]
      BY <3>1, SpansFromIs
    <3> QED BY <2>1, <3>2, <3>3 DEF spans, units, e
  <2> QED BY <2>3, <2>4
<1>11. CASE ~uniform
  <2>1. e.statements = each /\ e.statements # <<>>
    BY <1>4, <1>6, <1>11 DEF stmts
  <2>2. own = each /\ spans = SpansFrom(each, units, separate)
    BY <1>8, <1>9, <2>1
  <2>3. \E span \in spans : {x \in spans : p \in x.units} = {span} /\ span.evidence = each[p]
    BY <2>2, SpansFromIs
  <2> QED BY <2>3 DEF spans, units, e
<1> QED BY <1>10, <1>11
-----------------------------------------------------------------------------
(***************************************************************************)
(* The lines of a profile and the plans.                                   *)
(***************************************************************************)

(* No file is taken for another that is measured: a path that ends with    *)
(* another's is the case that acceptancePathMatches confuses.              *)
PathsApart ==
  \A P \in Programs : \A s, t \in DOMAIN P.sources :
    P.sources[t].planned /\ s # t =>
      ~PathMatches(<<Module>> \o P.sources[s].path, P.sources[t].path)

AllProjectable == \A s \in InPlan : Projectable(plan[s])

PlanOfRegion(ref) ==
  RegionPlan(Original(ref[1]), Rewritten(ref[1]), producer[ref[1]], ref[2])

(* A region belongs to a source, and holds a part of its statements.       *)
LEMMA RefIs ==
  ASSUME PlanInv, NEW ref \in Regions
  PROVE  /\ ref = <<ref[1], ref[2]>> /\ ref[1] \in Sources
         /\ ref[2] \in DOMAIN producer[ref[1]]
         /\ Region(ref) = producer[ref[1]][ref[2]]
         /\ ref[2] \in DOMAIN Inventory(Rewritten(ref[1]), program.layout)
         /\ Region(ref).units = Cut(Rewritten(ref[1]), program.layout, ref[2])
         /\ Region(ref).statements = Counted(Rewritten(ref[1]), program.layout, ref[2])
<1>1. PICK s \in Sources : ref \in {s} \X DOMAIN producer[s]
  BY DEF Regions
<1>2. producer[s] = Inventory(Rewritten(s), program.layout) /\ IsText(Rewritten(s))
  BY SourceIs DEF Sound, Regioned, Rewritten
<1>3. ref = <<ref[1], ref[2]>> /\ ref[1] = s /\ ref[2] \in DOMAIN producer[s]
  BY <1>1
<1> QED BY <1>2, <1>3, RegionIs DEF Region

(* A source and a region of it.                                            *)
LEMMA IsRef ==
  ASSUME NEW s \in Sources, NEW k \in DOMAIN producer[s]
  PROVE  <<s, k>> \in Regions
BY DEF Regions

(* A counter without statements is one of an empty list.                   *)
LEMMA CountsAre ==
  ASSUME PlanInv, NEW ref \in Regions
  PROVE  Region(ref).statements = 0 <=> Region(ref).units = {}
<1> DEFINE lists == Rewritten(ref[1])
           k == ref[2]
           layout == IF program.layout.counts THEN program.layout ELSE Basic
<1>1. /\ k \in DOMAIN Inventory(lists, program.layout)
      /\ Region(ref).units = Cut(lists, program.layout, k)
      /\ Region(ref).statements = Cardinality(Cut(lists, layout, k))
  BY RefIs DEF Counted
<1>2. IsText(lists)
  BY RefIs, SourceIs DEF Sound
<1> HIDE DEF lists, k, layout
<1>3. IsFiniteSet(Cut(lists, layout, k))
  <2>1. Cut(lists, layout, k) \in SUBSET Places(lists)
    BY DEF Cut
  <2> QED BY <1>2, <2>1, PlacesFinite, FS_Subset
<1>4. ASSUME Cut(lists, program.layout, k) # {}
      PROVE  Cut(lists, layout, k) # {}
  <2>1. k \in Places(lists)
    BY <1>1, <1>2, <1>4, CutBegins
  <2>2. k \in Cut(lists, layout, k)
    BY <2>1 DEF Cut
  <2> QED BY <2>2
<1>5. ASSUME NEW p \in Cut(lists, layout, k)
      PROVE  Cut(lists, program.layout, k) # {}
  <2>1. /\ k = <<k[1], k[2]>> /\ k[1] \in DOMAIN lists /\ k[2] \in Nat \ {0}
        /\ k[2] # 1 => k[2] \in DOMAIN lists[k[1]]
    BY <1>1, <1>2, RegionIs
  <2>2. p \in Places(lists) /\ p[1] = k[1]
    BY <1>5 DEF Cut
  <2>3. DOMAIN lists[k[1]] = 1..Len(lists[k[1]]) /\ Len(lists[k[1]]) \in Nat
        /\ p[2] \in 1..Len(lists[k[1]])
    BY <1>2, <2>1, <2>2, PlaceIs DEF IsText
  <2>4. k[2] \in DOMAIN lists[k[1]]
    BY <2>1, <2>3
  <2>5. k \in Places(lists)
    BY <2>1, <2>4, IsPlace
  <2>6. k \in Cut(lists, program.layout, k)
    BY <2>5 DEF Cut
  <2> QED BY <2>6
<1> QED BY <1>1, <1>3, <1>4, <1>5, FS_EmptySet

(* With paths apart a line belongs to its own file.                        *)
LEMMA OwnersAre ==
  ASSUME PathsApart, PlanInv, NEW line \in Regions
  PROVE  /\ line[1] \in InPlan => Owners(line) = {line[1]}
         /\ line[1] \notin InPlan => Owners(line) = {} /\ Ignored(line)
<1> DEFINE s == line[1]
<1>1. s \in Sources
  BY RefIs
<1>2. ASSUME NEW t \in InPlan, PathMatches(ActualPath(s), program.sources[t].path)
      PROVE  t = s
  <2>1. program \in Programs /\ t \in Sources /\ program.sources[t].planned
    BY DEF PlanInv, InPlan
  <2>2. t # s => ~PathMatches(<<Module>> \o program.sources[s].path, program.sources[t].path)
    BY <1>1, <2>1 DEF PathsApart, Sources
  <2> QED BY <1>2, <2>2 DEF ActualPath
<1>3. PathMatches(ActualPath(s), program.sources[s].path)
  BY DEF PathMatches, ActualPath
<1>4. Owners(line) = {t \in InPlan : PathMatches(ActualPath(s), program.sources[t].path)}
  BY DEF Owners
<1>5. s \in InPlan => Owners(line) = {s}
  BY <1>2, <1>3, <1>4
<1>6. s \notin InPlan => Owners(line) = {} /\ Ignored(line)
  BY <1>1, <1>2, <1>3, <1>4 DEF Ignored
<1> QED BY <1>5, <1>6

(* A line with statements matches the plan of its region, and no other.    *)
LEMMA MatchesAre ==
  ASSUME PathsApart, PlanInv, AllProjectable, NEW line \in Regions
  PROVE  /\ line[1] \in InPlan /\ Region(line).units # {} =>
              Matches(line) = {<<line[1], PlanOfRegion(line)>>}
         /\ line[1] \notin InPlan \/ Region(line).units = {} => Matches(line) = {}
<1> DEFINE s == line[1]
           k == line[2]
           planned == Planned(Original(s), Rewritten(s), producer[s])
<1>1. /\ Matches(line) = {m \in UNION {{t} \X plan[t].regions : t \in Owners(line)} :
                            m[2].shape = Shape(line)}
      /\ Shape(line) = <<k, Region(line).statements>>
  BY DEF Matches, Shape
<1>2. s \in Sources /\ k \in DOMAIN producer[s] /\ Region(line) = producer[s][k]
  BY RefIs
<1>3. ASSUME s \notin InPlan PROVE Matches(line) = {}
  BY <1>1, <1>3, OwnersAre
<1>4. ASSUME s \in InPlan PROVE plan[s].regions = planned
  <2>1. Projectable(plan[s])
    BY <1>4 DEF AllProjectable
  <2> DEFINE source == program.sources[s]
  <2>2. /\ Sound(source.lists, source.rewritten) /\ producer[s] = Regioned(source, program.layout)
        /\ plan[s] = PlanOf(source, producer[s])
    BY <1>2, SourceIs
  <2> HIDE DEF source
  <2>3. plan[s].regions = RegionPlans(source, program.layout)
    BY <2>1, <2>2, ProjectableFinds
  <2> QED BY <2>2, <2>3 DEF RegionPlans, Original, Rewritten, source
<1>5. ASSUME s \in InPlan
      PROVE  Matches(line) = {s} \X {p \in planned : p.shape = Shape(line)}
  <2>1. Owners(line) = {s}
    BY <1>5, OwnersAre
  <2>2. UNION {{t} \X plan[t].regions : t \in Owners(line)} = {s} \X planned
    BY <1>4, <1>5, <2>1
  <2> HIDE DEF planned
  <2> QED BY <1>1, <2>2
<1>6. ASSUME NEW p \in planned, p.shape = Shape(line)
      PROVE  Region(line).units # {} /\ p = PlanOfRegion(line)
  <2>1. /\ p.region \in DOMAIN producer[s] /\ producer[s][p.region].units # {}
        /\ p = RegionPlan(Original(s), Rewritten(s), producer[s], p.region)
    BY PlansAre
  <2>2. p.shape[1] = p.region
    BY <2>1, RegionPlanIs
  <2>3. p.region = k
    BY <1>1, <1>6, <2>2
  <2> QED BY <1>2, <2>1, <2>3 DEF PlanOfRegion
<1>7. ASSUME Region(line).units # {}
      PROVE  PlanOfRegion(line) \in planned /\ PlanOfRegion(line).shape = Shape(line)
  <2>1. PlanOfRegion(line) \in planned
    BY <1>2, <1>7, PlansAre DEF PlanOfRegion
  <2>2. PlanOfRegion(line).shape = <<k, producer[s][k].statements>>
    BY RegionPlanIs DEF PlanOfRegion
  <2> QED BY <1>1, <1>2, <2>1, <2>2
<1> HIDE DEF planned, s
<1>8. ASSUME s \in InPlan, Region(line).units # {}
      PROVE  Matches(line) = {<<s, PlanOfRegion(line)>>}
  BY <1>5, <1>6, <1>7, <1>8
<1>9. ASSUME s \in InPlan, Region(line).units = {}
      PROVE  Matches(line) = {}
  BY <1>5, <1>6, <1>9
<1> QED BY <1>3, <1>8, <1>9 DEF s
-----------------------------------------------------------------------------
(***************************************************************************)
(* Acceptance.                                                             *)
(***************************************************************************)

(* Different lines match different regions.                                *)
LEMMA MatchesApart ==
  ASSUME PathsApart, PlanInv, AllProjectable, NEW i \in Regions, NEW j \in Regions, i # j
  PROVE  Matches(i) \cap Matches(j) = {}
<1>1. SUFFICES ASSUME NEW m, m \in Matches(i), m \in Matches(j)
               PROVE  FALSE
  OBVIOUS
<1>2. m = <<i[1], PlanOfRegion(i)>> /\ m = <<j[1], PlanOfRegion(j)>>
  BY <1>1, MatchesAre
<1>3. i[1] = j[1] /\ PlanOfRegion(i) = PlanOfRegion(j)
  BY <1>2
<1>4. PlanOfRegion(i).region = i[2] /\ PlanOfRegion(j).region = j[2]
  BY RegionPlanIs DEF PlanOfRegion
<1>5. i = <<i[1], i[2]>> /\ j = <<j[1], j[2]>>
  BY RefIs
<1> QED BY <1>3, <1>4, <1>5

(* The lines that there are are accepted, unless of a run that passed a    *)
(* source was not measured at all.                                         *)
LEMMA LinesAreAccepted ==
  ASSUME PathsApart, PlanInv, AllProjectable,
         RunComplete => \A s \in InPlan : Writers(s) # {}
  PROVE  Accepts(Lines)
<1>1. Lines \subseteq Regions
  BY DEF Lines
<1>2. ASSUME NEW line \in Lines PROVE Acceptable(line)
  <2>1. line \in Regions
    BY <1>1
  <2>2. CASE Region(line).units = {}
    <3>1. Region(line).statements = 0
      BY <2>1, <2>2, CountsAre
    <3>2. CASE Owners(line) = {line[1]}
      <4>1. OwnerPaths(line) = {program.sources[line[1]].path}
        BY <3>2 DEF OwnerPaths
      <4> QED BY <3>1, <4>1, FS_Singleton DEF Acceptable
    <3>3. CASE Owners(line) = {} /\ Ignored(line)
      BY <3>1, <3>3 DEF Acceptable
    <3> QED BY <2>1, <3>2, <3>3, OwnersAre
  <2>3. CASE Region(line).units # {}
    <3>1. Region(line).statements # 0
      BY <2>1, <2>3, CountsAre
    <3>2. CASE line[1] \in InPlan
      <4>1. Matches(line) = {<<line[1], PlanOfRegion(line)>>}
        BY <2>1, <2>3, <3>2, MatchesAre
      <4>2. Cardinality(Matches(line)) = 1
        BY <4>1, FS_Singleton
      <4> QED BY <3>1, <4>2 DEF Acceptable
    <3>3. CASE line[1] \notin InPlan
      <4>1. Matches(line) = {} /\ Ignored(line)
        BY <2>1, <3>3, MatchesAre, OwnersAre
      <4> QED BY <3>1, <4>1 DEF Acceptable
    <3> QED BY <3>2, <3>3
  <2> QED BY <2>2, <2>3
<1>3. \A j, k \in Lines : j # k => Matches(j) \cap Matches(k) = {}
  BY <1>1, MatchesApart
<1>4. OmitsRegion(Lines)
  <2>1. SUFFICES ASSUME RunComplete, NEW s \in InPlan, NEW ref \in Regions,
                        ref[1] = s, Region(ref).units # {}
                 PROVE  \E line \in Lines : \E m \in Matches(line) :
                          m[1] = s /\ m[2].region = ref[2]
    BY DEF OmitsRegion
  <2>2. ref \in Lines
    BY <2>1 DEF Lines
  <2>3. Matches(ref) = {<<s, PlanOfRegion(ref)>>}
    BY <2>1, MatchesAre
  <2>4. PlanOfRegion(ref).region = ref[2]
    BY RegionPlanIs DEF PlanOfRegion
  <2> DEFINE p == PlanOfRegion(ref)
  <2> HIDE DEF p
  <2>5. <<s, p>> \in Matches(ref) /\ <<s, p>>[1] = s /\ <<s, p>>[2].region = ref[2]
    BY <2>3, <2>4 DEF p
  <2> QED BY <2>2, <2>5
<1> QED BY <1>2, <1>3, <1>4 DEF Accepts, AllProjectable

(* The evidence of a statement is the line of the region that it is in.    *)
LEMMA RegionEvidenceIs ==
  ASSUME PathsApart, PlanInv, AllProjectable, NEW lines \in SUBSET Regions,
         NEW s \in InPlan, NEW k \in DOMAIN producer[s], NEW u \in producer[s][k].units,
         u \in Own(Rewritten(s))
  PROVE  RegionEvidence(lines, s, HomeOf(Original(s), Rewritten(s), u)) =
           IF <<s, k>> \in lines
           THEN [observed |-> TRUE, count |-> profile[<<s, k>>]]
           ELSE [observed |-> FALSE, count |-> 0]
<1> DEFINE o == Original(s)
           r == Rewritten(s)
           x == HomeOf(o, r, u)
           found == {line \in lines :
                       \E m \in Matches(line) : /\ m[1] = s
                                                /\ m[2].relation = "projectable"
                                                /\ x \in m[2].obligations}
           source == program.sources[s]
<1>1. s \in Sources /\ Projectable(plan[s])
  BY DEF InPlan, AllProjectable
<1>2. /\ Sound(source.lists, source.rewritten) /\ producer[s] = Regioned(source, program.layout)
      /\ plan[s] = PlanOf(source, producer[s])
  BY <1>1, SourceIs
<1>3. ASSUME NEW ref \in Regions, ref[1] = s, Region(ref).units # {}
      PROVE  /\ PlanOfRegion(ref).relation = "projectable" <=> Region(ref).units \subseteq Own(r)
             /\ PlanOfRegion(ref).relation # "projectable" => Region(ref).units \cap Own(r) = {}
             /\ PlanOfRegion(ref).relation = "projectable" =>
                  PlanOfRegion(ref).obligations = {HomeOf(o, r, v) : v \in Region(ref).units}
  <2> DEFINE p == PlanOfRegion(ref)
  <2>1. ref[2] \in DOMAIN producer[s] /\ Region(ref) = producer[s][ref[2]]
    BY <1>3, RefIs
  <2>2. p \in RegionPlans(source, program.layout) /\ p.region = ref[2]
    <3>1. p \in Planned(Original(s), Rewritten(s), producer[s])
      BY <1>3, <2>1, PlansAre DEF PlanOfRegion
    <3>2. p.region = ref[2]
      BY RegionPlanIs DEF PlanOfRegion
    <3> QED BY <1>2, <3>1, <3>2 DEF RegionPlans, Original, Rewritten
  <2> HIDE DEF p, source
  <2>3. LET units == Regioned(source, program.layout)[p.region].units
        IN  /\ p.relation = "projectable" <=> units \subseteq Own(source.rewritten)
            /\ p.relation # "projectable" => units \cap Own(source.rewritten) = {}
            /\ p.relation = "projectable" =>
                 p.obligations = {HomeOf(source.lists, source.rewritten, v) : v \in units}
    BY <1>1, <1>2, <2>2, ProjectableIsHome
  <2> QED BY <1>2, <2>1, <2>2, <2>3 DEF p, Original, Rewritten, source
<1>4. Sound(o, r)
  BY <1>1, SourceIs
<1>5. <<s, k>> \in Regions /\ Region(<<s, k>>) = producer[s][k]
  BY <1>1, IsRef DEF Region
<1>6. \A v \in Own(r) : HomeOf(o, r, v) = x => v = u
  BY <1>4, HomeIs
<1>7. ASSUME NEW line \in found PROVE line = <<s, k>>
  <2>1. PICK m \in Matches(line) : /\ m[1] = s /\ m[2].relation = "projectable"
                                   /\ x \in m[2].obligations
    OBVIOUS
  <2>2. line \in Regions
    OBVIOUS
  <2>3. m = <<line[1], PlanOfRegion(line)>> /\ Region(line).units # {}
    BY <2>1, <2>2, MatchesAre
  <2>4. line[1] = s /\ m[2] = PlanOfRegion(line)
    BY <2>1, <2>3
  <2>5. PICK v \in Region(line).units : v \in Own(r) /\ HomeOf(o, r, v) = x
    BY <1>3, <2>1, <2>2, <2>3, <2>4
  <2>6. u \in Region(line).units
    BY <1>6, <2>5
  <2>7. /\ line = <<s, line[2]>> /\ line[2] \in DOMAIN Inventory(r, program.layout)
        /\ u \in Cut(r, program.layout, line[2])
    BY <2>2, <2>4, <2>6, RefIs
  <2>8. k \in DOMAIN Inventory(r, program.layout) /\ u \in Cut(r, program.layout, k)
    <3>1. /\ <<s, k>>[2] \in DOMAIN Inventory(Rewritten(<<s, k>>[1]), program.layout)
          /\ Region(<<s, k>>).units = Cut(Rewritten(<<s, k>>[1]), program.layout, <<s, k>>[2])
      BY <1>5, RefIs
    <3> QED BY <1>5, <3>1
  <2>9. k = line[2]
    BY <1>4, <2>7, <2>8, CutsApart DEF Sound
  <2> QED BY <2>7, <2>9
<1>8. ASSUME <<s, k>> \in lines PROVE <<s, k>> \in found
  <2> DEFINE ref == <<s, k>>
             p == PlanOfRegion(ref)
  <2>1. ref \in Regions /\ ref[1] = s /\ u \in Region(ref).units
    BY <1>5
  <2>2. Matches(ref) = {<<s, p>>}
    BY <2>1, MatchesAre
  <2>3. p.relation = "projectable" /\ x \in p.obligations
    BY <1>3, <2>1
  <2> HIDE DEF p
  <2>4. <<s, p>> \in Matches(ref) /\ <<s, p>>[1] = s /\ <<s, p>>[2] = p
    BY <2>2
  <2> HIDE DEF x
  <2>5. \E m \in Matches(ref) : /\ m[1] = s /\ m[2].relation = "projectable"
                                /\ x \in m[2].obligations
    BY <2>3, <2>4
  <2> QED BY <1>8, <2>5
<1>9. RegionEvidence(lines, s, x) =
        IF found = {} THEN [observed |-> FALSE, count |-> 0]
        ELSE [observed |-> TRUE, count |-> profile[CHOOSE line \in found : TRUE]]
  BY DEF RegionEvidence
<1>10. found \subseteq lines
  OBVIOUS
<1> HIDE DEF found, x, o, r
<1>11. CASE <<s, k>> \in lines
  <2>1. found # {} /\ (CHOOSE line \in found : TRUE) = <<s, k>>
    BY <1>7, <1>8, <1>11
  <2> QED BY <1>9, <1>11, <2>1 DEF x, o, r
<1>12. CASE <<s, k>> \notin lines
  <2>1. found = {}
    BY <1>7, <1>10, <1>12
  <2> QED BY <1>9, <1>12, <2>1 DEF x, o, r
<1> QED BY <1>11, <1>12

(* The spans that are projected have the evidence of their statements.     *)
LEMMA ProjectedIs ==
  ASSUME PlanInv, NEW lines, NEW s \in InPlan, outcome.evidence = Evidence(lines),
         \A x \in Places(Original(s)) : RegionEvidence(lines, s, x) \in EachType,
         NEW separate \in BOOLEAN, NEW p \in Places(Original(s))
  PROVE  \E span \in Projected(s, separate) :
           /\ Covering(Projected(s, separate), p) = {span}
           /\ span.evidence.count = RegionEvidence(lines, s, p).count
           /\ span.evidence.observed = RegionEvidence(lines, s, p).observed
<1> DEFINE o == Original(s)
           Each0(f) == [q \in OriginalUnits(s, f) |-> RegionEvidence(lines, s, q)]
           S(f) == Spans(BlockEvidence(Each0(f), f), OriginalUnits(s, f), separate)
<1>1. IsText(o)
  BY SourceIs DEF InPlan, Sound
<1>2. \A f : OriginalUnits(s, f) = Cut(o, Basic, f)
  BY DEF OriginalUnits, Original
<1>3. OriginalBlocks(s) = {f \in DOMAIN Inventory(o, Basic) : OriginalUnits(s, f) # {}}
  BY DEF OriginalBlocks, Original
<1>4. \A f \in OriginalBlocks(s) : outcome.evidence[s][f] = BlockEvidence(Each0(f), f)
  BY DEF Evidence
<1>5. Projected(s, separate) = UNION {S(f) : f \in OriginalBlocks(s)}
  BY <1>4 DEF Projected
<1>6. PICK first \in OriginalBlocks(s) : p \in OriginalUnits(s, first)
  <2>1. PICK f \in DOMAIN Inventory(o, Basic) : p \in Cut(o, Basic, f)
    BY <1>1, CutsCover
  <2> QED BY <1>2, <1>3, <2>1
<1>7. ASSUME NEW f \in OriginalBlocks(s), NEW span \in S(f), p \in span.units
      PROVE  f = first
  <2>1. p \in OriginalUnits(s, f)
    BY <1>7, SpansWithin
  <2> QED BY <1>1, <1>2, <1>3, <1>6, <2>1, CutsApart
<1>8. \E span \in S(first) :
        /\ {x \in S(first) : p \in x.units} = {span}
        /\ span.evidence.count = RegionEvidence(lines, s, p).count
        /\ span.evidence.observed = RegionEvidence(lines, s, p).observed
  <2> DEFINE each == Each0(first)
             units == Cut(o, Basic, first)
  <2>1. /\ DOMAIN each = units /\ p \in units
        /\ each[p] = RegionEvidence(lines, s, p)
        /\ \A q \in units : each[q] = RegionEvidence(lines, s, q) /\ q \in Places(o)
    BY <1>2, <1>6 DEF Cut
  <2>2. \A q \in units : each[q] \in EachType
    BY <2>1
  <2>3. S(first) = Spans(BlockEvidence(each, first), units, separate)
    BY <1>2
  <2>4. first \in DOMAIN Inventory(o, Basic)
    BY <1>3
  <2> HIDE DEF each, S, Each0, units
  <2>5. \E span \in S(first) : /\ {x \in S(first) : p \in x.units} = {span}
                               /\ span.evidence.count = each[p].count
                               /\ span.evidence.observed = each[p].observed
    BY <1>1, <2>1, <2>2, <2>3, <2>4, SpanIs DEF units
  <2> QED BY <2>1, <2>5
<1> HIDE DEF S
<1>9. PICK span \in S(first) :
        /\ {x \in S(first) : p \in x.units} = {span}
        /\ span.evidence.count = RegionEvidence(lines, s, p).count
        /\ span.evidence.observed = RegionEvidence(lines, s, p).observed
  BY <1>8
<1>10. span \in Projected(s, separate)
  BY <1>5
<1>11. Covering(Projected(s, separate), p) = {span}
  BY <1>5, <1>7, <1>9 DEF Covering
<1> QED BY <1>9, <1>10, <1>11
-----------------------------------------------------------------------------
(***************************************************************************)
(* Counters and what has begun.                                            *)
(***************************************************************************)
FileStates == {"none", "kept", "failed", "removed"}

CountersType ==
  /\ counters \in [Binaries -> [Regions -> Nat]]
  /\ counterFile \in [Binaries -> [Sources -> FileStates]]
  /\ spent \in [Binaries -> SUBSET Regions] /\ DOMAIN began = Binaries

HasBegun(b, s, p) == <<s, Statement(Rewritten(s), p).id>> \in began[b]

(* The counter of a test file's region is not in a counter file.           *)
NotKept(b, ref) ==
  counterFile[b][ref[1]] \in {"failed", "removed"} \/ ref \in spent[b]

(* Of a test file nothing begins before its counter file, and no counter   *)
(* is lost without a failure, which is reported if its report can be.      *)
FilesInv ==
  \A b \in Binaries :
    /\ \A s \in Sources : IsTest(s) /\ counterFile[b][s] = "none" =>
         \A p \in Places(Rewritten(s)) : ~HasBegun(b, s, p)
    /\ \A ref \in Regions : NotKept(b, ref) => reported \/ <<b, ref>> \in unreported

(* What has begun has begun from the start of its list.                    *)
OrderInv ==
  \A b \in Binaries, s \in Sources :
    \A p \in Places(Rewritten(s)), q \in Own(Rewritten(s)) :
      p[1] = q[1] /\ p[2] <= q[2] /\ HasBegun(b, s, q) => HasBegun(b, s, p)

(* A counter counts if the region's first statement has begun, unless it   *)
(* is that of a test file and is not kept.                                 *)
CountInv ==
  \A b \in Binaries, ref \in Regions :
    ref[2] \in Own(Rewritten(ref[1])) =>
      /\ counters[b][ref] > 0 => HasBegun(b, ref[1], ref[2])
      /\ HasBegun(b, ref[1], ref[2]) =>
           \/ counters[b][ref] > 0
           \/ IsTest(ref[1]) /\ NotKept(b, ref)

HitsInv == PlanInv /\ CountersType /\ FilesInv /\ OrderInv /\ CountInv

(* What a step may do to the counter files: what is not kept stays so, and *)
(* becomes so by a failure.                                                *)
FilesGrow ==
  /\ counterFile' \in [Binaries -> [Sources -> FileStates]]
  /\ spent' \in [Binaries -> SUBSET Regions]
  /\ reported => reported'
  /\ unreported \subseteq unreported'
  /\ \A b \in Binaries, s \in Sources :
       counterFile'[b][s] = "none" => counterFile[b][s] = "none"
  /\ \A b \in Binaries, ref \in Regions :
       /\ NotKept(b, ref) => NotKept(b, ref)'
       /\ NotKept(b, ref)' => NotKept(b, ref) \/ reported' \/ <<b, ref>> \in unreported'

(* What the program determines stays.                                      *)
LEMMA StaticsStay ==
  ASSUME UNCHANGED planning
  PROVE  /\ Sources' = Sources /\ Regions' = Regions /\ InPlan' = InPlan
         /\ \A s : /\ Original(s)' = Original(s) /\ Rewritten(s)' = Rewritten(s)
                   /\ IsTest(s)' = IsTest(s)
         /\ \A ref : Region(ref)' = Region(ref)
BY DEF planning, Sources, Regions, InPlan, Original, Rewritten, IsTest, Region

(* Of the files a step has kept the invariant.                             *)
LEMMA GrowKeeps ==
  ASSUME HitsInv, UNCHANGED planning, FilesGrow,
         \A b \in Binaries, s \in Sources : IsTest(s) /\ counterFile[b][s] = "none" =>
           \A p \in Places(Rewritten(s)) : ~HasBegun(b, s, p)'
  PROVE  FilesInv'
<1>1. /\ Sources' = Sources /\ Regions' = Regions
      /\ \A s : Rewritten(s)' = Rewritten(s) /\ IsTest(s)' = IsTest(s)
  BY StaticsStay
<1>2. ASSUME NEW b \in Binaries, NEW s \in Sources, IsTest(s), counterFile'[b][s] = "none",
             NEW p \in Places(Rewritten(s))
      PROVE  ~HasBegun(b, s, p)'
  BY <1>2 DEF FilesGrow
<1>3. ASSUME NEW b \in Binaries, NEW ref \in Regions, NotKept(b, ref)'
      PROVE  reported' \/ <<b, ref>> \in unreported'
  BY <1>3 DEF HitsInv, FilesInv, FilesGrow
<1> QED BY <1>1, <1>2, <1>3 DEF FilesInv

(* Without a hit the counters stay right, whatever becomes of the files.   *)
LEMMA NoHitKeeps ==
  ASSUME HitsInv, UNCHANGED planning, UNCHANGED <<counters, began>>, FilesGrow
  PROVE  HitsInv'
<1>1. PlanInv'
  BY DEF HitsInv, PlanInv, planning, Sources
<1>2. /\ Sources' = Sources /\ Regions' = Regions
      /\ \A s : Rewritten(s)' = Rewritten(s) /\ IsTest(s)' = IsTest(s)
  BY StaticsStay
<1>3. counters' = counters /\ began' = began
  OBVIOUS
<1>4. \A b, s, p : HasBegun(b, s, p)' = HasBegun(b, s, p)
  BY <1>2, <1>3 DEF HasBegun
<1>5. CountersType'
  BY <1>2, <1>3 DEF HitsInv, CountersType, FilesGrow
<1>6. FilesInv'
  BY <1>4, GrowKeeps DEF HitsInv, FilesInv
<1>7. OrderInv'
  BY <1>2, <1>4 DEF HitsInv, OrderInv
<1>8. CountInv'
  <2>1. ASSUME NEW b \in Binaries, NEW ref \in Regions, ref[2] \in Own(Rewritten(ref[1]))
        PROVE  /\ counters[b][ref] > 0 => HasBegun(b, ref[1], ref[2])
               /\ HasBegun(b, ref[1], ref[2]) =>
                    \/ counters[b][ref] > 0
                    \/ IsTest(ref[1]) /\ NotKept(b, ref)'
    BY <2>1 DEF HitsInv, CountInv, FilesGrow
  <2> QED BY <1>2, <1>3, <1>4, <2>1 DEF CountInv
<1> QED BY <1>1, <1>5, <1>6, <1>7, <1>8 DEF HitsInv

(* Files that stay.                                                        *)
LEMMA StoredGrows ==
  ASSUME HitsInv, UNCHANGED stored, UNCHANGED planning
  PROVE  FilesGrow
<1>1. /\ counterFile' = counterFile /\ spent' = spent
      /\ reported' = reported /\ unreported' = unreported
  BY DEF stored
<1>2. \A b, ref : NotKept(b, ref)' = NotKept(b, ref)
  BY <1>1 DEF NotKept
<1> QED BY <1>1, <1>2 DEF FilesGrow, HitsInv, CountersType

(* A file that is kept, and a failure.                                     *)
LEMMA FailureGrows ==
  ASSUME HitsInv, NEW b \in Binaries, NEW s \in Sources, NEW state \in FileStates \ {"none"},
         NEW refs \in SUBSET Regions, NEW gone \in SUBSET refs,
         counterFile[b][s] \in {"none", "kept", state},
         counterFile' = [counterFile EXCEPT ![b][s] = state],
         spent' = [spent EXCEPT ![b] = spent[b] \cup gone],
         \/ Failure(b, refs) /\ (state # counterFile[b][s] => OfSource(s) \subseteq refs)
         \/ state = "kept" /\ refs = {} /\ UNCHANGED <<reported, unreported>>
  PROVE  FilesGrow
<1>1. /\ counterFile' \in [Binaries -> [Sources -> FileStates]]
      /\ \A c \in Binaries, t \in Sources :
           counterFile'[c][t] = IF c = b /\ t = s THEN state ELSE counterFile[c][t]
  <2>1. counterFile \in [Binaries -> [Sources -> FileStates]] /\ state \in FileStates
    BY DEF HitsInv, CountersType
  <2> QED BY <2>1
<1>2. /\ spent' \in [Binaries -> SUBSET Regions]
      /\ \A c \in Binaries : spent'[c] = IF c = b THEN spent[b] \cup gone ELSE spent[c]
  BY DEF HitsInv, CountersType
<1>3. (reported => reported') /\ unreported \subseteq unreported'
  BY DEF Failure
<1>4. ASSUME NEW c \in Binaries, NEW ref \in Regions
      PROVE  /\ NotKept(c, ref) => NotKept(c, ref)'
             /\ NotKept(c, ref)' => NotKept(c, ref) \/ reported' \/ <<c, ref>> \in unreported'
  <2>1. ref[1] \in Sources
    BY RefIs DEF HitsInv
  <2>2. /\ NotKept(c, ref) <=>
             counterFile[c][ref[1]] \in {"failed", "removed"} \/ ref \in spent[c]
        /\ NotKept(c, ref)' <=>
             counterFile'[c][ref[1]] \in {"failed", "removed"} \/ ref \in spent'[c]
    BY DEF NotKept
  <2>3. NotKept(c, ref) => NotKept(c, ref)'
    BY <1>1, <1>2, <2>1, <2>2
  <2>4. ASSUME NotKept(c, ref)', ~NotKept(c, ref)
        PROVE  c = b /\ ref \in refs /\ Failure(b, refs)
    <3>1. CASE ref \in spent'[c]
      <4>1. c = b /\ ref \in gone
        BY <1>2, <2>2, <2>4, <3>1
      <4> QED BY <4>1
    <3>2. CASE counterFile'[c][ref[1]] \in {"failed", "removed"}
      <4>1. c = b /\ ref[1] = s /\ state # counterFile[b][s] /\ state # "kept"
        BY <1>1, <2>1, <2>2, <2>4, <3>2
      <4>2. ref \in OfSource(s)
        BY <4>1 DEF OfSource
      <4> QED BY <4>1, <4>2
    <3> QED BY <2>2, <2>4, <3>1, <3>2
  <2>5. Failure(b, refs) => reported' \/ {b} \X refs \subseteq unreported'
    BY DEF Failure
  <2> QED BY <2>3, <2>4, <2>5
<1> QED BY <1>1, <1>2, <1>3, <1>4 DEF FilesGrow

(* A binary runs into a list, up to one of its statements, and hits what   *)
(* is kept of its counters.                                                *)
LEMMA RunKeeps ==
  ASSUME HitsInv, UNCHANGED planning, FilesGrow, NEW b \in Binaries, NEW s \in Sources,
         NEW l \in DOMAIN program.sources[s].rewritten,
         NEW n \in 1..Len(program.sources[s].rewritten[l]), Begin(b, s, l, n),
         IsTest(s) => counterFile[b][s] # "none",
         NEW hit \in [Regions -> Nat], counters' = [counters EXCEPT ![b] = hit],
         \A ref \in Regions \ Reached(s, l, n) : hit[ref] = counters[b][ref],
         \A ref \in Reached(s, l, n) : hit[ref] = 0 => IsTest(s) /\ NotKept(b, ref)'
  PROVE  HitsInv'
<1> DEFINE r == Rewritten(s)
           reached == Reached(s, l, n)
           ran == {l} \X (1..n)
<1>1. /\ began' = [began EXCEPT ![b] = began[b] \cup {<<s, id>> : id \in Ids(r, ran)}]
      /\ \A ref \in Regions \ reached : hit[ref] = counters[b][ref]
      /\ \A ref \in reached : hit[ref] = 0 => IsTest(s) /\ NotKept(b, ref)'
  BY DEF Begin, Rewritten
<1>2. PlanInv'
  BY DEF HitsInv, PlanInv, planning, Sources
<1>3. /\ Sources' = Sources /\ Regions' = Regions
      /\ \A t : Rewritten(t)' = Rewritten(t) /\ IsTest(t)' = IsTest(t)
  BY StaticsStay
<1>4. PlanInv /\ CountersType /\ FilesInv /\ OrderInv /\ CountInv
  BY DEF HitsInv
<1>6. IsText(r) /\ HasIdentities(r, Own(r))
  BY <1>4, SourceIs DEF Sound, IsRewriting
<1>7. ASSUME NEW c \in Binaries, NEW t \in Sources, NEW p \in Places(Rewritten(t))
      PROVE  HasBegun(c, t, p)' <=>
               \/ HasBegun(c, t, p)
               \/ c = b /\ t = s /\ Statement(r, p).id \in Ids(r, ran)
  <2> DEFINE id == Statement(Rewritten(t), p).id
             new == Ids(r, ran)
  <2>1. HasBegun(c, t, p)' <=> <<t, id>> \in began'[c]
    BY <1>3 DEF HasBegun
  <2>2. HasBegun(c, t, p) <=> <<t, id>> \in began[c]
    BY DEF HasBegun
  <2>3. t = s => id = Statement(r, p).id
    OBVIOUS
  <2> HIDE DEF id, new
  <2>4. began'[c] = IF c = b THEN began[b] \cup {<<s, i>> : i \in new} ELSE began[c]
    BY <1>1, <1>4 DEF CountersType, new
  <2>5. <<t, id>> \in {<<s, i>> : i \in new} <=> t = s /\ id \in new
    OBVIOUS
  <2> QED BY <2>1, <2>2, <2>3, <2>4, <2>5 DEF new
<1>8. ASSUME NEW q \in Own(r)
      PROVE  Statement(r, q).id \in Ids(r, ran) <=> q[1] = l /\ q[2] <= n
  <2>1. q \in Places(r) /\ q = <<q[1], q[2]>> /\ q[2] \in Nat \ {0} /\ q[1] \in DOMAIN r
        /\ Statement(r, q).id # Generated
    BY <1>6, PlaceIs DEF Own
  <2>2. ASSUME q[1] = l, q[2] <= n PROVE Statement(r, q).id \in Ids(r, ran)
    <3>1. q \in ran
      BY <2>1, <2>2
    <3> QED BY <3>1 DEF Ids
  <2>3. ASSUME Statement(r, q).id \in Ids(r, ran) PROVE q[1] = l /\ q[2] <= n
    <3>1. PICK x \in ran : Statement(r, q).id = Statement(r, x).id
      BY <2>3 DEF Ids
    <3>2. l \in DOMAIN r /\ DOMAIN r[l] = 1..Len(r[l]) /\ Len(r[l]) \in Nat /\ n \in 1..Len(r[l])
      BY <1>6 DEF IsText, Rewritten
    <3>3. x[1] = l /\ x[2] \in 1..n /\ x = <<l, x[2]>> /\ x[2] \in DOMAIN r[l]
      BY <3>2
    <3>4. x \in Places(r)
      BY <3>2, <3>3, IsPlace
    <3>5. x \in Own(r)
      BY <2>1, <3>1, <3>4 DEF Own
    <3>6. x = q
      BY <1>6, <3>1, <3>5 DEF HasIdentities
    <3> QED BY <3>3, <3>6
  <2> QED BY <2>2, <2>3
<1>9. ASSUME NEW p \in Places(r), p[1] = l, p[2] <= n
      PROVE  Statement(r, p).id \in Ids(r, ran)
  <2>1. p = <<p[1], p[2]>> /\ p[2] \in Nat \ {0}
    BY <1>6, PlaceIs
  <2>2. p \in ran
    BY <1>9, <2>1
  <2> QED BY <2>2 DEF Ids
<1>10. ASSUME NEW ref \in Regions, ref[1] = s, ref[2] \in Own(r)
       PROVE  ref \in reached <=> ref[2][1] = l /\ ref[2][2] <= n
  <2>1. /\ ref[2] \in DOMAIN Inventory(r, program.layout)
        /\ Region(ref).units = Cut(r, program.layout, ref[2])
    BY <1>4, <1>10, RefIs
  <2>2. ref[2] \in Region(ref).units
    BY <1>10, <2>1 DEF Own, Cut
  <2> QED BY <1>10, <2>2 DEF Reached
<1>11. \A ref \in reached : ref \in Regions /\ ref[1] = s
  BY DEF Reached
<1> HIDE DEF r, reached, ran
<1>13. /\ counters' \in [Binaries -> [Regions -> Nat]]
       /\ \A c \in Binaries, ref \in Regions :
            counters'[c][ref] = IF c = b THEN hit[ref] ELSE counters[c][ref]
  <2>1. counters \in [Binaries -> [Regions -> Nat]]
    BY <1>4 DEF CountersType
  <2> QED BY <2>1
<1>14. CountersType'
  <2>1. DOMAIN began' = Binaries
    BY <1>1, <1>4 DEF CountersType
  <2> QED BY <1>3, <1>13, <2>1 DEF CountersType, FilesGrow
<1>15. FilesInv'
  <2>1. ASSUME NEW c \in Binaries, NEW t \in Sources, IsTest(t), counterFile[c][t] = "none",
               NEW p \in Places(Rewritten(t))
        PROVE  ~HasBegun(c, t, p)'
    BY <1>4, <1>7, <2>1 DEF FilesInv
  <2> QED BY <2>1, GrowKeeps
<1>16. OrderInv'
  <2>1. ASSUME NEW c \in Binaries, NEW t \in Sources,
               NEW p \in Places(Rewritten(t)), NEW q \in Own(Rewritten(t)),
               p[1] = q[1], p[2] <= q[2], HasBegun(c, t, q)'
        PROVE  HasBegun(c, t, p)'
    <3>1. q \in Places(Rewritten(t))
      BY DEF Own
    <3>2. CASE HasBegun(c, t, q)
      <4>1. HasBegun(c, t, p)
        BY <1>4, <2>1, <3>2 DEF OrderInv
      <4> QED BY <1>7, <4>1
    <3>3. CASE ~HasBegun(c, t, q)
      <4>1. c = b /\ t = s /\ Statement(r, q).id \in Ids(r, ran)
        BY <1>7, <2>1, <3>1, <3>3
      <4>2. Rewritten(t) = r
        BY <4>1 DEF r
      <4>3. q[1] = l /\ q[2] <= n
        BY <1>8, <4>1, <4>2
      <4>4. p[2] \in Nat /\ q[2] \in Nat /\ n \in Nat
        BY <1>6, <3>1, <4>2, PlaceIs
      <4>5. p[1] = l /\ p[2] <= n
        BY <2>1, <4>3, <4>4
      <4>6. Statement(r, p).id \in Ids(r, ran)
        BY <1>9, <4>2, <4>5
      <4> QED BY <1>7, <4>1, <4>6
    <3> QED BY <3>2, <3>3
  <2> QED BY <1>3, <2>1 DEF OrderInv
<1>17. CountInv'
  <2>1. ASSUME NEW c \in Binaries, NEW ref \in Regions, ref[2] \in Own(Rewritten(ref[1]))
        PROVE  /\ counters'[c][ref] > 0 => HasBegun(c, ref[1], ref[2])'
               /\ HasBegun(c, ref[1], ref[2])' =>
                    \/ counters'[c][ref] > 0
                    \/ IsTest(ref[1]) /\ NotKept(c, ref)'
    <3> DEFINE t == ref[1]
               k == ref[2]
    <3>1. t \in Sources /\ k \in Places(Rewritten(t))
      BY <1>4, <2>1, RefIs DEF Own
    <3>2. /\ counters[c][ref] > 0 => HasBegun(c, t, k)
          /\ HasBegun(c, t, k) => counters[c][ref] > 0 \/ (IsTest(t) /\ NotKept(c, ref)')
      BY <1>4, <2>1 DEF CountInv, FilesGrow
    <3>3. HasBegun(c, t, k)' <=>
            HasBegun(c, t, k) \/ (c = b /\ t = s /\ Statement(r, k).id \in Ids(r, ran))
      BY <1>7, <3>1
    <3>4. counters'[c][ref] = IF c = b THEN hit[ref] ELSE counters[c][ref]
      BY <1>13
    <3> HIDE DEF t, k
    <3>5. CASE c = b /\ ref \in reached
      <4>1. t = s
        BY <1>11, <3>5 DEF t
      <4>2. ref \in reached <=> Statement(r, k).id \in Ids(r, ran)
        BY <1>8, <1>10, <2>1, <4>1 DEF t, k, r
      <4>3. HasBegun(c, t, k)'
        BY <3>3, <3>5, <4>1, <4>2
      <4>4. hit[ref] \in Nat /\ (hit[ref] = 0 => IsTest(t) /\ NotKept(c, ref)')
        BY <1>1, <3>5, <4>1
      <4> QED BY <3>4, <3>5, <4>3, <4>4 DEF t, k
    <3>6. CASE ~(c = b /\ ref \in reached)
      <4>1. counters'[c][ref] = counters[c][ref]
        BY <1>1, <3>4, <3>6
      <4>2. c = b /\ t = s => ~(Statement(r, k).id \in Ids(r, ran))
        BY <1>8, <1>10, <2>1, <3>6 DEF t, k, r
      <4> QED BY <3>2, <3>3, <4>1, <4>2 DEF t, k
    <3> QED BY <3>5, <3>6
  <2>2. ASSUME NEW c \in Binaries, NEW ref \in Regions
        PROVE  HasBegun(c, ref[1], ref[2])' <=>
                 <<ref[1], Statement(Rewritten(ref[1]), ref[2]).id>> \in began'[c]
    BY <1>3 DEF HasBegun
  <2> QED BY <1>3, <2>1 DEF CountInv
<1> QED BY <1>2, <1>14, <1>15, <1>16, <1>17 DEF HitsInv

(* Hits without a failure count, except those of counters that are not     *)
(* kept.                                                                   *)
LEMMA AfterHitsAre ==
  ASSUME HitsInv, NEW b \in Binaries, NEW s \in Sources, NEW l, NEW n,
         IsTest(s) => counterFile[b][s] # "none"
  PROVE  /\ AfterHits(b, Reached(s, l, n)) \in [Regions -> Nat]
         /\ \A ref \in Regions \ Reached(s, l, n) :
              AfterHits(b, Reached(s, l, n))[ref] = counters[b][ref]
         /\ \A ref \in Reached(s, l, n) :
              AfterHits(b, Reached(s, l, n))[ref] = 0 => IsTest(s) /\ NotKept(b, ref)
<1> DEFINE reached == Reached(s, l, n)
<1>1. \A ref \in reached : ref \in Regions /\ ref[1] = s
  BY DEF Reached
<1>2. \A ref \in Regions : counters[b][ref] \in Nat
  BY DEF HitsInv, CountersType
<1>3. IsTest(s) => counterFile[b][s] \in {"kept", "failed", "removed"}
  BY DEF HitsInv, CountersType, FileStates
<1> HIDE DEF reached
<1>4. ASSUME NEW ref \in reached
      PROVE  Hit(b, ref) \in Nat /\ (Hit(b, ref) = 0 => IsTest(s) /\ NotKept(b, ref))
  BY <1>1, <1>2, <1>3 DEF Hit, NotKept
<1> QED BY <1>1, <1>2, <1>4 DEF AfterHits, reached

(* A binary runs into a list and hits its counters.                        *)
LEMMA ExecuteKeeps ==
  ASSUME HitsInv, NEW b \in Binaries, NEW s \in Sources,
         NEW l \in DOMAIN program.sources[s].rewritten,
         NEW n \in 1..Len(program.sources[s].rewritten[l]), Execute(b, s, l, n)
  PROVE  HitsInv'
<1> DEFINE reached == Reached(s, l, n)
           hit == AfterHits(b, reached)
<1>1. /\ UNCHANGED planning /\ UNCHANGED stored /\ Begin(b, s, l, n)
      /\ counters' = [counters EXCEPT ![b] = hit]
      /\ IsTest(s) => counterFile[b][s] # "none"
  BY DEF Execute, MayHit, planning
<1>2. FilesGrow
  BY <1>1, StoredGrows
<1>3. \A ref \in reached : ref \in Regions /\ ref[1] = s
  BY DEF Reached
<1>4. hit \in [Regions -> Nat]
  BY <1>1, AfterHitsAre
<1>5. \A ref \in Regions \ reached : hit[ref] = counters[b][ref]
  BY <1>1, AfterHitsAre
<1>6. ASSUME NEW ref \in reached, hit[ref] = 0
      PROVE  IsTest(s) /\ NotKept(b, ref)'
  <2>1. IsTest(s) /\ NotKept(b, ref)
    BY <1>1, <1>3, <1>6, AfterHitsAre
  <2> QED BY <1>2, <1>3, <2>1 DEF FilesGrow
<1> HIDE DEF hit
<1> QED BY <1>1, <1>2, <1>4, <1>5, <1>6, RunKeeps

(* The last of the hits fails.                                             *)
LEMMA HitFailsKeeps ==
  ASSUME HitsInv, NEW b \in Binaries, NEW s \in Sources,
         NEW l \in DOMAIN program.sources[s].rewritten,
         NEW n \in 1..Len(program.sources[s].rewritten[l]), HitFails(b, s, l, n)
  PROVE  HitsInv'
<1> DEFINE ref == <<s, <<l, n>>>>
           earlier == Reached(s, l, n - 1)
           before == AfterHits(b, earlier)
<1>1. /\ UNCHANGED planning /\ Begin(b, s, l, n)
      /\ IsTest(s) /\ counterFile[b][s] \in {"kept", "removed"}
      /\ ref \in Reached(s, l, n)
      /\ spent' = [spent EXCEPT ![b] = spent[b] \cup {ref}]
  BY DEF HitFails, LastHitFails, Fresh, planning
<1>2. ref \in Regions /\ ref[1] = s
  BY <1>1 DEF Reached
<1>3. PICK byte \in {0, 1} : counters' = [counters EXCEPT ![b] = [before EXCEPT ![ref] = byte]]
  <2>1. PICK byte \in IF counterFile[b][s] = "kept" THEN {0, 1} ELSE {0} :
          counters' = [counters EXCEPT ![b] = [before EXCEPT ![ref] = byte]]
    BY DEF HitFails, LastHitFails
  <2> QED BY <2>1
<1>4. FilesGrow
  <2>1. CASE counterFile[b][s] = "kept" /\ UNCHANGED counterFile /\ Failure(b, {ref})
    <3>1. counterFile' = [counterFile EXCEPT ![b][s] = "kept"]
      BY <2>1 DEF HitsInv, CountersType
    <3> DEFINE refs == {ref}
               state == "kept"
    <3>2. refs \in SUBSET Regions /\ refs \in SUBSET refs
      BY <1>2
    <3>3. state \in FileStates \ {"none"} /\ counterFile[b][s] = state
      BY <2>1 DEF FileStates
    <3>4. spent' = [spent EXCEPT ![b] = spent[b] \cup refs]
      BY <1>1
    <3>5. counterFile' = [counterFile EXCEPT ![b][s] = state] /\ Failure(b, refs)
      BY <2>1, <3>1
    <3> HIDE DEF refs, state
    <3> QED BY <3>2, <3>3, <3>4, <3>5, FailureGrows
  <2>2. CASE /\ counterFile' = [counterFile EXCEPT ![b][s] = "removed"]
             /\ Failure(b, OfSource(s))
    <3> DEFINE refs == OfSource(s)
               gone == {ref}
               state == "removed"
    <3>1. refs \in SUBSET Regions /\ gone \in SUBSET refs /\ refs \subseteq refs
      BY <1>2 DEF OfSource
    <3>2. state \in FileStates \ {"none"} /\ counterFile[b][s] \in {"none", "kept", state}
      BY <1>1 DEF FileStates
    <3>3. spent' = [spent EXCEPT ![b] = spent[b] \cup gone]
      BY <1>1
    <3>4. counterFile' = [counterFile EXCEPT ![b][s] = state] /\ Failure(b, refs)
      BY <2>2
    <3> HIDE DEF refs, gone, state
    <3> QED BY <3>1, <3>2, <3>3, <3>4, FailureGrows DEF refs
  <2> QED BY <2>1, <2>2 DEF HitFails
<1> DEFINE hit == [before EXCEPT ![ref] = byte]
<1>5. before \in [Regions -> Nat]
  BY <1>1, AfterHitsAre
<1>6. /\ hit \in [Regions -> Nat]
      /\ \A x \in Regions : hit[x] = IF x = ref THEN byte ELSE before[x]
  <2>1. ASSUME NEW f \in [Regions -> Nat], NEW y
        PROVE  /\ [f EXCEPT ![y] = byte] \in [Regions -> Nat]
               /\ \A x \in Regions :
                    [f EXCEPT ![y] = byte][x] = IF x = y THEN byte ELSE f[x]
    <3>1. byte \in Nat
      BY <1>3
    <3> QED BY <3>1
  <2> HIDE DEF ref, before
  <2> QED BY <1>5, <2>1
<1>7. /\ \A x \in earlier : x \in Reached(s, l, n)
      /\ \A x \in Reached(s, l, n) : x \in Regions /\ x[1] = s /\ (x = ref \/ x \in earlier)
  <2>1. IsText(Rewritten(s))
    BY SourceIs DEF HitsInv, Sound
  <2>2. n \in Nat
    BY <2>1 DEF IsText, Rewritten
  <2>3. ASSUME NEW x \in Regions, x[1] = s
        PROVE  /\ x = <<x[1], x[2]>> /\ x[2] = <<x[2][1], x[2][2]>>
               /\ x[2][2] \in Nat
    <3>1. x = <<x[1], x[2]>> /\ x[2] \in DOMAIN Inventory(Rewritten(s), program.layout)
      BY <2>3, RefIs DEF HitsInv
    <3>2. PICK m \in DOMAIN Rewritten(s) : x[2] \in {m} \X Starts(Rewritten(s)[m], program.layout)
      BY <3>1 DEF Inventory
    <3>3. Starts(Rewritten(s)[m], program.layout) \subseteq Nat
      BY <2>1, <3>2 DEF Starts, IsText
    <3> QED BY <3>1, <3>2, <3>3
  <2>4. ASSUME NEW x \in Reached(s, l, n), x \notin earlier
        PROVE  x = ref
    <3>1. x \in Regions /\ x[1] = s /\ x[2][1] = l /\ x[2][2] <= n /\ ~(x[2][2] <= n - 1)
      BY <2>4 DEF Reached
    <3>2. x[2][2] = n
      BY <2>2, <2>3, <3>1
    <3> QED BY <2>3, <3>1, <3>2
  <2>5. ASSUME NEW x \in earlier
        PROVE  x \in Reached(s, l, n)
    <3>1. x \in Regions /\ x[1] = s /\ x[2][2] <= n - 1
      BY <2>5 DEF Reached
    <3>2. x[2][2] <= n
      BY <2>2, <2>3, <3>1
    <3> QED BY <2>5, <3>2 DEF Reached
  <2>6. \A x \in Reached(s, l, n) : x \in Regions /\ x[1] = s
    BY DEF Reached
  <2> QED BY <2>4, <2>5, <2>6
<1> HIDE DEF before, hit, ref
<1>8. \A x \in Regions \ Reached(s, l, n) : hit[x] = counters[b][x]
  BY <1>1, <1>6, <1>7, AfterHitsAre DEF before
<1>9. ASSUME NEW x \in Reached(s, l, n), hit[x] = 0
      PROVE  IsTest(s) /\ NotKept(b, x)'
  <2>1. CASE x = ref
    <3>1. ref \in spent'[b]
      BY <1>1 DEF HitsInv, CountersType
    <3> QED BY <1>1, <2>1, <3>1 DEF NotKept
  <2>2. CASE x # ref
    <3>1. x \in earlier /\ x \in Regions /\ before[x] = 0
      BY <1>6, <1>7, <1>9, <2>2
    <3>2. NotKept(b, x)
      BY <1>1, <3>1, AfterHitsAre DEF before
    <3> QED BY <1>1, <1>4, <3>1, <3>2 DEF FilesGrow
  <2> QED BY <2>1, <2>2
<1>10. counters' = [counters EXCEPT ![b] = hit]
  BY <1>3 DEF hit
<1> QED BY <1>1, <1>4, <1>6, <1>8, <1>9, <1>10, RunKeeps
-----------------------------------------------------------------------------
(***************************************************************************)
(* The outcome.                                                            *)
(***************************************************************************)
Overflows == \E ref \in Lines : Merge(ref) > MaxCount

OutcomeInv ==
  /\ outcome.phase \in {"instrumentation failed", "testing", "parsed", "unreadable",
                        "accepted", "rejected"}
  /\ outcome.phase \in {"parsed", "accepted"} =>
       profile = [ref \in Lines |-> Merge(ref)] /\ ~reported /\ ~Overflows
  /\ outcome.phase = "unreadable" => reported \/ Overflows
  /\ outcome.phase = "accepted" => Accepts(Lines) /\ outcome.evidence = Evidence(Lines)
  /\ outcome.phase = "rejected" =>
       /\ outcome.evidence = <<>> \/ (AllProjectable /\ outcome.evidence = Evidence({}))
       /\ ~AllProjectable \/ reported \/ Overflows \/ ~Accepts(Lines)
  /\ "evidence" \in DOMAIN outcome => outcome.phase \in {"accepted", "rejected"}

(* What the tests have left stays.                                         *)
LEMMA LinesStay ==
  ASSUME UNCHANGED planning, UNCHANGED <<binary, counters, stored>>
  PROVE  /\ \A s : Writers(s)' = Writers(s)
         /\ Lines' = Lines /\ \A ref : Merge(ref)' = Merge(ref)
         /\ Overflows' <=> Overflows
<1>1. /\ Sources' = Sources /\ Regions' = Regions
      /\ \A s : IsTest(s)' = IsTest(s)
  BY StaticsStay
<1>2. /\ program' = program /\ mode' = mode /\ binary' = binary /\ counters' = counters
      /\ counterFile' = counterFile
  BY DEF planning, stored
<1>3. \A s : Writers(s)' = Writers(s)
  BY <1>1, <1>2 DEF Writers
<1>4. Lines' = Lines
  BY <1>1, <1>3 DEF Lines
<1>5. \A ref : Merge(ref)' = Merge(ref)
  BY <1>1, <1>2, <1>3 DEF Merge
<1> QED BY <1>3, <1>4, <1>5 DEF Overflows

(* And with it what is accepted, and as what.                              *)
LEMMA EvidenceStays ==
  ASSUME UNCHANGED planning, UNCHANGED <<binary, counters, stored, profile>>
  PROVE  /\ Accepts(Lines)' <=> Accepts(Lines)
         /\ AllProjectable' <=> AllProjectable
         /\ Evidence(Lines)' = Evidence(Lines) /\ Evidence({})' = Evidence({})
<1>1. /\ Sources' = Sources /\ Regions' = Regions /\ InPlan' = InPlan
      /\ \A ref : Region(ref)' = Region(ref)
  BY StaticsStay
<1>2. Lines' = Lines
  BY LinesStay
<1>3. program' = program /\ plan' = plan /\ binary' = binary /\ profile' = profile
  BY DEF planning
<1>4. \A line : /\ Owners(line)' = Owners(line) /\ (Ignored(line)' <=> Ignored(line))
                /\ OwnerPaths(line)' = OwnerPaths(line)
  BY <1>1, <1>3 DEF Owners, OwnerPaths, Ignored, ActualPath, PathMatches
<1>5. \A line : Matches(line)' = Matches(line)
  BY <1>1, <1>3, <1>4 DEF Matches, Shape
<1>6. \A line : Acceptable(line)' <=> Acceptable(line)
  BY <1>1, <1>4, <1>5 DEF Acceptable
<1>7. RunComplete' <=> RunComplete
  BY <1>3 DEF RunComplete
<1>8. OmitsRegion(Lines)' <=> OmitsRegion(Lines)
  BY <1>1, <1>2, <1>5, <1>7 DEF OmitsRegion
<1>9. AllProjectable' <=> AllProjectable
  BY <1>1, <1>3 DEF AllProjectable, Projectable
<1>10. Accepts(Lines)' <=> Accepts(Lines)
  <2>1. Accepts(Lines) <=> /\ AllProjectable
                           /\ \A line \in Lines : Acceptable(line)
                           /\ \A j, k \in Lines : j # k => Matches(j) \cap Matches(k) = {}
                           /\ OmitsRegion(Lines)
    BY DEF Accepts, AllProjectable
  <2>2. Accepts(Lines)' <=> /\ AllProjectable'
                            /\ \A line \in Lines' : Acceptable(line)'
                            /\ \A j, k \in Lines' : j # k => Matches(j)' \cap Matches(k)' = {}
                            /\ OmitsRegion(Lines)'
    BY DEF Accepts, AllProjectable
  <2> QED BY <1>2, <1>5, <1>6, <1>8, <1>9, <2>1, <2>2
<1>11. \A s, p : /\ RegionEvidence(Lines, s, p)' = RegionEvidence(Lines, s, p)
                 /\ RegionEvidence({}, s, p)' = RegionEvidence({}, s, p)
  BY <1>2, <1>3, <1>5 DEF RegionEvidence
<1>12. \A s : /\ OriginalBlocks(s)' = OriginalBlocks(s)
              /\ \A f : OriginalUnits(s, f)' = OriginalUnits(s, f)
  BY <1>3 DEF OriginalBlocks, OriginalUnits
<1>13. Evidence(Lines)' = Evidence(Lines)
  BY <1>1, <1>11, <1>12 DEF Evidence
<1>14. Evidence({})' = Evidence({})
  BY <1>1, <1>11, <1>12 DEF Evidence
<1> QED BY <1>9, <1>10, <1>13, <1>14

(* While tests run there is no outcome.                                    *)
LEMMA TestingKeeps ==
  ASSUME outcome.phase = "testing", outcome' = outcome, "evidence" \notin DOMAIN outcome
  PROVE  OutcomeInv'
BY DEF OutcomeInv

(* The profiles are read.                                                  *)
LEMMA ParseKeeps ==
  ASSUME Parse
  PROVE  OutcomeInv'
<1> DEFINE bad == reported \/ Overflows
           phase == IF bad THEN "unreadable" ELSE "parsed"
<1>1. /\ UNCHANGED planning /\ UNCHANGED <<binary, counters, stored>>
      /\ profile' = [ref \in Lines |-> Merge(ref)]
      /\ outcome' = [phase |-> phase]
  BY DEF Parse, planning, Overflows
<1>2. Lines' = Lines /\ (\A ref : Merge(ref)' = Merge(ref)) /\ (Overflows' <=> Overflows)
  BY <1>1, LinesStay
<1>3. reported' = reported
  BY <1>1 DEF stored
<1>4. /\ phase \in {"unreadable", "parsed"}
      /\ phase = "parsed" => ~reported /\ ~Overflows
      /\ phase = "unreadable" => reported \/ Overflows
  <2> HIDE DEF bad
  <2>1. phase = "unreadable" <=> bad
    OBVIOUS
  <2>2. phase \in {"unreadable", "parsed"}
    OBVIOUS
  <2> QED BY <2>1, <2>2 DEF bad
<1> HIDE DEF phase
<1>5. outcome'.phase = phase /\ "evidence" \notin DOMAIN outcome'
  BY <1>1
<1>6. profile' = [ref \in Lines' |-> Merge(ref)']
  BY <1>1, <1>2
<1> QED BY <1>2, <1>3, <1>4, <1>5, <1>6 DEF OutcomeInv

(* Evidence is accepted or refused.                                        *)
LEMMA AcceptKeeps ==
  ASSUME OutcomeInv, Accept
  PROVE  OutcomeInv'
<1>1. /\ UNCHANGED planning /\ UNCHANGED <<binary, counters, stored, profile>>
      /\ outcome.phase \in {"parsed", "unreadable"}
      /\ outcome' =
           IF outcome.phase = "parsed" /\ Accepts(DOMAIN profile)
           THEN [phase |-> "accepted", evidence |-> Evidence(DOMAIN profile)]
           ELSE IF AllProjectable THEN [phase |-> "rejected", evidence |-> Evidence({})]
           ELSE [phase |-> "rejected", evidence |-> <<>>]
  BY DEF Accept, planning, AllProjectable
<1>2. Lines' = Lines /\ (\A ref : Merge(ref)' = Merge(ref)) /\ (Overflows' <=> Overflows)
  BY <1>1, LinesStay
<1>3. /\ Accepts(Lines)' <=> Accepts(Lines)
      /\ AllProjectable' <=> AllProjectable
      /\ Evidence(Lines)' = Evidence(Lines) /\ Evidence({})' = Evidence({})
  BY <1>1, EvidenceStays
<1>4. reported' = reported /\ profile' = profile
  BY <1>1 DEF stored
<1> DEFINE none == Evidence({})
           all == Evidence(Lines)
           accepts == Accepts(Lines)
<1>5. CASE outcome.phase = "parsed" /\ Accepts(DOMAIN profile)
  <2>1. profile = [ref \in Lines |-> Merge(ref)] /\ ~reported /\ ~Overflows
    BY <1>5 DEF OutcomeInv
  <2>2. DOMAIN profile = Lines
    BY <2>1
  <2>3. accepts /\ outcome' = [phase |-> "accepted", evidence |-> all]
    BY <1>1, <1>5, <2>2
  <2> HIDE DEF none, all, accepts
  <2>4. outcome'.phase = "accepted" /\ outcome'.evidence = all
    BY <2>3
  <2>5. profile' = [ref \in Lines' |-> Merge(ref)']
    BY <1>2, <1>4, <2>1
  <2>6. Accepts(Lines)' /\ outcome'.evidence = Evidence(Lines)'
    BY <1>3, <2>3, <2>4 DEF all, accepts
  <2> QED BY <1>2, <1>4, <2>1, <2>4, <2>5, <2>6 DEF OutcomeInv
<1>6. CASE ~(outcome.phase = "parsed" /\ Accepts(DOMAIN profile))
  <2>1. reported \/ Overflows \/ ~accepts
    <3>1. CASE outcome.phase = "unreadable"
      BY <3>1 DEF OutcomeInv
    <3>2. CASE outcome.phase = "parsed"
      <4>1. profile = [ref \in Lines |-> Merge(ref)]
        BY <3>2 DEF OutcomeInv
      <4>2. DOMAIN profile = Lines
        BY <4>1
      <4> QED BY <1>6, <3>2, <4>2
    <3> QED BY <1>1, <3>1, <3>2
  <2>2. \/ AllProjectable /\ outcome' = [phase |-> "rejected", evidence |-> none]
        \/ outcome' = [phase |-> "rejected", evidence |-> <<>>]
    BY <1>1, <1>6
  <2> HIDE DEF none, all, accepts
  <2>3. /\ outcome'.phase = "rejected"
        /\ outcome'.evidence = <<>> \/ (AllProjectable /\ outcome'.evidence = none)
    BY <2>2
  <2>4. outcome'.evidence = <<>> \/ (AllProjectable' /\ outcome'.evidence = Evidence({})')
    BY <1>3, <2>3 DEF none
  <2>5. reported' \/ Overflows' \/ ~Accepts(Lines)'
    BY <1>2, <1>3, <1>4, <2>1 DEF accepts
  <2> QED BY <2>3, <2>4, <2>5 DEF OutcomeInv
<1> QED BY <1>5, <1>6

(* Nothing happens.                                                        *)
LEMMA StutterKeeps ==
  ASSUME OutcomeInv, UNCHANGED vars
  PROVE  OutcomeInv'
<1>1. /\ UNCHANGED planning /\ UNCHANGED <<binary, counters, stored, profile>>
      /\ outcome' = outcome /\ profile' = profile /\ reported' = reported
  BY DEF vars, planning, stored
<1>2. Lines' = Lines /\ (\A ref : Merge(ref)' = Merge(ref)) /\ (Overflows' <=> Overflows)
  BY <1>1, LinesStay
<1>3. /\ Accepts(Lines)' <=> Accepts(Lines)
      /\ AllProjectable' <=> AllProjectable
      /\ Evidence(Lines)' = Evidence(Lines) /\ Evidence({})' = Evidence({})
  BY <1>1, EvidenceStays
<1>4. [ref \in Lines' |-> Merge(ref)'] = [ref \in Lines |-> Merge(ref)]
  BY <1>2
<1> QED BY <1>1, <1>2, <1>3, <1>4 DEF OutcomeInv

CoverageInv == HitsInv /\ OutcomeInv

(***************************************************************************)
(* All of it is inductive: no counter counts what has not begun or misses  *)
(* what has, unless it is one of a test file that a failure has lost; the  *)
(* counters that a failure has lost without a report are no others than    *)
(* unreported says; and the outcome is that of the merged counters         *)
(* (cmd/cover's counters, the counter files of testcover, ParseProfile and *)
(* AcceptProfileEvidence).                                                 *)
(***************************************************************************)
THEOREM CoverageInvariant == Spec => []CoverageInv
<1>1. ASSUME Init
      PROVE  CoverageInv
  <2>1. PlanInv
    BY <1>1 DEF Init, PlanInv, Regioned, Sources
  <2>2. /\ counters = [b \in Binaries |-> [ref \in Regions |-> 0]]
        /\ counterFile = [b \in Binaries |-> [s \in Sources |-> "none"]]
        /\ began = [b \in Binaries |-> {}] /\ spent = [b \in Binaries |-> {}]
    BY <1>1 DEF Init
  <2>3. CountersType
    BY <2>2 DEF CountersType, FileStates
  <2>4. \A b \in Binaries : \A s, p : ~HasBegun(b, s, p)
    BY <2>2 DEF HasBegun
  <2>5. FilesInv
    <3>1. \A b \in Binaries, ref \in Regions : ~NotKept(b, ref)
      <4>1. \A ref \in Regions : ref[1] \in Sources
        BY <2>1, RefIs
      <4> QED BY <2>2, <4>1 DEF NotKept
    <3> QED BY <2>4, <3>1 DEF FilesInv
  <2>6. OrderInv
    BY <2>4 DEF OrderInv
  <2>7. CountInv
    BY <2>2, <2>4 DEF CountInv
  <2> DEFINE phase == IF \A s \in Sources : plan[s].made THEN "testing"
                      ELSE "instrumentation failed"
  <2>8. outcome = [phase |-> phase]
    BY <1>1 DEF Init
  <2>9. phase \in {"testing", "instrumentation failed"}
    OBVIOUS
  <2> HIDE DEF phase
  <2>10. outcome.phase = phase /\ "evidence" \notin DOMAIN outcome
    BY <2>8
  <2>11. OutcomeInv
    BY <2>9, <2>10 DEF OutcomeInv
  <2> QED BY <2>1, <2>3, <2>5, <2>6, <2>7, <2>11 DEF CoverageInv, HitsInv
<1>2. ASSUME CoverageInv, [Next]_vars
      PROVE  CoverageInv'
  <2>1. HitsInv /\ OutcomeInv
    BY <1>2 DEF CoverageInv
  <2>2. outcome.phase = "testing" => "evidence" \notin DOMAIN outcome
    BY <2>1 DEF OutcomeInv
  <2>3. ASSUME NEW b \in Binaries, NEW s \in Sources,
               NEW l \in DOMAIN program.sources[s].rewritten,
               NEW n \in 1..Len(program.sources[s].rewritten[l]), Execute(b, s, l, n)
        PROVE  CoverageInv'
    <3>1. HitsInv'
      BY <2>1, <2>3, ExecuteKeeps
    <3>2. OutcomeInv'
      BY <2>2, <2>3, TestingKeeps DEF Execute, MayHit
    <3> QED BY <3>1, <3>2 DEF CoverageInv
  <2>4. ASSUME NEW b \in Binaries, NEW s \in Sources, NewFile(b, s)
        PROVE  CoverageInv'
    <3>1. /\ UNCHANGED planning /\ UNCHANGED <<counters, began>>
          /\ counterFile[b][s] = "none" /\ spent' = spent
      BY <2>4 DEF NewFile, planning
    <3>2. spent' = [spent EXCEPT ![b] = spent[b] \cup {}]
      BY <2>1, <3>1 DEF HitsInv, CountersType
    <3>3. FilesGrow
      <4>1. CASE /\ counterFile' = [counterFile EXCEPT ![b][s] = "kept"]
                 /\ UNCHANGED <<reported, unreported>>
        <5> DEFINE refs == {}
                   state == "kept"
        <5>1. refs \in SUBSET Regions /\ {} \in SUBSET refs /\ refs = {}
          OBVIOUS
        <5>2. state \in FileStates \ {"none"} /\ counterFile[b][s] \in {"none", "kept", state}
          BY <3>1 DEF FileStates
        <5>3. counterFile' = [counterFile EXCEPT ![b][s] = state] /\ state = "kept"
          BY <4>1
        <5> HIDE DEF refs, state
        <5> QED BY <2>1, <3>2, <4>1, <5>1, <5>2, <5>3, FailureGrows
      <4>2. CASE /\ counterFile' = [counterFile EXCEPT ![b][s] = "failed"]
                 /\ Failure(b, OfSource(s))
        <5> DEFINE refs == OfSource(s)
                   state == "failed"
        <5>1. refs \in SUBSET Regions /\ {} \in SUBSET refs /\ OfSource(s) \subseteq refs
          BY DEF OfSource
        <5>2. state \in FileStates \ {"none"} /\ counterFile[b][s] \in {"none", "kept", state}
          BY <3>1 DEF FileStates
        <5>3. counterFile' = [counterFile EXCEPT ![b][s] = state] /\ Failure(b, refs)
          BY <4>2
        <5> HIDE DEF refs, state
        <5> QED BY <2>1, <3>2, <5>1, <5>2, <5>3, FailureGrows
      <4> QED BY <2>4, <4>1, <4>2 DEF NewFile
    <3>4. HitsInv'
      BY <2>1, <3>1, <3>3, NoHitKeeps
    <3>5. OutcomeInv'
      BY <2>2, <2>4, TestingKeeps DEF NewFile
    <3> QED BY <3>4, <3>5 DEF CoverageInv
  <2>5. ASSUME NEW b \in Binaries, NEW s \in Sources,
               NEW l \in DOMAIN program.sources[s].rewritten,
               NEW n \in 1..Len(program.sources[s].rewritten[l]), HitFails(b, s, l, n)
        PROVE  CoverageInv'
    <3>1. HitsInv'
      BY <2>1, <2>5, HitFailsKeeps
    <3>2. OutcomeInv'
      BY <2>2, <2>5, TestingKeeps DEF HitFails, LastHitFails, MayHit
    <3> QED BY <3>1, <3>2 DEF CoverageInv
  <2>6. ASSUME NEW b \in Binaries, NEW how \in {"passed", "failed", "killed"},
               EndBinary(b, how)
        PROVE  CoverageInv'
    <3>1. UNCHANGED planning /\ UNCHANGED <<counters, began, stored>>
      BY <2>6 DEF EndBinary, planning
    <3>2. HitsInv'
      BY <2>1, <3>1, StoredGrows, NoHitKeeps
    <3>3. OutcomeInv'
      BY <2>2, <2>6, TestingKeeps DEF EndBinary
    <3> QED BY <3>2, <3>3 DEF CoverageInv
  <2>7. ASSUME Parse
        PROVE  CoverageInv'
    <3>1. UNCHANGED planning /\ UNCHANGED <<counters, began, stored>>
      BY <2>7 DEF Parse, planning
    <3>2. HitsInv'
      BY <2>1, <3>1, StoredGrows, NoHitKeeps
    <3> QED BY <2>7, <3>2, ParseKeeps DEF CoverageInv
  <2>8. ASSUME Accept
        PROVE  CoverageInv'
    <3>1. UNCHANGED planning /\ UNCHANGED <<counters, began, stored>>
      BY <2>8 DEF Accept, planning
    <3>2. HitsInv'
      BY <2>1, <3>1, StoredGrows, NoHitKeeps
    <3> QED BY <2>1, <2>8, <3>2, AcceptKeeps DEF CoverageInv
  <2>9. ASSUME UNCHANGED vars
        PROVE  CoverageInv'
    <3>1. UNCHANGED planning /\ UNCHANGED <<counters, began, stored>>
      BY <2>9 DEF vars, planning
    <3>2. HitsInv'
      BY <2>1, <3>1, StoredGrows, NoHitKeeps
    <3> QED BY <2>1, <2>9, <3>2, StutterKeeps DEF CoverageInv
  <2> QED BY <1>2, <2>3, <2>4, <2>5, <2>6, <2>7, <2>8, <2>9 DEF Next
<1> QED BY <1>1, <1>2, PTL DEF Spec
-----------------------------------------------------------------------------
(***************************************************************************)
(* What is projected of an outcome.                                        *)
(***************************************************************************)

(* A merged counter counts if that of a profile does.                      *)
LEMMA MergeIs ==
  ASSUME HitsInv, NEW ref \in Regions
  PROVE  /\ Merge(ref) \in Nat
         /\ Merge(ref) > 0 <=> \E b \in Writers(ref[1]) : counters[b][ref] > 0
<1> DEFINE f == [b \in Binaries |-> counters[b][ref]]
           W == Writers(ref[1])
<1>1. W \in SUBSET Binaries
  BY DEF Writers
<1>2. \A b \in Binaries : f[b] \in Nat /\ f[b] = counters[b][ref]
  BY DEF HitsInv, CountersType
<1>3. IsFiniteSet(W)
  BY <1>1, ProgramsAssumption, FS_Subset
<1>4. CASE mode = "set" \/ IsTest(ref[1])
  <2>1. Merge(ref) = IF \E b \in W : counters[b][ref] > 0 THEN 1 ELSE 0
    BY <1>4 DEF Merge
  <2> QED BY <2>1
<1>5. CASE ~(mode = "set" \/ IsTest(ref[1]))
  <2>1. Merge(ref) = SumFunctionOnSet(f, W)
    BY <1>5 DEF Merge
  <2> HIDE DEF f, W
  <2>2. \A b \in W : f[b] \in Nat
    BY <1>1, <1>2
  <2>3. SumFunctionOnSet(f, W) \in Nat /\ (SumFunctionOnSet(f, W) > 0 <=> \E b \in W : f[b] > 0)
    BY <1>3, <2>2, SumIsPositive
  <2>4. (\E b \in W : f[b] > 0) <=> \E b \in W : counters[b][ref] > 0
    BY <1>1, <1>2
  <2> QED BY <2>1, <2>3, <2>4 DEF W
<1> QED BY <1>4, <1>5

(* Rewritten statement u is original statement x, and region k holds it.   *)
Holds(s, x, k, u) ==
  /\ u \in producer[s][k].units /\ u \in Own(Rewritten(s)) /\ k \in Own(Rewritten(s))
  /\ x = HomeOf(Original(s), Rewritten(s), u)
  /\ Statement(Rewritten(s), u).id = IdOf(s, x)
  /\ Statement(Rewritten(s), k).id = Entry(s, IdOf(s, x))
  /\ u \in Places(Rewritten(s)) /\ k \in Places(Rewritten(s))
  /\ u[1] = k[1] /\ k[2] <= u[2] /\ k = RegionOf(s, IdOf(s, x))

(* With projectable plans every statement is in a region that begins with  *)
(* one of its source.                                                      *)
LEMMA EntryIs ==
  ASSUME PlanInv, AllProjectable, NEW s \in InPlan, NEW x \in Places(Original(s))
  PROVE  \E k \in DOMAIN producer[s] : \E u : Holds(s, x, k, u)
<1> DEFINE o == Original(s)
           r == Rewritten(s)
           layout == program.layout
           source == program.sources[s]
<1>1. s \in Sources /\ Projectable(plan[s])
  BY DEF InPlan, AllProjectable
<1>2. /\ Sound(o, r) /\ producer[s] = Regioned(source, layout)
      /\ plan[s] = PlanOf(source, producer[s])
      /\ producer[s] = Inventory(r, layout)
  BY <1>1, SourceIs DEF Regioned, Rewritten
<1>3. IsText(r) /\ HasIdentities(r, Own(r))
  BY <1>2 DEF Sound, IsRewriting
<1>4. PICK u \in Own(r) : HomeOf(o, r, u) = x
  BY <1>2, HomeIs
<1>5. u \in Places(r) /\ Statement(o, x).id = Statement(r, u).id
  BY <1>2, <1>4, HomeIs
<1>6. PICK k \in DOMAIN Inventory(r, layout) : u \in Cut(r, layout, k)
  BY <1>3, <1>5, CutsCover
<1>7. /\ u[1] = k[1] /\ k[2] <= u[2]
      /\ k \in Cut(r, layout, k) /\ k \in Places(r)
  BY <1>3, <1>6, CutBegins
<1>8. \A j \in DOMAIN producer[s] : producer[s][j].units = Cut(r, layout, j)
  BY <1>2, <1>3, RegionIs
<1>9. k \in DOMAIN producer[s] /\ u \in producer[s][k].units /\ k \in producer[s][k].units
  BY <1>2, <1>6, <1>7, <1>8
<1>10. producer[s][k].units \subseteq Own(r)
  <2> DEFINE p == RegionPlan(o, r, producer[s], k)
  <2>1. p \in Planned(o, r, producer[s])
    BY <1>9, PlansAre
  <2>2. p.region = k
    BY RegionPlanIs
  <2>3. /\ Sound(source.lists, source.rewritten)
        /\ Projectable(PlanOf(source, Regioned(source, layout)))
        /\ p \in RegionPlans(source, layout)
    BY <1>1, <1>2, <2>1, SourceIs DEF RegionPlans, Original, Rewritten
  <2> HIDE DEF p, source
  <2>4. LET units == Regioned(source, layout)[p.region].units
        IN  /\ p.relation = "projectable" <=> units \subseteq Own(source.rewritten)
            /\ p.relation # "projectable" => units \cap Own(source.rewritten) = {}
    BY <2>3, ProjectableIsHome
  <2>5. producer[s][k].units \subseteq Own(r) \/ producer[s][k].units \cap Own(r) = {}
    BY <1>2, <2>2, <2>4 DEF Rewritten, source
  <2> QED BY <1>4, <1>9, <2>5
<1>11. k \in Own(r)
  BY <1>9, <1>10
<1>12. IdOf(s, x) = Statement(r, u).id /\ IdOf(s, x) # Generated
  BY <1>4, <1>5 DEF IdOf, Own
<1>13. ASSUME NEW j \in DOMAIN producer[s], IdOf(s, x) \in Ids(r, producer[s][j].units)
       PROVE  j = k
  <2>1. PICK v \in producer[s][j].units : Statement(r, v).id = IdOf(s, x)
    BY <1>13 DEF Ids
  <2>2. v \in Cut(r, layout, j) /\ j \in DOMAIN Inventory(r, layout)
    BY <1>2, <1>8, <2>1
  <2>3. v \in Own(r)
    BY <1>12, <2>1, <2>2 DEF Own, Cut
  <2>4. v = u
    BY <1>3, <1>12, <2>1, <2>3 DEF HasIdentities
  <2> QED BY <1>3, <1>6, <2>2, <2>4, CutsApart
<1>14. IdOf(s, x) \in Ids(r, producer[s][k].units)
  BY <1>9, <1>12 DEF Ids
<1>15. k = RegionOf(s, IdOf(s, x)) /\ Entry(s, IdOf(s, x)) = Statement(r, k).id
  <2> DEFINE id == IdOf(s, x)
             at == CHOOSE j \in DOMAIN producer[s] : id \in Ids(r, producer[s][j].units)
  <2>1. at = k
    <3> HIDE DEF id, r
    <3>1. \A j \in DOMAIN producer[s] : id \in Ids(r, producer[s][j].units) => j = k
      BY <1>13 DEF id, r
    <3>2. id \in Ids(r, producer[s][k].units)
      BY <1>14 DEF id, r
    <3> QED BY <1>9, <3>1, <3>2
  <2>2. RegionOf(s, id) = at /\ Entry(s, id) = Statement(r, RegionOf(s, id)).id
    BY DEF Entry, RegionOf
  <2> QED BY <2>1, <2>2
<1>16. Holds(s, x, k, u)
  BY <1>4, <1>5, <1>7, <1>9, <1>11, <1>12, <1>15 DEF Holds
<1> QED BY <1>9, <1>16

(* Evidence says how often a statement ran, or that it is unknown.         *)
LEMMA EvidenceIsTyped ==
  ASSUME PathsApart, HitsInv, AllProjectable, NEW lines \in SUBSET Lines,
         profile = [ref \in Lines |-> Merge(ref)] \/ lines = {},
         NEW s \in InPlan, NEW x \in Places(Original(s))
  PROVE  RegionEvidence(lines, s, x) \in EachType
<1>1. PICK k \in DOMAIN producer[s] : \E u : Holds(s, x, k, u)
  BY EntryIs DEF HitsInv
<1>2. PICK u : Holds(s, x, k, u)
  BY <1>1
<1>3. lines \subseteq Regions
  BY DEF Lines
<1>4. RegionEvidence(lines, s, x) = IF <<s, k>> \in lines
                                    THEN [observed |-> TRUE, count |-> profile[<<s, k>>]]
                                    ELSE [observed |-> FALSE, count |-> 0]
  BY <1>2, <1>3, RegionEvidenceIs DEF HitsInv, Holds
<1>5. <<s, k>> \in lines => profile[<<s, k>>] \in Nat
  BY <1>3, MergeIs
<1> QED BY <1>4, <1>5 DEF EachType

(* Nobody begins a statement whose counter is not kept, unless that is     *)
(* reported or may not be.                                                 *)
LEMMA BegunIsWritten ==
  ASSUME HitsInv, ~reported, NEW s \in Sources, NEW k \in DOMAIN producer[s],
         NEW id, k = RegionOf(s, id), NEW b \in Measured(s, id), k \in Own(Rewritten(s)),
         HasBegun(b, s, k)
  PROVE  b \in Writers(s) /\ counters[b][<<s, k>>] > 0
<1> DEFINE ref == <<s, k>>
<1>1. ref \in Regions /\ ref[1] = s /\ ref[2] = k
  BY IsRef
<1>2. b \in Binaries
  BY DEF Measured, Writers
<1>3. k \in Places(Rewritten(s))
  BY DEF Own
<1> HIDE DEF ref
<1>4. counters[b][ref] > 0 \/ (IsTest(s) /\ NotKept(b, ref))
  BY <1>1, <1>2 DEF HitsInv, CountInv
<1>5. CASE IsTest(s)
  <2>1. ~NotKept(b, ref)
    BY <1>1, <1>2, <1>5 DEF HitsInv, FilesInv, Measured, ref
  <2>2. counterFile[b][s] \in {"none", "kept", "failed", "removed"}
    BY <1>2 DEF HitsInv, CountersType, FileStates
  <2>3. counterFile[b][s] # "none"
    BY <1>2, <1>3, <1>5 DEF HitsInv, FilesInv
  <2>4. counterFile[b][s] = "kept"
    BY <1>1, <2>1, <2>2, <2>3 DEF NotKept
  <2> QED BY <1>2, <1>4, <1>5, <2>1, <2>4 DEF Writers, ref
<1>6. CASE ~IsTest(s)
  BY <1>4, <1>6 DEF Measured, ref
<1> QED BY <1>5, <1>6

(* Accepted evidence credits a statement if its region was entered, and    *)
(* knows of it if somebody wrote a profile.                                *)
LEMMA AcceptedIs ==
  ASSUME PathsApart, CoverageInv, outcome.phase = "accepted", NEW s \in InPlan,
         NEW x \in Places(Original(s)), NEW k \in DOMAIN producer[s], NEW u,
         Holds(s, x, k, u)
  PROVE  LET evidence == RegionEvidence(Lines, s, x)
         IN  /\ evidence.count > 0 => \E b \in Writers(s) : HasBegun(b, s, k)
             /\ (\E b \in Measured(s, IdOf(s, x)) : HasBegun(b, s, k)) => evidence.count > 0
             /\ evidence.observed <=> Writers(s) # {}
             /\ evidence.count \in Nat
<1> DEFINE ref == <<s, k>>
           measured == Measured(s, IdOf(s, x))
<1>1. /\ HitsInv /\ PlanInv /\ AllProjectable /\ ~reported
      /\ profile = [l \in Lines |-> Merge(l)]
  BY DEF CoverageInv, HitsInv, OutcomeInv, Accepts, AllProjectable
<1>2. s \in Sources /\ ref \in Regions /\ ref[1] = s /\ ref[2] = k
  BY IsRef DEF InPlan
<1>3. /\ u \in producer[s][k].units /\ u \in Own(Rewritten(s)) /\ k \in Own(Rewritten(s))
      /\ x = HomeOf(Original(s), Rewritten(s), u) /\ k = RegionOf(s, IdOf(s, x))
  BY DEF Holds
<1>4. Lines \in SUBSET Regions
  BY DEF Lines
<1>5. \A b \in measured : HasBegun(b, s, k) => b \in Writers(s) /\ counters[b][ref] > 0
  BY <1>1, <1>2, <1>3, BegunIsWritten
<1> HIDE DEF ref, measured
<1>6. RegionEvidence(Lines, s, x) = IF ref \in Lines
                                    THEN [observed |-> TRUE, count |-> profile[ref]]
                                    ELSE [observed |-> FALSE, count |-> 0]
  BY <1>1, <1>3, <1>4, RegionEvidenceIs DEF ref
<1>7. ref \in Lines <=> Writers(s) # {}
  BY <1>2 DEF Lines
<1>8. \A b \in Writers(s) : counters[b][ref] > 0 => HasBegun(b, s, k)
  <2>1. Writers(s) \subseteq Binaries
    BY DEF Writers
  <2> QED BY <1>1, <1>2, <1>3, <2>1 DEF HitsInv, CountInv
<1>9. Merge(ref) \in Nat /\ (Merge(ref) > 0 <=> \E b \in Writers(s) : counters[b][ref] > 0)
  BY <1>1, <1>2, MergeIs
<1> DEFINE e == RegionEvidence(Lines, s, x)
<1>10. CASE ref \in Lines
  <2>1. e.observed = TRUE /\ e.count = Merge(ref)
    BY <1>1, <1>6, <1>10
  <2> HIDE DEF e
  <2> QED BY <1>5, <1>7, <1>8, <1>9, <1>10, <2>1 DEF e, measured
<1>11. CASE ref \notin Lines
  <2>1. e.observed = FALSE /\ e.count = 0
    BY <1>6, <1>11
  <2> HIDE DEF e
  <2> QED BY <1>5, <1>7, <1>11, <2>1 DEF e, measured
<1> QED BY <1>10, <1>11
-----------------------------------------------------------------------------
(***************************************************************************)
(* Of accepted evidence a statement is credited only if a binary whose     *)
(* counters there are entered its region, and is credited if any did, but  *)
(* for one whose counter failed and the report of it too: each projected   *)
(* span has the count of the region that its statements are in, whatever   *)
(* the lists, the cuts and the columns of the sources are, and however     *)
(* many binaries ran and failed to write.                                  *)
(* That no path ends with another's is needed: with PathsApart gone        *)
(* CreditIsEarned fails (AcceptProfileEvidence, ProjectAcceptedEvidence).  *)
(***************************************************************************)
THEOREM CreditIsAlwaysEarned ==
  ASSUME PathsApart
  PROVE  Spec => []CreditIsEarned
<1>1. ASSUME CoverageInv PROVE CreditIsEarned
  <2>1. SUFFICES ASSUME outcome.phase = "accepted", NEW s \in InPlan,
                        NEW separate \in BOOLEAN, NEW x \in Places(Original(s))
                 PROVE  \E span \in Projected(s, separate) :
                          /\ Covering(Projected(s, separate), x) = {span}
                          /\ span.evidence.count > 0 =>
                               HasEntered(Writers(s), s, IdOf(s, x))
                          /\ HasEntered(Measured(s, IdOf(s, x)), s, IdOf(s, x)) =>
                               span.evidence.count > 0
    BY DEF CreditIsEarned
  <2>2. /\ HitsInv /\ PlanInv /\ AllProjectable /\ outcome.evidence = Evidence(Lines)
        /\ profile = [l \in Lines |-> Merge(l)]
    BY <1>1, <2>1 DEF CoverageInv, HitsInv, OutcomeInv, Accepts, AllProjectable
  <2>3. \A y \in Places(Original(s)) : RegionEvidence(Lines, s, y) \in EachType
    BY <2>2, EvidenceIsTyped
  <2>4. PICK span \in Projected(s, separate) :
          /\ Covering(Projected(s, separate), x) = {span}
          /\ span.evidence.count = RegionEvidence(Lines, s, x).count
    BY <2>2, <2>3, ProjectedIs
  <2>5. PICK k \in DOMAIN producer[s] : \E u : Holds(s, x, k, u)
    BY <2>2, EntryIs
  <2>6. PICK u : Holds(s, x, k, u)
    BY <2>5
  <2>7. LET count == RegionEvidence(Lines, s, x).count
        IN  /\ count > 0 => \E b \in Writers(s) : HasBegun(b, s, k)
            /\ (\E b \in Measured(s, IdOf(s, x)) : HasBegun(b, s, k)) => count > 0
    BY <1>1, <2>1, <2>6, AcceptedIs
  <2>8. \A b : HasBegun(b, s, k) <=> <<s, Entry(s, IdOf(s, x))>> \in began[b]
    BY <2>6 DEF Holds, HasBegun
  <2>9. \A binaries : HasEntered(binaries, s, IdOf(s, x)) <=>
                        \E b \in binaries : HasBegun(b, s, k)
    BY <2>8 DEF HasEntered
  <2> QED BY <2>4, <2>7, <2>9
<1>2. CoverageInv => CreditIsEarned
  BY <1>1
<1> QED BY <1>2, CoverageInvariant, PTL

(***************************************************************************)
(* A statement is reported as missed only if it was measured: some binary  *)
(* wrote a profile or a counter file and none began it, except one whose   *)
(* counter failed and the report of it too; refused evidence and missing   *)
(* lines stay unknown (AcceptProfileEvidence, ProjectAcceptedEvidence).    *)
(***************************************************************************)
THEOREM MissedIsAlwaysMeasured ==
  ASSUME PathsApart
  PROVE  Spec => []MissedMeansMeasured
<1>1. ASSUME CoverageInv PROVE MissedMeansMeasured
  <2>1. SUFFICES ASSUME "evidence" \in DOMAIN outcome, outcome.evidence # <<>>,
                        NEW s \in InPlan, NEW x \in Places(Original(s)),
                        NEW span \in Projected(s, FALSE), x \in span.units
                 PROVE  /\ span.evidence.observed /\ span.evidence.count = 0 =>
                             /\ outcome.phase = "accepted" /\ Writers(s) # {}
                             /\ \A b \in Measured(s, IdOf(s, x)) : <<s, IdOf(s, x)>> \notin began[b]
                        /\ outcome.phase = "accepted" /\ RunComplete => span.evidence.observed
    BY DEF MissedMeansMeasured
  <2>2. HitsInv /\ PlanInv /\ OutcomeInv
    BY <1>1 DEF CoverageInv, HitsInv
  <2>3. outcome.phase \in {"accepted", "rejected"}
    BY <2>1, <2>2 DEF OutcomeInv
  <2>4. span \in Covering(Projected(s, FALSE), x)
    BY <2>1 DEF Covering
  <2>5. s \in Sources
    BY DEF InPlan
  <2>6. CASE outcome.phase = "accepted"
    <3>1. /\ AllProjectable /\ outcome.evidence = Evidence(Lines) /\ Accepts(Lines)
          /\ profile = [l \in Lines |-> Merge(l)]
      BY <2>2, <2>6 DEF OutcomeInv, Accepts, AllProjectable
    <3>2. \A y \in Places(Original(s)) : RegionEvidence(Lines, s, y) \in EachType
      BY <2>2, <3>1, EvidenceIsTyped
    <3>3. /\ span.evidence.count = RegionEvidence(Lines, s, x).count
          /\ span.evidence.observed = RegionEvidence(Lines, s, x).observed
      <4>1. PICK only \in Projected(s, FALSE) :
              /\ Covering(Projected(s, FALSE), x) = {only}
              /\ only.evidence.count = RegionEvidence(Lines, s, x).count
              /\ only.evidence.observed = RegionEvidence(Lines, s, x).observed
        BY <2>2, <3>1, <3>2, ProjectedIs
      <4> QED BY <2>4, <4>1
    <3>4. PICK k \in DOMAIN producer[s] : \E u : Holds(s, x, k, u)
      BY <2>2, <3>1, EntryIs
    <3>5. PICK u : Holds(s, x, k, u)
      BY <3>4
    <3>6. /\ (\E b \in Measured(s, IdOf(s, x)) : HasBegun(b, s, k)) =>
               RegionEvidence(Lines, s, x).count > 0
          /\ RegionEvidence(Lines, s, x).observed <=> Writers(s) # {}
      BY <1>1, <2>6, <3>5, AcceptedIs
    <3>7. \A b \in Measured(s, IdOf(s, x)) : HasBegun(b, s, u) => HasBegun(b, s, k)
      <4>1. Measured(s, IdOf(s, x)) \subseteq Binaries
        BY DEF Measured, Writers
      <4>2. /\ k \in Places(Rewritten(s)) /\ u \in Own(Rewritten(s))
            /\ k[1] = u[1] /\ k[2] <= u[2]
        BY <3>5 DEF Holds
      <4> QED BY <2>2, <2>5, <4>1, <4>2 DEF HitsInv, OrderInv
    <3>8. \A b : HasBegun(b, s, u) <=> <<s, IdOf(s, x)>> \in began[b]
      BY <3>5 DEF Holds, HasBegun
    <3>9. ASSUME span.evidence.observed, span.evidence.count = 0
          PROVE  /\ Writers(s) # {}
                 /\ \A b \in Measured(s, IdOf(s, x)) : <<s, IdOf(s, x)>> \notin began[b]
      BY <3>3, <3>6, <3>7, <3>8, <3>9
    <3>10. ASSUME RunComplete PROVE span.evidence.observed
      <4> DEFINE ref == <<s, k>>
      <4>1. ref \in Regions /\ ref[1] = s /\ ref[2] = k /\ Region(ref).units # {}
        BY <2>5, <3>5, IsRef DEF Region, Holds
      <4> HIDE DEF ref
      <4>2. PICK line \in Lines : \E m \in Matches(line) : m[1] = s /\ m[2].region = ref[2]
        BY <3>1, <3>10, <4>1 DEF Accepts, OmitsRegion
      <4>3. PICK m \in Matches(line) : m[1] = s
        BY <4>2
      <4>4. line \in Regions /\ Writers(line[1]) # {}
        BY <4>2 DEF Lines
      <4>5. Matches(line) = {} \/ Matches(line) = {<<line[1], PlanOfRegion(line)>>}
        BY <2>2, <3>1, <4>4, MatchesAre
      <4>6. line[1] = s
        BY <4>3, <4>5
      <4> QED BY <3>3, <3>6, <4>4, <4>6
    <3> QED BY <2>6, <3>9, <3>10
  <2>7. CASE outcome.phase = "rejected"
    <3>1. AllProjectable /\ outcome.evidence = Evidence({})
      BY <2>1, <2>2, <2>7 DEF OutcomeInv
    <3>2. \A y \in Places(Original(s)) : RegionEvidence({}, s, y) \in EachType
      BY <2>2, <3>1, EvidenceIsTyped
    <3>3. span.evidence.observed = RegionEvidence({}, s, x).observed
      <4>1. PICK only \in Projected(s, FALSE) :
              /\ Covering(Projected(s, FALSE), x) = {only}
              /\ only.evidence.observed = RegionEvidence({}, s, x).observed
        BY <2>2, <3>1, <3>2, ProjectedIs
      <4> QED BY <2>4, <4>1
    <3>4. RegionEvidence({}, s, x) = [observed |-> FALSE, count |-> 0]
      BY DEF RegionEvidence
    <3>5. ~span.evidence.observed
      BY <3>3, <3>4
    <3> QED BY <2>7, <3>5
  <2> QED BY <2>3, <2>6, <2>7
<1>2. CoverageInv => MissedMeansMeasured
  BY <1>1
<1> QED BY <1>2, CoverageInvariant, PTL

(***************************************************************************)
(* Evidence is refused only for a cause: with files told apart the lines   *)
(* that a run leaves always match the plans, each its own region, so that  *)
(* only a rewriting that cannot be traced back, a counter that overflows   *)
(* or cannot be kept, or a passed run that did not measure a source is     *)
(* refused (AcceptProfileEvidence).                                        *)
(***************************************************************************)
THEOREM RefusalsHaveCauses ==
  ASSUME PathsApart
  PROVE  Spec => []RefusedForCause
<1>1. ASSUME CoverageInv PROVE RefusedForCause
  <2>1. SUFFICES ASSUME outcome.phase = "rejected", AllProjectable, ~reported, ~Overflows
                 PROVE  RunComplete /\ \E s \in InPlan : Writers(s) = {}
    BY DEF RefusedForCause, AllProjectable, Overflows
  <2>2. PlanInv /\ ~Accepts(Lines)
    BY <1>1, <2>1 DEF CoverageInv, HitsInv, OutcomeInv
  <2> QED BY <2>1, <2>2, LinesAreAccepted
<1>2. CoverageInv => RefusedForCause
  BY <1>1
<1> QED BY <1>2, CoverageInvariant, PTL
=============================================================================
