----------------------------- MODULE JointSolver -----------------------------
(***************************************************************************)
(* The joint solver of masking MC/DC (internal/mcdc/masking_joint.go): two *)
(* completions of a pair of evaluations that show the independent effect   *)
(* of a condition.  A state of a node says which value its subtree takes   *)
(* in either completion, and whether a change of it would still reach the  *)
(* root there.                                                             *)
(***************************************************************************)
EXTENDS Decision

JointStates == [value : BOOLEAN \X BOOLEAN, active : BOOLEAN \X BOOLEAN]

ChildValues(kind, desired) ==  \* jointChildValues
  IF (kind = "and") = desired THEN <<<<desired, desired>>>>
  ELSE IF kind = "and"
  THEN <<<<FALSE, FALSE>>, <<FALSE, TRUE>>, <<TRUE, FALSE>>>>
  ELSE <<<<FALSE, TRUE>>, <<TRUE, FALSE>>, <<TRUE, TRUE>>>>

(* The choices of the operands' values in both completions, by their place *)
(* among the child values, and the order in which they are tried.          *)
JointChoices(kind, st) ==
  (DOMAIN ChildValues(kind, st.value[1])) \X (DOMAIN ChildValues(kind, st.value[2]))

TriedBefore(c, d) == c[1] < d[1] \/ (c[1] = d[1] /\ c[2] < d[2])

(* A mistake: an operand counts as active whatever its sibling says. *)
ActiveWhatever(kind, active, sibling) == active

(* jointChildActivity: a change of an operand reaches the root if the other*)
(* operand lets it pass.                                                   *)
ChildActive(kind, active, sibling) == active /\ sibling = NeutralValue(kind)

(* The states of both operands under a choice.                             *)
ChildStates(kind, st, c) ==
  LET x == ChildValues(kind, st.value[1])[c[1]]
      y == ChildValues(kind, st.value[2])[c[2]]
  IN  <<[value  |-> <<x[1], y[1]>>,
         active |-> <<ChildActive(kind, st.active[1], x[2]),
                      ChildActive(kind, st.active[2], y[2])>>],
        [value  |-> <<x[2], y[2]>>,
         active |-> <<ChildActive(kind, st.active[1], x[1]),
                      ChildActive(kind, st.active[2], y[1])>>]>>

Negate(st) ==
  [value |-> <<~st.value[1], ~st.value[2]>>, active |-> st.active]

Allows(state, value) == state \in {"notEvaluated", StateOf(value)}

(* A condition that is not the target may differ only where it is masked   *)
(* in both completions.                                                    *)
LeafPossible(i, p, q, target, st) ==
  /\ Allows(p[i], st.value[1])
  /\ Allows(q[i], st.value[2])
  /\ IF i = target
     THEN st.value[1] # st.value[2] /\ st.active[1] /\ st.active[2]
     ELSE st.value[1] = st.value[2] \/ (~st.active[1] /\ ~st.active[2])

(* solve: the states that are possible for each node.                      *)
Possible(E, p, q, target) ==
  LET possible[n \in DOMAIN E] ==
        IF E[n].kind = "condition"
        THEN {st \in JointStates : LeafPossible(E[n].index, p, q, target, st)}
        ELSE IF E[n].kind = "constant"
        THEN {st \in JointStates : st.value = <<E[n].constant, E[n].constant>>}
        ELSE IF E[n].kind = "not"
        THEN LET left == possible[E[n].left]
             IN  {st \in JointStates : Negate(st) \in left}
        ELSE LET left == possible[E[n].left]
                 right == possible[E[n].right]
             IN  {st \in JointStates :
                    \E c \in JointChoices(E[n].kind, st) :
                      LET sub == ChildStates(E[n].kind, st, c)
                      IN  sub[1] \in left /\ sub[2] \in right}
  IN  possible

Parent(E, n) == CHOOSE m \in DOMAIN E : n \in Operands(E, m)

(* solveBinary: a choice works if both operands' states are possible; the  *)
(* first that works is taken, and the ones after it are not tried.         *)
Works(E, possible, n, st, c) ==
  LET sub == ChildStates(E[n].kind, st, c)
  IN  sub[1] \in possible[E[n].left] /\ sub[2] \in possible[E[n].right]

Tried(E, possible, n, st) ==
  {c \in JointChoices(E[n].kind, st) :
     \A d \in JointChoices(E[n].kind, st) : TriedBefore(d, c) => ~Works(E, possible, n, st, d)}

Chosen(E, possible, n, st) ==
  CHOOSE c \in Tried(E, possible, n, st) : Works(E, possible, n, st, c)

(* The states of each node that the solver expands, each of them once: the *)
(* right operand's only if the left one's is possible.                     *)
Expanded(E, possible, root) ==
  LET expanded[n \in DOMAIN E] ==
        IF n = 1 THEN {root}
        ELSE LET m == Parent(E, n)
                 below(st) ==
                   IF E[m].kind = "not" THEN {Negate(st)}
                   ELSE LET subs == {ChildStates(E[m].kind, st, c) :
                                       c \in Tried(E, possible, m, st)}
                        IN  IF n = E[m].left THEN {sub[1] : sub \in subs}
                            ELSE {sub[2] : sub \in {s \in subs :
                                                      s[1] \in possible[E[m].left]}}
             IN  UNION {below(st) : st \in expanded[m]}
  IN  expanded

(* reconstruct: the state of each node under the choices that are taken,   *)
(* and the completions, read off the conditions.                           *)
Taken(E, possible, root) ==
  LET taken[n \in DOMAIN E] ==
        IF n = 1 THEN root
        ELSE LET m == Parent(E, n)
                 st == taken[m]
                 sub == ChildStates(E[m].kind, st, Chosen(E, possible, m, st))
             IN  IF E[m].kind = "not" THEN Negate(st)
                 ELSE IF n = E[m].left THEN sub[1] ELSE sub[2]
  IN  taken

LeafOf(E, i) ==
  CHOOSE n \in DOMAIN E : E[n].kind = "condition" /\ E[n].index = i

Completions(E, possible, root) ==
  LET taken == Taken(E, possible, root)
  IN  [k \in {1, 2} |-> [i \in Conditions(E) |-> taken[LeafOf(E, i)].value[k]]]

RootState(E, p, q) ==
  [value |-> <<ResultOf(E, p), ResultOf(E, q)>>, active |-> <<TRUE, TRUE>>]

(* solvePair *)
SolvePair(E, p, q, target) ==
  LET root == RootState(E, p, q)
      solved == Possible(E, p, q, target)
      possible == [n \in DOMAIN E |-> solved[n]]
      expanded == Expanded(E, possible, root)
      completions == Completions(E, possible, root)
  IN  [states |-> Cardinality(UNION {{n} \X expanded[n] : n \in DOMAIN E}),
       witness |-> IF root \in possible[1]
                   THEN <<p, q, completions[1], completions[2]>> ELSE <<>>]
=============================================================================
