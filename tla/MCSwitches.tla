----------------------------- MODULE MCSwitches -----------------------------
(* A conditionless switch of three decisions, its default in the middle    *)
(* and entered by fallthrough as well, one of a single decision, and an    *)
(* expression switch without a default; run by threads of one process or   *)
(* of two, which may have been given the same process ID.                  *)
EXTENDS Switches

MCProvenance ==
  [process \in {"p", "q", "foreign", "stale"} |->
     [run |-> IF process = "stale" THEN "earlier" ELSE "run",
      package |-> IF process = "foreign" THEN "other" ELSE "package",
      pid |-> 1]]

Leaf(i) == <<[kind |-> "condition", index |-> i]>>
And == <<[kind |-> "and", left |-> 2, right |-> 3]>> \o Leaf(1) \o Leaf(2)

MCDecisions ==
  [d \in 1..4 |-> [package |-> "package", kind |-> "switch-case",
                   tree |-> IF d = 3 THEN And ELSE Leaf(1)]]

Clause(switch, kind, role, group, index, decisions, alternatives) ==
  [package |-> "package", switch |-> switch, kind |-> kind, role |-> role,
   group |-> group, index |-> index, decisions |-> decisions,
   alternatives |-> alternatives]

MCClauses ==
  1 :> Clause(1, "conditionless", "case", 1, 0, <<1>>, 0)
    @@ 2 :> Clause(1, "conditionless", "default", 1, 1, <<>>, 0)
    @@ 3 :> Clause(1, "conditionless", "case", 1, 2, <<2, 3>>, 0)
    @@ 4 :> Clause(2, "expression", "case", 0, 0, <<>>, 2)
    @@ 5 :> Clause(3, "conditionless", "case", 2, 0, <<4>>, 0)

MCNoMatches == 2 :> "package"

Source(clause, cases, alternatives, default, falls) ==
  [clause |-> clause, cases |-> cases, alternatives |-> alternatives,
   default |-> default, falls |-> falls]

MCFunctions ==
  [F |-> <<Source(1, <<1>>, 0, FALSE, TRUE), Source(2, <<>>, 0, TRUE, FALSE),
           Source(3, <<2, 3>>, 0, FALSE, FALSE)>>,
   G |-> <<Source(5, <<4>>, 0, FALSE, FALSE)>>,
   E |-> <<Source(4, <<>>, 2, FALSE, FALSE)>>]

Call(f, function) == [file |-> f, function |-> function]

MCSettings ==
  {[identity |-> <<"p">>, calls |-> <<Call(1, "G"), Call(1, "E")>>],
   [identity |-> <<"p", "q">>, calls |-> <<Call(1, "F"), Call(2, "G")>>],
   [identity |-> <<"p", "p">>, calls |-> <<Call(1, "G"), Call(2, "G")>>]}

MCNotEvaluated(b) ==
  [states |-> [i \in 1..b.count |-> "notEvaluated"], result |-> FALSE]
-----------------------------------------------------------------------------
(* All records of one evaluation, or one record, as another program or a   *)
(* faulty recorder would have written them.                                *)
IsOf(r, i) == r.type \in {"begin", "terminal"} /\ r.id = i
IsEnd(r) == r.type = "terminal"

EditEvaluation(lines, i, decision, count) ==
  [n \in DOMAIN lines |->
     IF ~IsOf(lines[n], i) THEN lines[n]
     ELSE IF IsEnd(lines[n])
     THEN [lines[n] EXCEPT !.decision = decision, !.count = count,
                           !.data.states = [c \in 1..count |-> "true"]]
     ELSE [lines[n] EXCEPT !.decision = decision, !.count = count]]

EndEdits(r) ==
  {[r EXCEPT !.process = "q"], [r EXCEPT !.skips = @ \cup {1}]} \cup
  IF ~r.completed THEN {}
  ELSE {[r EXCEPT !.skips = @ \ {3}],
        [r EXCEPT !.data.result = ~@, !.selects = ~@, !.skips = {}]}

ClauseEdits(r) ==
  {[r EXCEPT !.clause.clause = 9], [r EXCEPT !.clause.clause = 0],
   [r EXCEPT !.clause.switch = 5], [r EXCEPT !.clause.alternative = <<7>>],
   [r EXCEPT !.clause.event = "another"]}
    \cup {e \in {[r EXCEPT !.clause.clause = 1, !.clause.switch = 1]} :
            r.clause.event = "direct-selection"}

Edits(lines) ==
  UNION {{[lines EXCEPT ![n] = r] :
            r \in CASE IsEnd(lines[n]) -> EndEdits(lines[n])
                    [] lines[n].type = "clause" -> ClauseEdits(lines[n])
                    [] OTHER -> {[type |-> "garbled"]}} : n \in DOMAIN lines}
    \cup {EditEvaluation(lines, i, d, 1) :
            i \in {lines[n].id : n \in {m \in DOMAIN lines :
                                      IsEnd(lines[m]) /\ lines[m].completed}},
            d \in {3, 9}}
    \cup {[n \in DOMAIN lines |-> [lines[n] EXCEPT !.process = p]] :
            p \in {"foreign", "stale"}}
    \cup {RemoveAt(lines, n) : n \in {m \in DOMAIN lines : lines[m].type = "begin"}}

Journal(lines, torn) == [kind |-> "journal", lines |-> lines, torn |-> torn]

(* The journal after a compaction.                                         *)
Compacted(lines) ==
  LET ended == SelectSeq(lines, IsEnd)
      open(r) == r.type = "begin" /\ ~\E e \in ToSet(ended) : e.id = r.id
  IN  [n \in DOMAIN ended |-> [ended[n] EXCEPT !.type = "evaluation"]]
        \o SelectSeq(lines, open)
        \o SelectSeq(lines, LAMBDA r : r.type = "clause")

Others ==
  {[kind |-> "artifact", lines |-> <<>>, torn |-> FALSE],
   [kind |-> "stranger", lines |-> <<>>, torn |-> FALSE],
   Journal(<<[type |-> "diagnostic", process |-> "p"]>>, FALSE)}

MCRemains(left) ==
  {[files |-> left, intact |-> TRUE],
   [files |-> [left EXCEPT ![1].torn = TRUE], intact |-> TRUE],
   [files |-> [left EXCEPT ![1].lines = Compacted(left[1].lines)],
    intact |-> TRUE]}
    \cup {[files |-> <<o>> \o left, intact |-> o.kind = "artifact"] : o \in Others}
    \cup {[files |-> [left EXCEPT ![1].lines = edited], intact |-> FALSE] :
            edited \in Edits(left[1].lines) \ {left[1].lines}}

(* Directories as they may be found before anything was recorded.          *)
MCDirectories == {found.files : found \in MCRemains(<<Journal(<<>>, FALSE)>>)}
=============================================================================
