----------------------------- MODULE Acceptance -----------------------------
(***************************************************************************)
(* The acceptance of collected runtime evidence against the sources that   *)
(* were measured (src/internal/evidence/runtime.go), as operators.  What   *)
(* it refuses it charges to the producer that recorded it, the rewritten   *)
(* sources ("ast") or the compiler ("compiler"), or to both ("shared").    *)
(***************************************************************************)
EXTENDS Decision, SequencesExt

CONSTANTS
  Run,         \* the run that is measured
  Provenance,  \* of each process, its [run |-> , package |-> , pid |-> ]
  Decisions,   \* of each decision, its [package |-> , kind |-> , tree |-> ]
  Clauses,     \* of each clause, its [package |-> , switch |-> , kind |-> ,
               \* role |-> , group |-> , index |-> , decisions |-> ,
               \* alternatives |-> ]
  NoMatches    \* of each switch that may select nothing, its package

NoGroup == 0

(***************************************************************************)
(* conditionlessSwitchDecisionOrder: the decisions of one switch in the    *)
(* order of its clauses, and those that a decision comes before.           *)
(***************************************************************************)
Places ==
  UNION {{c} \X DOMAIN Clauses[c].decisions :
           c \in {x \in DOMAIN Clauses : /\ Clauses[x].kind = "conditionless"
                                        /\ Clauses[x].group # NoGroup}}

DecisionAt(place) == Clauses[place[1]].decisions[place[2]]

Before(p, q) ==
  /\ Clauses[p[1]].group = Clauses[q[1]].group
  /\ \/ Clauses[p[1]].index < Clauses[q[1]].index
     \/ p[1] = q[1] /\ p[2] < q[2]

Suffix(d) ==
  {DecisionAt(q) : q \in {x \in Places :
                           \E p \in Places : DecisionAt(p) = d /\ Before(p, x)}}

(***************************************************************************)
(* Evaluations.                                                            *)
(***************************************************************************)
FromHere(process, package) ==
  /\ Provenance[process].run = Run
  /\ Provenance[process].pid > 0
  /\ Provenance[process].package = package

(* ValidateCompletedEvaluation: a completed evaluation is one that the     *)
(* decision's short-circuit evaluation can leave behind.                   *)
Possible(d, data) ==
  /\ DOMAIN data.states = Conditions(Decisions[d].tree)
  /\ data.result \in Observed(Decisions[d].tree, data.states)

IsValid(e) ==
  /\ e.decision \in DOMAIN Decisions
  /\ e.identity.id # 0
  /\ FromHere(e.identity.process, Decisions[e.decision].package)
  /\ DOMAIN e.data.states = Conditions(Decisions[e.decision].tree)
  /\ e.completed => Possible(e.decision, e.data)

Valid(c) == {e \in ToSet(c.evaluations) : IsValid(e)}

Selects(e) == e.completed /\ e.data.result

(* DeduplicateEvaluations: one evaluation of each process and data.        *)
Key(e) ==
  [process |-> e.identity.process, decision |-> e.decision, data |-> e.data,
   completed |-> e.completed]

(***************************************************************************)
(* Decisions that a selected case has skipped.                             *)
(***************************************************************************)
Causes(c, s) == {e \in Valid(c) : e.identity = s.cause /\ Selects(e)}

IsSwitchCase(d) == d \in DOMAIN Decisions /\ Decisions[d].kind = "switch-case"

IsEarned(c, s) ==
  /\ IsSwitchCase(s.decision)
  /\ FromHere(s.cause.process, Decisions[s.decision].package)
  /\ \E e \in Causes(c, s) :
       IsSwitchCase(e.decision) /\ s.decision \in Suffix(e.decision)

SkippedBy(c, e) ==
  {s \in c.skipped : s.cause = e.identity /\ IsEarned(c, s)}

(* A mistake: what was skipped need not be the rest of the switch.         *)
IsWholeOfAny(c, e) == TRUE

IsWhole(c, e) == {s.decision : s \in SkippedBy(c, e)} = Suffix(e.decision)

(***************************************************************************)
(* Clauses that were entered or selected.                                  *)
(***************************************************************************)
ValidAlternative(o, clause) ==
  IF clause.role = "default" THEN o.alternative = <<>>
  ELSE o.alternative # <<>> /\ o.alternative[1] < clause.alternatives

IsClauseValid(process, o) ==
  IF o.event = "no-match-selection"
  THEN /\ o.switch \in DOMAIN NoMatches
       /\ o.alternative = <<>>
       /\ FromHere(process, NoMatches[o.switch])
  ELSE /\ o.clause \in DOMAIN Clauses
       /\ FromHere(process, Clauses[o.clause].package)
       /\ IF o.event = "body-execution"
          THEN o.alternative = <<>> /\ o.switch \in {0, Clauses[o.clause].switch}
          ELSE /\ Clauses[o.clause].kind \in {"expression", "type"}
               /\ o.switch = Clauses[o.clause].switch
               /\ ValidAlternative(o, Clauses[o.clause])

Producer(event) == IF event = "body-execution" THEN "ast" ELSE "compiler"

(***************************************************************************)
(* AcceptRuntimeByProducer, of what was collected of the processes.        *)
(***************************************************************************)
KnownPackages ==
  {Decisions[d].package : d \in DOMAIN Decisions}
    \cup {Clauses[c].package : c \in DOMAIN Clauses}
    \cup {NoMatches[s] : s \in DOMAIN NoMatches}

IsForeign(process) == \A package \in KnownPackages : ~FromHere(process, package)

(* A mistake: whatever is refused is charged to the rewritten sources.     *)
IssuesOfOne(processes, c) ==
  IF \/ \E process \in processes : IsForeign(process)
     \/ \E e \in ToSet(c.evaluations) : ~IsValid(e)
     \/ \E s \in c.skipped : ~IsEarned(c, s)
     \/ \E e \in Valid(c) : Selects(e) /\ ~IsWhole(c, e)
     \/ \E x \in c.clauses : ~IsClauseValid(x.process, x.clause)
  THEN {"ast"} ELSE {}

Issues(processes, c) ==
  {"shared" : process \in {p \in processes : IsForeign(p)}}
    \cup {"ast" : e \in {x \in ToSet(c.evaluations) : ~IsValid(x)}}
    \cup {"ast" : s \in {x \in c.skipped : ~IsEarned(c, x)}}
    \cup {"ast" : e \in {x \in Valid(c) : Selects(x) /\ ~IsWhole(c, x)}}
    \cup {Producer(x.clause.event) :
            x \in {y \in c.clauses : ~IsClauseValid(y.process, y.clause)}}

Accepted(processes, c) ==
  [issues |-> Issues(processes, c),
   evaluations |-> {Key(e) : e \in Valid(c)},
   skipped |-> UNION {SkippedBy(c, e) : e \in {x \in Valid(c) :
                                                 Selects(x) /\ IsWhole(c, x)}},
   clauses |-> {x.clause : x \in {y \in c.clauses :
                                    IsClauseValid(y.process, y.clause)}}]

Nothing == [issues |-> {"shared"}, evaluations |-> {}, skipped |-> {}, clauses |-> {}]

(* The context is found to be done before the evaluations have been        *)
(* compared, while they are deduplicated, which is charged to the          *)
(* rewritten sources alone, or before the clauses; what the interrupted    *)
(* loop has accepted by then is left out.                                  *)
Interrupted(processes, c) ==
  LET whole == Accepted(processes, c)
  IN  {Nothing,
       [Nothing EXCEPT !.issues = (whole.issues \cap {"shared"}) \cup {"ast"},
                       !.skipped = whole.skipped],
       [whole EXCEPT !.issues = @ \cup {"shared"}, !.clauses = {}]}

ProducerError(accepted, producer) ==
  accepted.issues \cap {"shared", producer} # {}
=============================================================================
