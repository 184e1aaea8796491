------------------------------- MODULE Masking -------------------------------
(***************************************************************************)
(* Masking MC/DC of one decision (internal/mcdc: MaskingStrategy.Analyze-  *)
(* Context): for every condition a search over the pairs of evaluations    *)
(* for two completions that show its independent effect, within a budget   *)
(* of pairs, of solver states and of solver bytes, while the context may   *)
(* be canceled at any time.                                                *)
(***************************************************************************)
EXTENDS Suite, JointSolver

CONSTANTS Decisions,      \* [expression |-> , suite |-> , enabled |-> ] to analyze
          MaxPairs,       \* AnalysisBudget.MaxEvaluationPairs
          MaxStates,      \* AnalysisBudget.MaxSearchStates
          MaxBytes,       \* AnalysisBudget.MaxSolverBytes, in nodes and indexes
          CheckInterval   \* maskingCancellationCheckInterval

ASSUME BudgetAssumption ==
  /\ MaxPairs \in Nat \ {0} /\ MaxStates \in Nat \ {0} /\ MaxBytes \in Nat \ {0}
  /\ CheckInterval \in Nat \ {0}

(* validateExpression: the conditions of a decision that is analyzed are   *)
(* numbered without a gap.                                                 *)
ASSUME DecisionsAssumption ==
  \A d \in Decisions :
    /\ WellFormed(d.expression)
    /\ Conditions(d.expression) = 1..Cardinality(Conditions(d.expression))
    /\ \E suite \in SUBSET Vectors(d.expression) : d.suite = Prepared(suite)

VARIABLES
  canceled,    \* the context is done
  position,    \* the condition that is analyzed
  pair,        \* how many of its candidate pairs are tried
  states,      \* budget.searchStates
  searching,   \* its search has begun
  results,     \* result.Conditions
  search       \* "started", "analyzing" or "done"

maskingVars == <<canceled, position, pair, states, searching, results, search>>

Count == Cardinality(Conditions(expression))

NotCovered == [outcome |-> "notCovered", analysis |-> "complete", witness |-> <<>>]
Unknown == [outcome |-> "unknown", analysis |-> "incomplete", witness |-> <<>>]
Canceled == [outcome |-> "unknown", analysis |-> "canceled", witness |-> <<>>]
InfeasibleResult ==
  [outcome |-> "notCovered", analysis |-> "infeasible", witness |-> <<>>]
CoveredBy(completed) ==
  [outcome |-> "covered", analysis |-> "complete", witness |-> completed]
-----------------------------------------------------------------------------
(***************************************************************************)
(* The candidate pairs of a condition, in which the target and the result  *)
(* both differ, in the order in which they are tried.                      *)
(***************************************************************************)
Candidate(k, i) == evaluations[k][i] # "notEvaluated"

CandidatePairs(i) ==
  {w \in Indexes \X Indexes :
     /\ w[1] < w[2]
     /\ Candidate(w[1], i) /\ Candidate(w[2], i)
     /\ evaluations[w[1]][i] # evaluations[w[2]][i]
     /\ ResultOf(expression, evaluations[w[1]]) # ResultOf(expression, evaluations[w[2]])}

(* The pairs that are tried before a pair.                                 *)
PairsBefore(w, i) == {v \in CandidatePairs(i) : TriedBefore(v, w)}

SolverBytes(i) ==
  Len(expression) + Cardinality({k \in Indexes : Candidate(k, i)})

MaskingInit ==
  /\ \E d \in Decisions : expression = d.expression /\ evaluations = d.suite
  /\ canceled = FALSE
  /\ position = 1
  /\ pair = 0
  /\ states = 0
  /\ searching = FALSE
  /\ results = [i \in Conditions(expression) |-> NotCovered]
  /\ search = "started"

(* markMaskingCanceled *)
MarkCanceled(from) ==
  results' = [i \in Conditions(expression) |->
                IF i < from THEN results[i] ELSE Canceled]

(* The next condition's search starts with a fresh budget.                 *)
NextCondition ==
  /\ position' = position + 1
  /\ pair' = 0
  /\ states' = 0
  /\ searching' = FALSE

Settle(result) ==
  /\ results' = [results EXCEPT ![position] = result]
  /\ NextCondition
  /\ UNCHANGED <<expression, evaluations, canceled, search>>

(* The search of this condition was canceled: no later one is begun.       *)
StopCanceled(from) ==
  /\ MarkCanceled(from)
  /\ search' = "done"
  /\ UNCHANGED <<expression, evaluations, canceled, position, pair, states, searching>>

Start ==
  /\ search = "started"
  /\ IF canceled THEN MarkCanceled(1) /\ search' = "done"
     ELSE UNCHANGED results /\ search' = "analyzing"
  /\ UNCHANGED <<expression, evaluations, canceled, position, pair, states, searching>>

Analyzing == search = "analyzing" /\ position <= Count

AtCondition == Analyzing /\ ~searching

SkipCanceled == AtCondition /\ canceled /\ StopCanceled(position)

SkipInfeasible ==
  /\ AtCondition /\ ~canceled
  /\ ~StructurallyPivotal(expression, position)
  /\ Settle(InfeasibleResult)

NoCandidates ==
  /\ AtCondition /\ ~canceled
  /\ StructurallyPivotal(expression, position)
  /\ CandidatePairs(position) = {}
  /\ Settle(NotCovered)

TooLarge ==
  /\ AtCondition /\ ~canceled
  /\ StructurallyPivotal(expression, position)
  /\ CandidatePairs(position) # {}
  /\ SolverBytes(position) > MaxBytes
  /\ Settle(Unknown)

BeginSearch ==
  /\ AtCondition /\ ~canceled
  /\ StructurallyPivotal(expression, position)
  /\ CandidatePairs(position) # {}
  /\ SolverBytes(position) <= MaxBytes
  /\ searching' = TRUE
  /\ UNCHANGED <<expression, evaluations, canceled, position, pair, states, results,
                 search>>

(* The context is asked at every CheckInterval-th unit but the first.      *)
Asked(from, upto) ==
  canceled /\ \E s \in from..upto : s # 0 /\ s % CheckInterval = 0

PairsExhausted ==
  /\ Analyzing /\ searching
  /\ pair = Cardinality(CandidatePairs(position))
  /\ Settle(NotCovered)

Exceeds(used, limit) == used > limit

(* A mistake: a search that stops has found no pair. *)
StoppedResultNotCovered == NotCovered

StoppedResult == Unknown

TryPair ==
  /\ Analyzing /\ searching
  /\ \E w \in CandidatePairs(position) :
       /\ Cardinality(PairsBefore(w, position)) = pair
       /\ LET solved == SolvePair(expression, evaluations[w[1]], evaluations[w[2]], position)
              used == states + solved.states
              lastState == (IF used > MaxStates THEN MaxStates ELSE used) - 1
          IN  IF Exceeds(pair + 1, MaxPairs) THEN Settle(StoppedResult)
              ELSE IF Asked(pair, pair) \/ Asked(states, lastState)
              THEN StopCanceled(position)
              ELSE IF Exceeds(used, MaxStates) THEN Settle(StoppedResult)
              ELSE IF solved.witness # <<>> THEN Settle(CoveredBy(solved.witness))
              ELSE /\ pair' = pair + 1
                   /\ states' = used
                   /\ UNCHANGED <<expression, evaluations, canceled, position,
                                  searching, results, search>>

Finish ==
  /\ search = "analyzing"
  /\ position > Count
  /\ search' = "done"
  /\ UNCHANGED <<expression, evaluations, canceled, position, pair, states, searching,
                 results>>

(* The caller gives the analysis up. *)
Cancel ==
  /\ ~canceled
  /\ search # "done"
  /\ canceled' = TRUE
  /\ UNCHANGED <<expression, evaluations, position, pair, states, searching, results,
                 search>>

MaskingNext ==
  \/ Start \/ SkipCanceled \/ SkipInfeasible \/ NoCandidates \/ TooLarge
  \/ BeginSearch \/ PairsExhausted \/ TryPair \/ Finish \/ Cancel

MaskingSpec ==
  MaskingInit /\ [][MaskingNext]_<<expression, evaluations, maskingVars>>

(***************************************************************************)
(* finishResult                                                            *)
(***************************************************************************)
Outcome ==
  IF Conditions(expression) = {} THEN "unknown"
  ELSE IF \A i \in Conditions(expression) : results[i].outcome = "covered"
  THEN "covered"
  ELSE IF \E i \in Conditions(expression) : results[i].outcome = "unknown"
  THEN "unknown"
  ELSE IF \E i \in Conditions(expression) :
            results[i].outcome # "covered" /\ results[i].analysis # "infeasible"
  THEN "notCovered" ELSE "infeasible"
-----------------------------------------------------------------------------
(***************************************************************************)
(* D19 of docs/specification.md, by enumeration; and what the comment on   *)
(* MaskingStrategy.Analyze asks in addition: that the target decides the   *)
(* result in both completions.                                             *)
(***************************************************************************)
Differs(i, x, y) ==
  /\ x[i] # y[i]
  /\ Value(expression, x) # Value(expression, y)
  /\ \A j \in Conditions(expression) \ {i} :
       \/ x[j] = y[j]
       \/ Masked(expression, x, j) /\ Masked(expression, y, j)

Shows(i, x, y) ==
  Differs(i, x, y) /\ ~Masked(expression, x, i) /\ ~Masked(expression, y, i)

Evaluated(i, p, q) == p[i] # "notEvaluated" /\ q[i] # "notEvaluated"

Covers(i, p, q) ==
  /\ Evaluated(i, p, q)
  /\ \E x \in Comp(expression, p), y \in Comp(expression, q) : Shows(i, x, y)

CoversByD19(i, p, q) ==
  /\ Evaluated(i, p, q)
  /\ \E x \in Comp(expression, p), y \in Comp(expression, q) : Differs(i, x, y)

Settled(i) == search = "done" \/ i < position

Finished(i) == Settled(i) /\ results[i].analysis = "complete"

(* The completions of a witness agree with the observed vectors and        *)
(* results, and show the condition's independent effect.                   *)
WitnessProves(i) ==
  LET w == results[i].witness
  IN  /\ w[3] \in Comp(expression, w[1]) /\ w[4] \in Comp(expression, w[2])
      /\ Value(expression, w[3]) = ResultOf(expression, w[1])
      /\ Value(expression, w[4]) = ResultOf(expression, w[2])
      /\ Shows(i, w[3], w[4])

OutcomeIsHonest ==
  /\ Outcome = "covered" =>
       \A i \in Conditions(expression) : results[i].witness # <<>>
  /\ Outcome = "notCovered" =>
       \E i \in Conditions(expression) : \A k, l \in Indexes :
         ~Covers(i, evaluations[k], evaluations[l])

(***************************************************************************)
(* What the search says is what its definition says: a finished search     *)
(* covers a condition exactly if some pair of the suite does, whatever the *)
(* budget and whenever the context is canceled; a condition is infeasible  *)
(* only if no assignment makes it decide; a witness proves its claim; and  *)
(* a search that stops early never looks like one that found nothing: the  *)
(* decision is "not covered" only if a finished search says so of one of   *)
(* its conditions, and "covered" only with a witness for each              *)
(* (MaskingStrategy.AnalyzeContext).                                       *)
(***************************************************************************)
MatchesDefinition ==
  /\ search = "done" => OutcomeIsHonest
  /\ \A i \in Conditions(expression) :
       /\ Finished(i) =>
            (results[i].outcome = "covered"
               <=> \E k, l \in Indexes :
                     k < l /\ Covers(i, evaluations[k], evaluations[l]))
       /\ results[i].analysis = "infeasible" =>
            \A z \in Assignments(expression) : Masked(expression, z, i)
       /\ results[i].witness # <<>> => WitnessProves(i)

(***************************************************************************)
(* A finished search covers a condition if some pair of the suite meets    *)
(* the four conditions of D19, which do not ask that the target decide the *)
(* result.                                                                 *)
(***************************************************************************)
ExactByD19 ==
  \A i \in Conditions(expression) :
    Finished(i) /\ (\E k, l \in Indexes :
                      k < l /\ CoversByD19(i, evaluations[k], evaluations[l]))
      => results[i].outcome = "covered"
=============================================================================
