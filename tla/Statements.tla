----------------------------- MODULE Statements -----------------------------
(***************************************************************************)
(* Statement coverage of original sources from the counters that Go's      *)
(* cover tool keeps for rewritten ones (src/internal/c0): the planning of  *)
(* the correspondence before the tests run, the merge of the profiles that *)
(* the test binaries write, their acceptance against the plan, and the     *)
(* projection to the original statements.  The counters of test files,     *)
(* which go test leaves out, are kept in files of their own, byte by byte  *)
(* as they are hit (src/internal/testcover).                               *)
(*                                                                         *)
(* A source is a sequence of statement lists; a statement has an identity, *)
(* a logical position <<line, column>> (column 0: unknown), and says if it *)
(* ends a basic block.  A rewritten list holds the statements of the       *)
(* original one, in order, and generated ones; a column may have become    *)
(* unknown, further statements may end blocks, and a gap (lines without    *)
(* code) may precede a statement.                                          *)
(***************************************************************************)
EXTENDS Integers, FiniteSets, SequencesExt

CONSTANTS
  Programs,   \* [sources |-> , layout |-> , links |-> ]: what is measured
  Binaries,   \* the test binaries of a run
  Modes,      \* cover modes: "set", "count"
  MaxEntries, \* how often a binary enters a list
  MaxCount    \* the largest counter that a profile can hold

Generated == "generated"

VARIABLES
  program, mode,
  producer,   \* of each source, the regions that the cover tool counts
  plan,       \* of each source, its SourceCoveragePlan
  binary,     \* of each binary: "running", "passed", "failed", "killed"
  counters,   \* of each binary and region
  counterFile, \* of each binary and source, the file of a test file's
              \* counters: "none", "kept", "failed" or "removed"
  spent,      \* of each binary, the regions whose only write has failed
  reported,   \* a failure of the counter files was reported
  unreported, \* the counters that were lost by a failure without a report
  began,      \* the statements that each binary has begun
  profile,    \* the merged profile, of the regions that have a line
  outcome     \* of the acceptance

stored == <<counterFile, spent, reported, unreported>>
vars == <<program, mode, producer, plan, binary, counters, stored, began,
          profile, outcome>>
-----------------------------------------------------------------------------
(***************************************************************************)
(* The statements of a source by their places, which are <<list, number>>. *)
(***************************************************************************)
Places(lists) == UNION {{l} \X DOMAIN lists[l] : l \in DOMAIN lists}
Statement(lists, p) == lists[p[1]][p[2]]
Ids(lists, places) == {Statement(lists, p).id : p \in places}
UpTo(p, q) == p[1] < q[1] \/ (p[1] = q[1] /\ p[2] <= q[2])

Own(rewritten) == {p \in Places(rewritten) : Statement(rewritten, p).id # Generated}

(* What Go's parser and the instrumentation make of a source.              *)
IsText(lists) ==
  /\ Len(lists) \in Nat /\ DOMAIN lists = 1..Len(lists)
  /\ \A l \in DOMAIN lists : Len(lists[l]) \in Nat /\ DOMAIN lists[l] = 1..Len(lists[l])
  /\ \A p \in Places(lists) : Statement(lists, p).at \in Nat \X Nat

HasIdentities(lists, places) ==
  \A p, q \in places : Statement(lists, p).id = Statement(lists, q).id => p = q

IsRewriting(original, rewritten) ==
  /\ HasIdentities(original, Places(original)) /\ HasIdentities(rewritten, Own(rewritten))
  /\ Ids(rewritten, Own(rewritten)) = Ids(original, Places(original))
  /\ \A p, q \in Own(rewritten), x, y \in Places(original) :
       /\ Statement(rewritten, p).id = Statement(original, x).id
       /\ Statement(rewritten, q).id = Statement(original, y).id
       => /\ UpTo(p, q) <=> UpTo(x, y)
          /\ Statement(rewritten, p).at \in
               {Statement(original, x).at, <<Statement(original, x).at[1], 0>>}

ASSUME ProgramsAssumption ==
  /\ IsFiniteSet(Binaries)
  /\ \A P \in Programs : \A s \in DOMAIN P.sources :
       /\ IsText(P.sources[s].lists) /\ IsText(P.sources[s].rewritten)
       /\ IsRewriting(P.sources[s].lists, P.sources[s].rewritten)
       /\ P.sources[s].test \in BOOLEAN /\ P.sources[s].planned \in BOOLEAN
-----------------------------------------------------------------------------
(***************************************************************************)
(* The inventory of counters.  A list is cut into blocks behind every      *)
(* statement that ends one; with SplitCodeRanges each block also where a   *)
(* gap separates its statements.  The first statement names the range.     *)
(***************************************************************************)
Basic == [split |-> FALSE, counts |-> FALSE]

Starts(list, layout) ==
  {1} \cup {k \in 2..Len(list) : list[k - 1].ends \/ (layout.split /\ list[k].gap)}

Cut(lists, layout, first) ==
  {p \in Places(lists) : /\ p[1] = first[1]
                         /\ \A k \in Starts(lists[first[1]], layout) :
                              k <= p[2] <=> k <= first[2]}

(* RangeStatementCounts: NumStmt of a range counts the range's statements  *)
(* and not the block's.                                                    *)
Counted(lists, layout, first) ==
  Cardinality(Cut(lists, IF layout.counts THEN layout ELSE Basic, first))

Inventory(lists, layout) ==
  [first \in UNION {{l} \X Starts(lists[l], layout) : l \in DOMAIN lists} |->
     [units |-> Cut(lists, layout, first), statements |-> Counted(lists, layout, first)]]
-----------------------------------------------------------------------------
(***************************************************************************)
(* PlanCoverageCorrespondence.                                             *)
(***************************************************************************)
Anchored(original, u) == {j \in Places(original) : Statement(original, j).at = u.at}

Claimed(original, rewritten) ==
  UNION {A \in {Anchored(original, Statement(rewritten, p)) : p \in Own(rewritten)} :
           Cardinality(A) = 1}

OnLine(original, line) == {j \in Places(original) : Statement(original, j).at[1] = line}

(* A mistake: the ordinals count statements that have their match already. *)
AvailableAll(original, rewritten, line) == OnLine(original, line)

Available(original, rewritten, line) ==
  OnLine(original, line) \ Claimed(original, rewritten)

(* The statements of the line that have lost their column.                 *)
Moved(original, rewritten, line) ==
  {p \in Own(rewritten) : /\ Statement(rewritten, p).at[1] = line
                          /\ Anchored(original, Statement(rewritten, p)) = {}}

Rank(p, S) == Cardinality({q \in S : UpTo(q, p)})

(* planRewrittenStatementCandidates: the exact position, otherwise the     *)
(* ordinal on the line if the numbers agree, otherwise the whole line.     *)
Candidates(original, rewritten, p) ==
  LET anchored == Anchored(original, Statement(rewritten, p))
      line == Statement(rewritten, p).at[1]
      refs == Moved(original, rewritten, line)
      free == Available(original, rewritten, line)
  IN  IF anchored # {} THEN anchored
      ELSE IF Cardinality(refs) = Cardinality(free)
      THEN {j \in free : Rank(j, free) = Rank(p, refs)}
      ELSE OnLine(original, line)

RegionPlan(original, rewritten, regions, r) ==
  LET own == regions[r].units \cap Own(rewritten)
      found == [p \in own |-> Candidates(original, rewritten, p)]
  IN  [region |-> r,
       shape |-> <<r, regions[r].statements>>,
       lost |-> \E p \in own : found[p] = {},
       obligations |-> UNION {found[p] : p \in own},
       relation |-> IF own = {} THEN "generated"
                    ELSE IF own # regions[r].units THEN "partial"
                    ELSE IF \/ \E p \in own : Cardinality(found[p]) > 1
                            \/ \E p, q \in own : p # q /\ found[p] \cap found[q] # {}
                    THEN "ambiguous" ELSE "projectable"]

Planned(original, rewritten, regions) ==
  {RegionPlan(original, rewritten, regions, r) :
     r \in {q \in DOMAIN regions : regions[q].units # {}}}

(* downgradeCompetingProjectableRegions *)
Competes(p, planned) ==
  /\ p.relation = "projectable"
  /\ \E q \in planned \ {p} : /\ q.relation = "projectable"
                              /\ q.obligations \cap p.obligations # {}

Downgraded(planned) ==
  {IF Competes(p, planned) THEN [p EXCEPT !.relation = "partial"] ELSE p : p \in planned}

PlanOf(source, regions) ==
  LET planned == Planned(source.lists, source.rewritten, regions)
  IN  [made |-> /\ \A p \in planned : ~p.lost
                /\ UNION {p.obligations : p \in planned} = Places(source.lists),
       regions |-> Downgraded(planned)]

Projectable(p) ==
  /\ p.made
  /\ \A q \in p.regions : q.relation \in {"projectable", "generated"}
-----------------------------------------------------------------------------
(***************************************************************************)
(* The tests.  A binary enters the lists of the sources that are linked    *)
(* into it and may leave them behind any statement.                        *)
(***************************************************************************)
Sources == DOMAIN program.sources
Regions == UNION {{s} \X DOMAIN producer[s] : s \in Sources}
Region(ref) == producer[ref[1]][ref[2]]
InPlan == {s \in Sources : program.sources[s].planned}

Init ==
  /\ program \in Programs
  /\ mode \in Modes
  /\ producer = [s \in Sources |->
                   Inventory(program.sources[s].rewritten, program.layout)]
  /\ plan = [s \in Sources |-> PlanOf(program.sources[s], producer[s])]
  /\ binary = [b \in Binaries |-> "running"]
  /\ counters = [b \in Binaries |-> [ref \in Regions |-> 0]]
  /\ counterFile = [b \in Binaries |-> [s \in Sources |-> "none"]]
  /\ spent = [b \in Binaries |-> {}]
  /\ reported = FALSE
  /\ unreported = {}
  /\ began = [b \in Binaries |-> {}]
  /\ profile = <<>>
  /\ outcome = [phase |-> IF \A s \in Sources : plan[s].made
                          THEN "testing" ELSE "instrumentation failed"]

(* The regions of a list that its first n statements begin.                *)
Reached(s, l, n) ==
  {ref \in Regions : /\ ref[1] = s /\ Region(ref).units # {}
                     /\ ref[2][1] = l /\ ref[2][2] <= n}

IsTest(s) == program.sources[s].test

(***************************************************************************)
(* The report of a failure is itself a file, which may fail for the same   *)
(* cause, and a line of a stderr that go test drops if the package passes  *)
(* or a parent process keeps: refs are then lost unknown to the collector. *)
(***************************************************************************)
Failure(b, refs) ==
  \/ reported' = TRUE /\ UNCHANGED unreported
  \/ unreported' = unreported \cup ({b} \X refs) /\ UNCHANGED reported

OfSource(s) == {ref \in Regions : ref[1] = s}

(* NewFile, when the package is initialized: the file gets its name once   *)
(* its header and zeroes are written.                                      *)
NewFile(b, s) ==
  /\ outcome.phase = "testing" /\ binary[b] = "running"
  /\ s \in program.links[b] /\ IsTest(s)
  /\ counterFile[b][s] = "none"
  /\ \/ /\ counterFile' = [counterFile EXCEPT ![b][s] = "kept"]
        /\ UNCHANGED <<reported, unreported>>
     \/ /\ counterFile' = [counterFile EXCEPT ![b][s] = "failed"]
        /\ Failure(b, OfSource(s))
  /\ UNCHANGED <<program, mode, producer, plan, binary, counters, spent, began,
                 profile, outcome>>

(* A hit of a test file is in its counter file before the statement runs,  *)
(* unless there is no file; a counter is written once or not at all.       *)
Hit(b, ref) ==
  IF IsTest(ref[1])
  THEN IF counterFile[b][ref[1]] = "kept" /\ ref \notin spent[b] THEN 1
       ELSE counters[b][ref]
  ELSE IF mode = "set" THEN 1 ELSE counters[b][ref] + 1

AfterHits(b, refs) ==
  [ref \in Regions |-> IF ref \in refs THEN Hit(b, ref) ELSE counters[b][ref]]

(* The counters that are still to be written.                              *)
Fresh(b, refs) == {ref \in refs : counters[b][ref] = 0 /\ ref \notin spent[b]}

(* The binary may hit these counters, without a failure.                   *)
MayHit(b, s, refs) ==
  /\ outcome.phase = "testing" /\ binary[b] = "running"
  /\ s \in program.links[b]
  /\ IF IsTest(s)
     THEN /\ counterFile[b][s] # "none"
          /\ counterFile[b][s] = "removed" => Fresh(b, refs) = {}
     ELSE \A ref \in refs : counters[b][ref] < MaxEntries

Begin(b, s, l, n) ==
  began' = [began EXCEPT ![b] = @ \cup
    {<<s, id>> : id \in Ids(program.sources[s].rewritten, {l} \X (1..n))}]

Execute(b, s, l, n) ==
  /\ MayHit(b, s, Reached(s, l, n))
  /\ counters' = [counters EXCEPT ![b] = AfterHits(b, Reached(s, l, n))]
  /\ Begin(b, s, l, n)
  /\ UNCHANGED <<program, mode, producer, plan, binary, stored, profile, outcome>>

(* The last of the hits fails, whether its byte got into the file or not,  *)
(* and is never tried again; the statement begins nevertheless.            *)
LastHitFails(b, s, l, n) ==
  LET ref == <<s, <<l, n>>>>
  IN  /\ IsTest(s) /\ counterFile[b][s] \in {"kept", "removed"}
      /\ ref \in Fresh(b, Reached(s, l, n))
      /\ MayHit(b, s, Reached(s, l, n - 1))
      /\ \E byte \in IF counterFile[b][s] = "kept" THEN {0, 1} ELSE {0} :
           counters' = [counters EXCEPT ![b] =
             [AfterHits(b, Reached(s, l, n - 1)) EXCEPT ![ref] = byte]]
      /\ spent' = [spent EXCEPT ![b] = @ \cup {ref}]
      /\ Begin(b, s, l, n)

(* A mistake: the counter is taken back with its file, but not reported.   *)
HitFailsQuietly(b, s, l, n) ==
  /\ LastHitFails(b, s, l, n)
  /\ counterFile' = [counterFile EXCEPT ![b][s] = "removed"]
  /\ UNCHANGED <<program, mode, producer, plan, binary, reported, unreported,
                 profile, outcome>>

(* The failure is reported before the file is removed, if it can be.       *)
HitFails(b, s, l, n) ==
  /\ LastHitFails(b, s, l, n)
  /\ \/ /\ counterFile[b][s] = "kept" /\ UNCHANGED counterFile
        /\ Failure(b, {<<s, <<l, n>>>>})
     \/ /\ counterFile' = [counterFile EXCEPT ![b][s] = "removed"]
        /\ Failure(b, OfSource(s))
  /\ UNCHANGED <<program, mode, producer, plan, binary, profile, outcome>>

(* A binary that ends writes its profile, unless it is killed.             *)
EndBinary(b, how) ==
  /\ outcome.phase = "testing" /\ binary[b] = "running"
  /\ how = "passed" => \A s \in program.links[b] : IsTest(s) => counterFile[b][s] # "none"
  /\ binary' = [binary EXCEPT ![b] = how]
  /\ UNCHANGED <<program, mode, producer, plan, counters, stored, began, profile,
                 outcome>>

(* The binaries of whose run there is a profile or a counter file.         *)
Writers(s) ==
  {b \in Binaries : IF IsTest(s) THEN counterFile[b][s] = "kept"
                    ELSE binary[b] \in {"passed", "failed"} /\ s \in program.links[b]}

RunComplete == \A b \in Binaries : binary[b] = "passed"
-----------------------------------------------------------------------------
(***************************************************************************)
(* ParseProfile and testcover's Collect: one block per region that some    *)
(* binary has a line for.                                                  *)
(***************************************************************************)
Merge(ref) ==
  IF mode = "set" \/ IsTest(ref[1])
  THEN IF \E b \in Writers(ref[1]) : counters[b][ref] > 0 THEN 1 ELSE 0
  ELSE SumFunctionOnSet([b \in Binaries |-> counters[b][ref]], Writers(ref[1]))

Lines == {ref \in Regions : Writers(ref[1]) # {}}

Parse ==
  /\ outcome.phase = "testing"
  /\ \A b \in Binaries : binary[b] # "running"
  /\ profile' = [ref \in Lines |-> Merge(ref)]
  /\ outcome' = [phase |-> IF reported \/ \E ref \in Lines : Merge(ref) > MaxCount
                           THEN "unreadable" ELSE "parsed"]
  /\ UNCHANGED <<program, mode, producer, plan, binary, counters, stored, began>>
-----------------------------------------------------------------------------
(***************************************************************************)
(* AcceptProfileEvidence.                                                  *)
(***************************************************************************)
Module == "module"
ActualPath(s) == <<Module>> \o program.sources[s].path

(* acceptancePathMatches: the module's file, or any file whose path ends   *)
(* with a planned path of several elements.                                *)
PathMatches(actual, planned) ==
  \/ actual = <<Module>> \o planned
  \/ Len(planned) > 1 /\ IsSuffix(planned, actual)

Owners(line) ==
  {s \in InPlan : PathMatches(ActualPath(line[1]), program.sources[s].path)}

(* A region without statements asks for one path, any other for one source. *)
OwnerPaths(line) == {program.sources[s].path : s \in Owners(line)}

Ignored(line) ==
  \E s \in Sources \ InPlan :
    PathMatches(ActualPath(line[1]), program.sources[s].path)

(* A mistake: the plan is keyed by the statements that a region projects.  *)
ShapeBySource(line) == <<line[2], Cardinality(Region(line).units)>>

Shape(line) == <<line[2], Region(line).statements>>

Matches(line) ==
  {m \in UNION {{s} \X plan[s].regions : s \in Owners(line)} : m[2].shape = Shape(line)}

Acceptable(line) ==
  IF Region(line).statements = 0
  THEN Cardinality(OwnerPaths(line)) = 1 \/ (Owners(line) = {} /\ Ignored(line))
  ELSE Cardinality(Matches(line)) = 1 \/ (Matches(line) = {} /\ Ignored(line))

OmitsRegion(lines) ==
  RunComplete => \A s \in InPlan, ref \in Regions :
    ref[1] = s /\ Region(ref).units # {}
      => \E line \in lines : \E m \in Matches(line) : m[1] = s /\ m[2].region = ref[2]

Accepts(lines) ==
  /\ \A s \in InPlan : Projectable(plan[s])
  /\ \A line \in lines : Acceptable(line)
  /\ \A j, k \in lines : j # k => Matches(j) \cap Matches(k) = {}
  /\ OmitsRegion(lines)

(* The evidence of the region that projects original statement p of s.     *)
RegionEvidence(lines, s, p) ==
  LET found == {line \in lines :
                  \E m \in Matches(line) : /\ m[1] = s
                                           /\ m[2].relation = "projectable"
                                           /\ p \in m[2].obligations}
  IN  IF found = {} THEN [observed |-> FALSE, count |-> 0]
      ELSE [observed |-> TRUE, count |-> profile[CHOOSE line \in found : TRUE]]

OriginalUnits(s, first) == Cut(program.sources[s].lists, Basic, first)

OriginalBlocks(s) ==
  {first \in DOMAIN Inventory(program.sources[s].lists, Basic) : OriginalUnits(s, first) # {}}

(* AcceptedBlockEvidence: the entry's count and, unless all statements     *)
(* have the same, the evidence of each.                                    *)
Summarized(each, entry) ==
  [count |-> each[entry].count,
   observed |-> \A p \in DOMAIN each : each[p].observed,
   statements |-> IF \A p \in DOMAIN each : each[p] = each[entry] THEN <<>> ELSE each]

(* A mistake: the counter of the entry stands for the whole block. *)
SummarizedByEntry(each, entry) ==
  [count |-> each[entry].count, observed |-> each[entry].observed, statements |-> <<>>]

BlockEvidence(each, entry) == Summarized(each, entry)

Evidence(lines) ==
  [s \in InPlan |->
     [first \in OriginalBlocks(s) |->
        BlockEvidence([p \in OriginalUnits(s, first) |-> RegionEvidence(lines, s, p)],
                      first)]]

(* Evidence that is refused is replaced by that of an empty profile, which *)
(* an unprojectable plan refuses as well.                                  *)
Accept ==
  /\ outcome.phase \in {"parsed", "unreadable"}
  /\ outcome' =
       IF outcome.phase = "parsed" /\ Accepts(DOMAIN profile)
       THEN [phase |-> "accepted", evidence |-> Evidence(DOMAIN profile)]
       ELSE IF \A s \in InPlan : Projectable(plan[s])
       THEN [phase |-> "rejected", evidence |-> Evidence({})]
       ELSE [phase |-> "rejected", evidence |-> <<>>]
  /\ UNCHANGED <<program, mode, producer, plan, binary, counters, stored, began,
                 profile>>

Next ==
  \/ \E b \in Binaries, s \in Sources :
       \E l \in DOMAIN program.sources[s].rewritten :
         \E n \in 1..Len(program.sources[s].rewritten[l]) :
           Execute(b, s, l, n) \/ HitFails(b, s, l, n)
  \/ \E b \in Binaries, s \in Sources : NewFile(b, s)
  \/ \E b \in Binaries, how \in {"passed", "failed", "killed"} : EndBinary(b, how)
  \/ Parse
  \/ Accept

Spec == Init /\ [][Next]_vars
-----------------------------------------------------------------------------
(***************************************************************************)
(* ProjectAcceptedEvidence: the spans of a block with equal evidence, or   *)
(* one per statement if executions are to be merged.                       *)
(***************************************************************************)
Whole(e) == [observed |-> e.observed, count |-> e.count]
Each(e, units) == IF e.statements # <<>> THEN e.statements ELSE [p \in units |-> Whole(e)]

(* The statements that begin a span.                                       *)
Heads(each, units, separate) ==
  {p \in units : \/ separate \/ <<p[1], p[2] - 1>> \notin units
                 \/ each[p] # each[<<p[1], p[2] - 1>>]}

Spans(e, units, separate) ==
  IF e.statements = <<>> /\ ~separate THEN {[units |-> units, evidence |-> Whole(e)]}
  ELSE LET heads == Heads(Each(e, units), units, separate)
       IN  {[units |-> {p \in units : \A h \in heads : UpTo(h, p) <=> UpTo(h, first)},
             evidence |-> Each(e, units)[first]] : first \in heads}

Projected(s, separate) ==
  UNION {Spans(outcome.evidence[s][first], OriginalUnits(s, first), separate) :
           first \in OriginalBlocks(s)}
-----------------------------------------------------------------------------
Original(s) == program.sources[s].lists
Rewritten(s) == program.sources[s].rewritten
IdOf(s, p) == Statement(Original(s), p).id

(* The first statement of the region that a statement is in.               *)
RegionOf(s, id) ==
  CHOOSE r \in DOMAIN producer[s] : id \in Ids(Rewritten(s), producer[s][r].units)

Entry(s, id) == Statement(Rewritten(s), RegionOf(s, id)).id

Mixed(s) ==
  \E r \in DOMAIN producer[s] :
    LET ids == Ids(Rewritten(s), producer[s][r].units)
    IN  Generated \in ids /\ ids # {Generated}

(***************************************************************************)
(* A region that may be projected stands for exactly the statements that   *)
(* are in it, although the plan has only their positions to go by; and a   *)
(* source whose statements have positions of their own is never given up,  *)
(* whichever columns its rewriting loses (PlanCoverageCorrespondence).     *)
(***************************************************************************)
HasPositions(original) ==
  \A j, k \in Places(original) :
    /\ Statement(original, j).at[2] # 0
    /\ j # k => Statement(original, j).at # Statement(original, k).at

PlansTellTheTruth ==
  \A s \in Sources :
    /\ Projectable(plan[s]) => \A p \in plan[s].regions :
         p.relation = "projectable" =>
           Ids(Original(s), p.obligations) = Ids(Rewritten(s), producer[s][p.region].units)
    /\ ~Mixed(s) /\ HasPositions(Original(s)) => Projectable(plan[s])

(* The binaries of which the counter of a statement may not be missing:    *)
(* what was killed leaves no profile, but all the counters of its test     *)
(* files, except what a failure lost whose report was lost as well.        *)
Measured(s, id) ==
  IF IsTest(s) THEN {b \in Binaries : <<b, <<s, RegionOf(s, id)>>>> \notin unreported}
  ELSE Writers(s)

(***************************************************************************)
(* Of accepted evidence a statement is credited only if a binary whose     *)
(* profile or counter file there is entered its region, and is credited if *)
(* one did whose counter may not be missing, of a test file any binary at  *)
(* all: nothing that ran is missing, unless the counter failed and the     *)
(* report of it too, and neither the entry of a block nor another file's   *)
(* counter stands in for it, whether spans are grouped or not              *)
(* (AcceptProfileEvidence, ProjectAcceptedEvidence, Collect).              *)
(***************************************************************************)
Covering(spans, p) == {span \in spans : p \in span.units}

HasEntered(binaries, s, id) == \E b \in binaries : <<s, Entry(s, id)>> \in began[b]

CreditIsEarned ==
  outcome.phase = "accepted" =>
    \A s \in InPlan, separate \in BOOLEAN :
      LET spans == Projected(s, separate)
      IN  \A p \in Places(Original(s)) :
            \E span \in spans :
              /\ Covering(spans, p) = {span}
              /\ span.evidence.count > 0 => HasEntered(Writers(s), s, IdOf(s, p))
              /\ HasEntered(Measured(s, IdOf(s, p)), s, IdOf(s, p)) =>
                   span.evidence.count > 0

(***************************************************************************)
(* A statement is reported as missed only if it was measured: some binary  *)
(* that has it wrote a profile or a counter file and none began it, except *)
(* one whose counter failed and the report of it too; what was refused or  *)
(* is missing stays unknown, and of a passed run nothing is unknown.       *)
(***************************************************************************)
MissedMeansMeasured ==
  "evidence" \in DOMAIN outcome /\ outcome.evidence # <<>> =>
    \A s \in InPlan :
      LET spans == Projected(s, FALSE)
      IN  \A p \in Places(Original(s)), span \in spans : p \in span.units =>
            /\ span.evidence.observed /\ span.evidence.count = 0 =>
                 /\ outcome.phase = "accepted" /\ Writers(s) # {}
                 /\ \A b \in Measured(s, IdOf(s, p)) : <<s, IdOf(s, p)>> \notin began[b]
            /\ outcome.phase = "accepted" /\ RunComplete => span.evidence.observed

(***************************************************************************)
(* Evidence is refused only for a cause: a rewriting that cannot be traced *)
(* back, a counter that overflows or cannot be kept, or a passed run that  *)
(* did not measure a source at all.                                        *)
(***************************************************************************)
RefusedForCause ==
  outcome.phase = "rejected" =>
    \/ \E s \in InPlan : ~Projectable(plan[s])
    \/ \E line \in Lines : Merge(line) > MaxCount
    \/ reported
    \/ RunComplete /\ \E s \in InPlan : Writers(s) = {}
=============================================================================
