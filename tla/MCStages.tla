------------------------------ MODULE MCStages ------------------------------
EXTENDS Stages, TLC

(* a and b are independent shards, a2 conflicts with a, c was recorded by  *)
(* the physical run of b under another identity, and d has another plan.   *)
Plan == [masking |-> TRUE, search |-> 2]
Plain == [masking |-> FALSE, search |-> 0]

Shard(name, plan, id, runtime, contents, complete) ==
  MeasurementFile([plan |-> plan, shards |-> {name},
    runs |-> {[id |-> id, runtime |-> runtime, contents |-> contents, complete |-> complete]}])

OfB == Shard("b", Plan, "2", "", 1, TRUE).archive

Recordings ==
  [a  |-> Shard("a", Plan, "1", "r1", 1, TRUE),
   a2 |-> Shard("a2", Plan, "1", "r1", 2, TRUE),
   b  |-> Shard("b", Plan, "2", "", 1, TRUE),
   c  |-> Shard("c", Plan, "3", "r1", 1, FALSE),
   d  |-> Shard("d", Plain, "4", "r4", 1, TRUE),
   old |-> [format |-> "result-2.0", archive |-> OfB, report |-> ReportOf(OfB, 3)],
   k |-> Absent, m |-> Absent, n |-> Absent, r |-> Absent, index |-> Absent]

Merging(inputs, output, expected) ==
  [name |-> "merge", inputs |-> inputs, output |-> output, expected |-> expected]
Analyzing(inputs, output, expected, limit) ==
  [name |-> "analyze", inputs |-> inputs, output |-> output, expected |-> expected, limit |-> limit]
Reanalyzing(input, output, limit) ==
  [name |-> "reanalyze", inputs |-> <<input>>, output |-> output, limit |-> limit]
Reporting(input, output) == [name |-> "report", inputs |-> <<input>>, output |-> output]
Requiring(input) == [name |-> "require", inputs |-> <<input>>]

AllCommands ==
  {Merging(<<"a", "b">>, "m", 2), Merging(<<"a2", "b">>, "n", 0), Merging(<<"n", "m">>, "k", 0),
   Merging(<<"b", "c", "m">>, "n", 0), Merging(<<"a", "d">>, "m", 0),
   Analyzing(<<"m", "b">>, "r", 1, 1), Analyzing(<<"d">>, "r", 1, 2),
   Reanalyzing("old", "r", 0), Reanalyzing("r", "old", 2), Reanalyzing("r", "r", 0),
   Reporting("r", "index"), Requiring("r"), Requiring("old")}

Symmetry == Permutations(Processes)
=============================================================================
