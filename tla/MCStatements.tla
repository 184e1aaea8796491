---------------------------- MODULE MCStatements ----------------------------
(* Sources of two lists and four statements, three of them on one line, in *)
(* all the ways in which a rewriting can move, divide and extend them; and *)
(* two copies of one file, one of them left out of the measurement; and a  *)
(* file with a test file.                                                  *)
EXTENDS Statements

St(id, line, column) == [id |-> id, at |-> <<line, column>>, ends |-> FALSE, gap |-> FALSE]

(* Positions of their own; two lists of which one line holds three; and    *)
(* positions that a line directive makes equal or deprives of a column.    *)
Original1 == <<<<St("a", 1, 2), St("b", 1, 6), St("c", 2, 2)>>, <<St("d", 1, 9)>>>>
Original2 == <<<<St("a", 1, 0), St("b", 1, 0), St("c", 2, 2)>>, <<St("d", 1, 9)>>>>
Original3 == <<<<St("a", 1, 0), St("b", 1, 6), St("c", 2, 2)>>, <<St("d", 2, 0)>>>>

Move(lists, moved) ==
  [l \in DOMAIN lists |-> [k \in DOMAIN lists[l] |->
     IF lists[l][k].id \in moved
     THEN [lists[l][k] EXCEPT !.at = <<@[1], 0>>] ELSE lists[l][k]]]

Mark(lists, ends, gaps) ==
  [l \in DOMAIN lists |-> [k \in DOMAIN lists[l] |->
     [lists[l][k] EXCEPT !.ends = lists[l][k].id \in ends,
                         !.gap = lists[l][k].id \in gaps]]]

Hook(ends) == [id |-> Generated, at |-> <<99, 1>>, ends |-> ends, gap |-> FALSE]

(* A generated statement as a region of its own, or within another's.      *)
Insert(lists, how) ==
  [lists EXCEPT ![2] = <<Hook(how = "own")>> \o @]

Layouts == {[split |-> FALSE, counts |-> FALSE], [split |-> TRUE, counts |-> FALSE],
            [split |-> TRUE, counts |-> TRUE]}

File(path, planned, lists, rewritten) ==
  [path |-> path, test |-> FALSE, planned |-> planned, lists |-> lists,
   rewritten |-> rewritten]

OneSource(lists, moved, ends, gaps, hook, layout) ==
  [sources |-> <<File(<<"a", "x">>, TRUE, lists,
                      Insert(Mark(Move(lists, moved), ends, gaps), hook))>>,
   layout |-> layout,
   links |-> [b \in Binaries |-> {1}]]

MovedPrograms ==
  {OneSource(o, moved, {}, {"c"}, hook, [split |-> TRUE, counts |-> FALSE]) :
     o \in {Original1, Original2, Original3},
     moved \in SUBSET {"a", "b", "c", "d"}, hook \in {"own", "mixed"}}

DividedPrograms ==
  {OneSource(Original1, {"b"}, ends, gaps, "own", layout) :
     ends \in SUBSET {"a", "b"}, gaps \in SUBSET {"b", "c"}, layout \in Layouts}

(* Two files of the same text under the paths, with an empty list each.    *)
Copies(first, second, planned, links) ==
  LET lists == <<<<St("a", 1, 2), St("b", 2, 2)>>, <<>>>>
  IN  [sources |-> <<File(first, TRUE, lists, lists), File(second, planned, lists, lists)>>,
       layout |-> [split |-> FALSE, counts |-> FALSE],
       links |-> links]

AllLinks ==
  {[b \in Binaries |-> IF b = first THEN one ELSE {2}] :
     first \in Binaries, one \in {{1}, {2}, {1, 2}}}

CopiedPrograms ==
  {Copies(<<"a", "x">>, second, planned, links) :
     second \in {<<"a", "y">>, <<"b", "x">>}, planned \in BOOLEAN, links \in AllLinks}

(* A file and a test file of its package, which go into one test binary    *)
(* that is run twice, or with the file alone into that of another package. *)
TestedPrograms ==
  {[sources |-> <<File(<<"a", "x">>, TRUE, <<<<St("a", 1, 2)>>>>, <<<<St("a", 1, 2)>>>>),
                  [File(<<"a", "x_test">>, TRUE, Mark(lists, {}, {}), Mark(lists, {"a"}, {}))
                     EXCEPT !.test = TRUE]>>,
    layout |-> [split |-> FALSE, counts |-> FALSE],
    links |-> [b \in Binaries |-> IF b = first THEN {1, 2} ELSE second]] :
     lists \in {<<<<St("a", 1, 2), St("b", 2, 2)>>>>}, first \in Binaries,
     second \in {{1}, {1, 2}}}

(* Every set of programs above is closed under an exchange of binaries.    *)
Exchange == Permutations(Binaries)

MCPrograms == MovedPrograms \cup DividedPrograms \cup CopiedPrograms \cup TestedPrograms

(* The second path ends with the first one, and its file is not measured.  *)
SuffixPrograms ==
  {Copies(<<"a", "x">>, <<"v2", "a", "x">>, FALSE, links) : links \in AllLinks}
=============================================================================
