--------------------------- MODULE CollectorProofs ---------------------------
(* What the collector makes of a directory, whatever it holds, and         *)
(* acceptance of what instrumented switches have left in it.               *)
EXTENDS Switches, FoldTheorems

(***************************************************************************)
(* What can be collected of the lines L, and the end records among them.   *)
(***************************************************************************)
Identities(L) == {Identity(r) : r \in L}
EvaluationsOf(L) == {EvaluationOf(r) : r \in L} \cup {AbortedOf(r) : r \in L}
SkipsOf(L) == UNION {{[decision |-> d, cause |-> Identity(r)] : d \in r.skips} : r \in L}
ClausesOf(L) == {[process |-> r.process, clause |-> r.clause] : r \in L}

Collections(L) ==
  [begun : SUBSET L, finished : SUBSET Identities(L), evaluations : Seq(EvaluationsOf(L)),
   skipped : SUBSET SkipsOf(L), clauses : SUBSET ClausesOf(L),
   integrity : BOOLEAN, interrupted : BOOLEAN]

IsEnd(r) == r.type \in {"terminal", "evaluation"}

(* Nothing is in every collection.                                         *)
LEMMA EmptyCollection == ASSUME NEW L PROVE Empty \in Collections(L)
BY DEF Empty, Collections

(* A diagnostic changes its mark alone.                                    *)
LEMMA DiagnosticType ==
  ASSUME NEW L, NEW c \in Collections(L)
  PROVE  /\ Diagnostic(c) \in Collections(L)
         /\ Diagnostic(c).integrity
         /\ Diagnostic(c).begun = c.begun /\ Diagnostic(c).finished = c.finished
         /\ Diagnostic(c).evaluations = c.evaluations /\ Diagnostic(c).clauses = c.clauses
BY DEF Diagnostic, Collections

(* An interruption changes its mark alone.                                 *)
LEMMA InterruptionType ==
  ASSUME NEW L, NEW c \in Collections(L)
  PROVE  /\ Interruption(c) \in Collections(L)
         /\ Interruption(c).integrity = c.integrity
         /\ Interruption(c).begun = c.begun /\ Interruption(c).finished = c.finished
         /\ Interruption(c).evaluations = c.evaluations
         /\ Interruption(c).clauses = c.clauses
BY DEF Interruption, Collections

SkipsBy(r) ==
  IF r.selects
  THEN {[decision |-> d, cause |-> Identity(r)] : d \in r.skips \ {r.decision}} ELSE {}

IsConsistent(r) == (r.skips # {} => r.selects) /\ r.decision \notin r.skips

(* What an evaluation adds.                                                *)
LEMMA AddEvaluationType ==
  ASSUME NEW L, NEW c \in Collections(L), NEW r \in L
  PROVE  LET a == AddEvaluation(c, r)
         IN  /\ a \in Collections(L)
             /\ c.integrity \/ ~IsConsistent(r) => a.integrity
             /\ a.begun = c.begun /\ a.finished = c.finished \cup {Identity(r)}
             /\ a.evaluations = Append(c.evaluations, EvaluationOf(r))
             /\ a.clauses = c.clauses /\ a.skipped = c.skipped \cup SkipsBy(r)
<1> DEFINE a == AddEvaluation(c, r)
           i == c.integrity \/ (r.skips # {} /\ ~r.selects) \/ r.decision \in r.skips
           s == IF r.selects
                THEN c.skipped \cup {[decision |-> d, cause |-> Identity(r)] :
                                       d \in r.skips \ {r.decision}}
                ELSE c.skipped
<1>1. i \in BOOLEAN /\ (c.integrity \/ ~IsConsistent(r) => i)
  BY DEF Collections, IsConsistent
<1>2. s \in SUBSET SkipsOf(L)
  BY DEF Collections, SkipsOf
<1>3. Append(c.evaluations, EvaluationOf(r)) \in Seq(EvaluationsOf(L))
  BY DEF Collections, EvaluationsOf
<1>4. c.finished \cup {Identity(r)} \in SUBSET Identities(L)
  BY DEF Collections, Identities
<1>5. a = [c EXCEPT !.evaluations = Append(c.evaluations, EvaluationOf(r)),
                    !.finished = c.finished \cup {Identity(r)},
                    !.skipped = s, !.integrity = i]
  BY DEF AddEvaluation, Collections
<1> HIDE DEF a, i, s
<1>6. /\ a \in Collections(L)
      /\ a.integrity = i /\ a.skipped = s
      /\ a.begun = c.begun /\ a.finished = c.finished \cup {Identity(r)}
      /\ a.evaluations = Append(c.evaluations, EvaluationOf(r))
      /\ a.clauses = c.clauses
  BY <1>1, <1>2, <1>3, <1>4, <1>5 DEF Collections
<1>7. s = c.skipped \cup SkipsBy(r)
  BY DEF s, SkipsBy
<1> QED BY <1>1, <1>6, <1>7 DEF a

Matching(c, r) ==
  {b \in c.begun : /\ Identity(b) = Identity(r)
                   /\ b.decision = r.decision
                   /\ b.count = r.count}

(***************************************************************************)
(* A line is answered with a diagnostic, or opens an evaluation, or ends   *)
(* one that is open or was not begun, or names a clause.                   *)
(***************************************************************************)
Opens(c, r, d) ==
  /\ r.type = "begin" /\ Identity(r) \notin c.finished
  /\ \A b \in c.begun : Identity(b) # Identity(r)
  /\ d = [c EXCEPT !.begun = c.begun \cup {r}]

Closes(c, r, d) ==
  /\ r.type \in {"terminal", "evaluation"} /\ Identity(r) \notin c.finished
  /\ \E closed \in SUBSET c.begun :
       /\ \A b \in closed : Identity(b) = Identity(r)
       /\ \A b \in c.begun : Identity(b) = Identity(r) => closed # {}
       /\ d = AddEvaluation([c EXCEPT !.begun = c.begun \ closed], r)

Names(c, r, d) ==
  /\ r.type = "clause" /\ NamesClause(r)
  /\ d = [c EXCEPT !.clauses = c.clauses \cup {[process |-> r.process, clause |-> r.clause]}]

(* A line of a journal opens an evaluation, closes one, names a clause or  *)
(* is a diagnostic, and changes nothing else.                              *)
LEMMA LineIsOne ==
  ASSUME NEW L, NEW c \in Collections(L), NEW r, NEW p
  PROVE  LET d == ConsumeLine(c, r, p)
         IN  d = Diagnostic(c) \/ Opens(c, r, d) \/ Closes(c, r, d) \/ Names(c, r, d)
<1> DEFINE d == ConsumeLine(c, r, p)
<1>1. SUFFICES ASSUME d # Diagnostic(c)
               PROVE  Opens(c, r, d) \/ Closes(c, r, d) \/ Names(c, r, d)
  BY Zenon
<1>2. d = Consume(c, r)
  BY <1>1 DEF ConsumeLine
<1>3. r.type \in {"begin", "terminal", "evaluation", "clause"}
  BY <1>1, <1>2 DEF Consume
<1> HIDE DEF d
<1>4. CASE r.type = "begin"
  <2>1. d = ConsumeBegin(c, r)
    BY <1>2, <1>4 DEF Consume
  <2>2. ~IsFinished(c, r) /\ ~IsBegun(c, r) /\ d = [c EXCEPT !.begun = c.begun \cup {r}]
    BY <1>1, <2>1 DEF ConsumeBegin
  <2> QED BY <1>4, <2>2 DEF Opens, IsFinished, IsBegun
<1>5. CASE r.type = "terminal"
  <2>1. d = ConsumeTerminal(c, r)
    BY <1>2, <1>5 DEF Consume
  <2>2. /\ ~IsFinished(c, r) /\ Matching(c, r) # {}
        /\ d = AddEvaluation([c EXCEPT !.begun = c.begun \ Matching(c, r)], r)
    BY <1>1, <2>1 DEF ConsumeTerminal, Matching
  <2>3. Matching(c, r) \in SUBSET c.begun
    BY DEF Matching
  <2>4. \A b \in Matching(c, r) : Identity(b) = Identity(r)
    BY DEF Matching
  <2> QED BY <1>5, <2>2, <2>3, <2>4 DEF Closes, IsFinished
<1>6. CASE r.type = "evaluation"
  <2>1. d = ConsumeEvaluation(c, r)
    BY <1>2, <1>6 DEF Consume
  <2>2. ~IsFinished(c, r) /\ ~IsBegun(c, r) /\ d = AddEvaluation(c, r)
    BY <1>1, <2>1 DEF ConsumeEvaluation
  <2>3. c = [c EXCEPT !.begun = c.begun \ {}]
    BY DEF Collections
  <2> QED BY <1>6, <2>2, <2>3 DEF Closes, IsFinished, IsBegun
<1>7. CASE r.type = "clause"
  <2>1. d = ConsumeClause(c, r)
    BY <1>2, <1>7 DEF Consume
  <2> QED BY <1>1, <1>7, <2>1 DEF ConsumeClause, Names
<1> QED BY <1>3, <1>4, <1>5, <1>6, <1>7

(* What a closed evaluation leaves.                                        *)
LEMMA ClosesType ==
  ASSUME NEW L, NEW c \in Collections(L), NEW r \in L, NEW d, Closes(c, r, d)
  PROVE  /\ d \in Collections(L)
         /\ c.integrity \/ ~IsConsistent(r) => d.integrity
         /\ d.finished = c.finished \cup {Identity(r)}
         /\ d.evaluations = Append(c.evaluations, EvaluationOf(r))
         /\ d.clauses = c.clauses /\ d.skipped = c.skipped \cup SkipsBy(r)
         /\ \E closed \in SUBSET c.begun :
              /\ d.begun = c.begun \ closed
              /\ \A b \in closed : Identity(b) = Identity(r)
              /\ \A b \in c.begun : Identity(b) = Identity(r) => closed # {}
<1>1. PICK closed \in SUBSET c.begun :
        /\ \A b \in closed : Identity(b) = Identity(r)
        /\ \A b \in c.begun : Identity(b) = Identity(r) => closed # {}
        /\ d = AddEvaluation([c EXCEPT !.begun = c.begun \ closed], r)
  BY DEF Closes
<1> DEFINE k == [c EXCEPT !.begun = c.begun \ closed]
<1>2. /\ k \in Collections(L) /\ k.integrity = c.integrity /\ k.begun = c.begun \ closed
      /\ k.finished = c.finished /\ k.evaluations = c.evaluations /\ k.clauses = c.clauses
      /\ k.skipped = c.skipped
  BY DEF Collections
<1> HIDE DEF k
<1>3. d = AddEvaluation(k, r)
  BY <1>1 DEF k
<1>4. /\ d \in Collections(L)
      /\ k.integrity \/ ~IsConsistent(r) => d.integrity
      /\ d.begun = k.begun /\ d.finished = k.finished \cup {Identity(r)}
      /\ d.evaluations = Append(k.evaluations, EvaluationOf(r))
      /\ d.clauses = k.clauses /\ d.skipped = k.skipped \cup SkipsBy(r)
  BY <1>2, <1>3, AddEvaluationType
<1> QED BY <1>1, <1>2, <1>4

(* The type of what is collected, and that damage stays.                   *)
LEMMA LineType ==
  ASSUME NEW L, NEW c \in Collections(L), NEW r \in L, NEW p
  PROVE  LET d == ConsumeLine(c, r, p)
         IN  d \in Collections(L) /\ (c.integrity => d.integrity)
<1> DEFINE d == ConsumeLine(c, r, p)
<1>1. d = Diagnostic(c) \/ Opens(c, r, d) \/ Closes(c, r, d) \/ Names(c, r, d)
  BY LineIsOne
<1> HIDE DEF d
<1>2. CASE d = Diagnostic(c)
  BY <1>2, DiagnosticType DEF d
<1>3. CASE Opens(c, r, d)
  BY <1>3 DEF Opens, Collections, d
<1>4. CASE Closes(c, r, d)
  BY <1>4, ClosesType DEF d
<1>5. CASE Names(c, r, d)
  <2>1. [process |-> r.process, clause |-> r.clause] \in ClausesOf(L)
    BY DEF ClausesOf
  <2> QED BY <1>5, <2>1 DEF Names, Collections, d
<1> QED BY <1>1, <1>2, <1>3, <1>4, <1>5
-----------------------------------------------------------------------------
(***************************************************************************)
(* What has been collected of the lines S tells nothing twice and nothing  *)
(* else, and all of it unless a diagnostic says so.                        *)
(***************************************************************************)
Found(c) == ToSet(c.evaluations)

Distinct(c) ==
  \A i, j \in DOMAIN c.evaluations :
    c.evaluations[i].identity = c.evaluations[j].identity => i = j

Sound(c, S) ==
  /\ \A b \in c.begun : b \in S /\ b.type = "begin" /\ Identity(b) \notin c.finished
  /\ \A a, b \in c.begun : Identity(a) = Identity(b) => a = b
  /\ Distinct(c)
  /\ c.finished = {v.identity : v \in Found(c)}
  /\ \A v \in Found(c) : \E r \in S : IsEnd(r) /\ v = EvaluationOf(r)

Full(c, S) ==
  /\ \A r \in S : IsEnd(r) => EvaluationOf(r) \in Found(c)
  /\ \A b \in S : b.type = "begin" => b \in c.begun \/ Identity(b) \in c.finished
  /\ c.clauses = {[process |-> r.process, clause |-> r.clause] :
                    r \in {l \in S : l.type = "clause"}}

Good(c, S) == Sound(c, S) /\ (~c.integrity => Full(c, S))

(* An evaluation that is appended is one more.                             *)
LEMMA FoundAppend ==
  ASSUME NEW V, NEW s \in Seq(V), NEW v
  PROVE  /\ ToSet(Append(s, v)) = ToSet(s) \cup {v}
         /\ DOMAIN Append(s, v) = DOMAIN s \cup {Len(s) + 1}
         /\ \A i \in DOMAIN s : i # Len(s) + 1 /\ Append(s, v)[i] = s[i]
         /\ Append(s, v)[Len(s) + 1] = v
<1>1. Append(s, v) \in Seq(V \cup {v}) /\ Len(Append(s, v)) = Len(s) + 1
  OBVIOUS
<1>2. /\ DOMAIN Append(s, v) = DOMAIN s \cup {Len(s) + 1}
      /\ \A i \in DOMAIN s : i # Len(s) + 1 /\ Append(s, v)[i] = s[i]
      /\ Append(s, v)[Len(s) + 1] = v
  BY <1>1
<1> QED BY <1>2 DEF ToSet

(* Opening keeps what is collected good.                                   *)
LEMMA OpensGood ==
  ASSUME NEW L, NEW c \in Collections(L), NEW r \in L, NEW d, Opens(c, r, d),
         NEW S \in SUBSET L, Good(c, S)
  PROVE  Good(d, S \cup {r})
<1>1. /\ d.begun = c.begun \cup {r} /\ d.finished = c.finished
      /\ d.evaluations = c.evaluations /\ d.clauses = c.clauses
      /\ d.integrity = c.integrity
  BY DEF Opens, Collections
<1>2. r.type = "begin" /\ Identity(r) \notin c.finished
      /\ \A b \in c.begun : Identity(b) # Identity(r)
  BY DEF Opens
<1>3. Sound(d, S \cup {r})
  BY <1>1, <1>2 DEF Good, Sound, Found, Distinct
<1>4. ASSUME Full(c, S) PROVE Full(d, S \cup {r})
  BY <1>1, <1>2, <1>4 DEF Full, Found, IsEnd
<1> QED BY <1>1, <1>3, <1>4 DEF Good

(* So does closing.                                                        *)
LEMMA ClosesGood ==
  ASSUME NEW L, NEW c \in Collections(L), NEW r \in L, NEW d, Closes(c, r, d),
         NEW S \in SUBSET L, Good(c, S)
  PROVE  Good(d, S \cup {r})
<1>1. /\ d.finished = c.finished \cup {Identity(r)}
      /\ d.evaluations = Append(c.evaluations, EvaluationOf(r))
      /\ d.clauses = c.clauses
      /\ c.integrity => d.integrity
      /\ d \in Collections(L)
  BY ClosesType
<1>2. PICK closed \in SUBSET c.begun :
        /\ d.begun = c.begun \ closed
        /\ \A b \in closed : Identity(b) = Identity(r)
        /\ \A b \in c.begun : Identity(b) = Identity(r) => closed # {}
  BY ClosesType
<1>3. IsEnd(r) /\ r.type # "begin" /\ r.type # "clause" /\ Identity(r) \notin c.finished
  BY DEF Closes, IsEnd
<1>4. \A b \in c.begun : b \in d.begun <=> Identity(b) # Identity(r)
  BY <1>2 DEF Good, Sound
<1> DEFINE v == EvaluationOf(r)
<1>5. c.evaluations \in Seq(EvaluationsOf(L))
  BY DEF Collections
<1>6. v.identity = Identity(r)
  BY DEF EvaluationOf
<1> HIDE DEF v
<1>7. /\ Found(d) = Found(c) \cup {v}
      /\ DOMAIN d.evaluations = DOMAIN c.evaluations \cup {Len(c.evaluations) + 1}
      /\ \A i \in DOMAIN c.evaluations : /\ i # Len(c.evaluations) + 1
                                         /\ d.evaluations[i] = c.evaluations[i]
      /\ d.evaluations[Len(c.evaluations) + 1] = v
  BY <1>1, <1>5, FoundAppend DEF Found, v
<1>8. d.finished = {w.identity : w \in Found(d)}
  BY <1>1, <1>6, <1>7 DEF Good, Sound
<1>9. Distinct(d)
  <2>1. \A i \in DOMAIN c.evaluations : c.evaluations[i].identity # v.identity
    <3>1. \A i \in DOMAIN c.evaluations : c.evaluations[i] \in Found(c)
      BY DEF Found, ToSet
    <3> QED BY <1>3, <1>6, <3>1 DEF Good, Sound
  <2> QED BY <1>7, <2>1 DEF Good, Sound, Distinct
<1>10. Sound(d, S \cup {r})
  <2>1. \A b \in d.begun : b \in S \cup {r} /\ b.type = "begin" /\ Identity(b) \notin d.finished
    BY <1>1, <1>2, <1>4 DEF Good, Sound
  <2>2. \A w \in Found(d) : \E l \in S \cup {r} : IsEnd(l) /\ w = EvaluationOf(l)
    BY <1>3, <1>7 DEF Good, Sound, v
  <2>3. \A a, b \in d.begun : Identity(a) = Identity(b) => a = b
    BY <1>2 DEF Good, Sound
  <2> QED BY <1>8, <1>9, <2>1, <2>2, <2>3 DEF Sound
<1>11. ASSUME Full(c, S) PROVE Full(d, S \cup {r})
  BY <1>1, <1>3, <1>4, <1>7, <1>11 DEF Full, v
<1> QED BY <1>1, <1>10, <1>11, <1>5 DEF Good, Collections

(* And a line of any kind.                                                 *)
LEMMA LineGood ==
  ASSUME NEW L, NEW c \in Collections(L), NEW r \in L, NEW p,
         NEW S \in SUBSET L, Good(c, S)
  PROVE  LET d == ConsumeLine(c, r, p)
         IN  /\ Good(d, S \cup {r})
             /\ IsEnd(r) /\ Identity(r) \in c.finished => d.integrity
             /\ c.finished \subseteq d.finished
             /\ IsEnd(r) => d.integrity \/ Identity(r) \in d.finished
<1> DEFINE d == ConsumeLine(c, r, p)
<1>1. d = Diagnostic(c) \/ Opens(c, r, d) \/ Closes(c, r, d) \/ Names(c, r, d)
  BY LineIsOne
<1> HIDE DEF d
<1>2. CASE d = Diagnostic(c)
  <2>1. d.integrity /\ d.begun = c.begun /\ d.finished = c.finished
        /\ d.evaluations = c.evaluations
    BY <1>2, DiagnosticType
  <2>2. Sound(d, S \cup {r})
    BY <2>1 DEF Good, Sound, Found, Distinct
  <2> QED BY <2>1, <2>2 DEF Good, d
<1>3. CASE Opens(c, r, d)
  <2>1. d.finished = c.finished /\ ~IsEnd(r)
    BY <1>3 DEF Opens, Collections, IsEnd
  <2> QED BY <1>3, <2>1, OpensGood DEF d
<1>4. CASE Closes(c, r, d)
  <2>1. /\ Identity(r) \notin c.finished
        /\ d.finished = c.finished \cup {Identity(r)}
    <3>1. Identity(r) \notin c.finished
      BY <1>4 DEF Closes
    <3> QED BY <1>4, <3>1, ClosesType
  <2>2. Good(d, S \cup {r})
    BY <1>4, ClosesGood
  <2> QED BY <2>1, <2>2 DEF d
<1>5. CASE Names(c, r, d)
  <2>1. /\ d.integrity = c.integrity /\ d.begun = c.begun /\ d.finished = c.finished
        /\ d.evaluations = c.evaluations /\ r.type = "clause"
        /\ d.clauses = c.clauses \cup {[process |-> r.process, clause |-> r.clause]}
    BY <1>5 DEF Names, Collections
  <2>2. Sound(d, S \cup {r})
    BY <2>1 DEF Good, Sound, Found, Distinct
  <2>3. ASSUME Full(c, S) PROVE Full(d, S \cup {r})
    BY <2>1, <2>3 DEF Full, Found, IsEnd
  <2> QED BY <2>1, <2>2, <2>3 DEF Good, IsEnd, d
<1> QED BY <1>1, <1>2, <1>3, <1>4, <1>5
-----------------------------------------------------------------------------
(***************************************************************************)
(* The lines of a file that have been read, and of all files.              *)
(***************************************************************************)
ReadOf(i) ==
  IF i < file THEN LinesOf(files[i])
  ELSE IF i = file /\ files[i].kind = "journal"
  THEN {files[i].lines[k] : k \in 1..(line - 1)} ELSE {}

SeenLines == UNION {ReadOf(i) : i \in DOMAIN files}

TypeInv ==
  /\ IsDirectory(files)
  /\ file \in 1..(Len(files) + 1)
  /\ line \in Nat \ {0}
  /\ phase \in {"reading", "aborting", "collected", "cancelled"}
  /\ phase \in {"aborting", "collected"} => file = Len(files) + 1
  /\ file <= Len(files) /\ files[file].kind = "journal" =>
       line <= Len(files[file].lines) + 1
  /\ file > Len(files) => line = 1
  /\ collector \in Collections(AllLines)
  /\ phase = "cancelled" => collector = Empty

(* No evaluation has ended in two files.                                   *)
Apart ==
  \A i, j \in DOMAIN files : i < j =>
    \A r \in ReadOf(i), s \in ReadOf(j) : IsEnd(r) /\ IsEnd(s) => Identity(r) # Identity(s)

ReadInv ==
  phase = "reading" =>
    /\ Good(collector, SeenLines)
    /\ ~collector.integrity => Apart

(***************************************************************************)
(* Once all is read, what is still open is ended one by one.               *)
(***************************************************************************)
OpenInv ==
  /\ \A b \in collector.begun : b \in Begins /\ Identity(b) \notin collector.finished
  /\ \A a, b \in collector.begun : Identity(a) = Identity(b) => a = b
  /\ \A b \in collector.begun, v \in Found(collector) : v.identity # Identity(b)
  /\ Distinct(collector)
  /\ collector.finished \subseteq {Identity(r) : r \in Ends}
  /\ \A v \in Found(collector) :
       \/ \E r \in Ends : v = EvaluationOf(r)
       \/ \E b \in Begins : Identity(b) \notin collector.finished /\ v = AbortedOf(b)

AllFound ==
  /\ \A r \in Ends : EvaluationOf(r) \in Found(collector) /\ Identity(r) \in collector.finished
  /\ \A b \in Begins : \/ b \in collector.begun
                       \/ Identity(b) \in collector.finished
                       \/ AbortedOf(b) \in Found(collector)
  /\ collector.clauses = {[process |-> r.process, clause |-> r.clause] :
                            r \in {l \in AllLines : l.type = "clause"}}
  /\ Apart

AbortInv ==
  phase \in {"aborting", "collected"} =>
    /\ OpenInv
    /\ ~collector.integrity => AllFound
    /\ phase = "collected" => collector.begun = {}

CInv == TypeInv /\ ReadInv /\ AbortInv
-----------------------------------------------------------------------------
(* A directory is a sequence, and so are its files.                        *)
LEMMA DirectoryType ==
  ASSUME NEW d, IsDirectory(d)
  PROVE  /\ Len(d) \in Nat /\ DOMAIN d = 1..Len(d)
         /\ \A i \in DOMAIN d : /\ Len(d[i].lines) \in Nat
                                /\ DOMAIN d[i].lines = 1..Len(d[i].lines)
                                /\ LinesOf(d[i]) = IF d[i].kind = "journal"
                                     THEN {d[i].lines[k] : k \in 1..Len(d[i].lines)} ELSE {}
<1>1. Len(d) \in Nat /\ DOMAIN d = 1..Len(d)
  BY DEF IsDirectory
<1>2. ASSUME NEW i \in DOMAIN d
      PROVE  Len(d[i].lines) \in Nat /\ DOMAIN d[i].lines = 1..Len(d[i].lines)
  BY DEF IsDirectory
<1>3. \A i \in DOMAIN d : LinesOf(d[i]) = IF d[i].kind = "journal"
                            THEN {d[i].lines[k] : k \in 1..Len(d[i].lines)} ELSE {}
  BY <1>2 DEF LinesOf, ToSet
<1> QED BY <1>1, <1>2, <1>3

(* At the start nothing is collected of anything.                          *)
LEMMA CStarts ==
  ASSUME IsDirectory(files), file = 1, line = 1, collector = Empty, phase = "reading"
  PROVE  CInv /\ SeenLines = {}
<1>1. Len(files) \in Nat
  BY DirectoryType
<1>2. \A i \in DOMAIN files : i >= 1 /\ Len(files[i].lines) \in Nat
  BY DirectoryType
<1>3. TypeInv
  BY <1>1, <1>2, EmptyCollection DEF TypeInv
<1>4. \A i \in DOMAIN files : ReadOf(i) = {}
  <2>1. 1..0 = {} /\ line - 1 = 0 /\ file = 1
    OBVIOUS
  <2>2. \A i \in DOMAIN files : ~(i < file)
    BY <2>1, DirectoryType
  <2> QED BY <2>1, <2>2 DEF ReadOf
<1>5. SeenLines = {}
  BY <1>4 DEF SeenLines
<1>6. Good(Empty, {})
  <2>1. ToSet(<<>>) = {}
    BY DEF ToSet
  <2> QED BY <2>1 DEF Good, Sound, Full, Empty, Found, Distinct
<1>7. Apart
  BY <1>4 DEF Apart
<1> QED BY <1>3, <1>5, <1>6, <1>7 DEF CInv, ReadInv, AbortInv

(* Initially it is.                                                        *)
LEMMA CInit == Init => CInv
BY CStarts, DirectoriesAssumption DEF Init

(* Reading one more line.                                                  *)
LEMMA ReadLineReads ==
  ASSUME TypeInv, ReadLine
  PROVE  LET r == files[file].lines[line]
         IN  /\ r \in AllLines
             /\ file \in DOMAIN files /\ files[file].kind = "journal"
             /\ r \in LinesOf(files[file])
             /\ \A i \in DOMAIN files :
                  ReadOf(i)' = IF i = file THEN ReadOf(i) \cup {r} ELSE ReadOf(i)
             /\ SeenLines' = SeenLines \cup {r}
<1> DEFINE r == files[file].lines[line]
<1>1. file \in DOMAIN files /\ files[file].kind = "journal" /\ line \in 1..Len(files[file].lines)
  BY DirectoryType DEF TypeInv, ReadLine, Reading, Current
<1>2. r \in LinesOf(files[file])
  BY <1>1, DirectoryType DEF TypeInv
<1>3. r \in AllLines
  BY <1>1, <1>2 DEF AllLines
<1>4. UNCHANGED <<files, file>> /\ line' = line + 1
  BY DEF ReadLine
<1>5. {files[file].lines[k] : k \in 1..line}
        = {files[file].lines[k] : k \in 1..(line - 1)} \cup {r}
  BY <1>1
<1>6. line + 1 - 1 = line
  BY <1>1
<1>7. ASSUME NEW i \in DOMAIN files
      PROVE  ReadOf(i)' = IF i = file THEN ReadOf(i) \cup {r} ELSE ReadOf(i)
  <2>1. CASE i = file
    <3>1. ~(i < file)
      BY <2>1, <1>1, DirectoryType DEF TypeInv
    <3>2. ReadOf(i)' = {files[file].lines[k] : k \in 1..line}
      BY <1>1, <1>4, <1>6, <2>1, <3>1 DEF ReadOf
    <3>3. ReadOf(i) = {files[file].lines[k] : k \in 1..(line - 1)}
      BY <1>1, <2>1, <3>1 DEF ReadOf
    <3> QED BY <1>5, <2>1, <3>2, <3>3
  <2>2. CASE i # file
    BY <1>4, <2>2 DEF ReadOf, LinesOf
  <2> QED BY <2>1, <2>2
<1>8. SeenLines' = SeenLines \cup {r}
  BY <1>1, <1>4, <1>7 DEF SeenLines
<1> QED BY <1>1, <1>2, <1>3, <1>7, <1>8

(* A file that is left has been read.                                      *)
LEMMA NextFileReads ==
  ASSUME TypeInv, NextFile, UNCHANGED files, file <= Len(files),
         files[file].kind = "journal" => line > Len(files[file].lines)
  PROVE  (\A i \in DOMAIN files : ReadOf(i)' = ReadOf(i)) /\ SeenLines' = SeenLines
<1>1. file' = file + 1 /\ line' = 1 /\ file \in DOMAIN files
  BY DirectoryType DEF TypeInv, NextFile
<1>2. ASSUME NEW i \in DOMAIN files
      PROVE  ReadOf(i)' = ReadOf(i)
  <2>1. i \in Nat /\ file \in Nat
    BY <1>1, DirectoryType DEF TypeInv
  <2>2. CASE i < file
    BY <1>1, <2>1, <2>2 DEF ReadOf, LinesOf
  <2>3. CASE i = file
    <3>1. ReadOf(i)' = LinesOf(files[file])
      BY <1>1, <2>1, <2>3 DEF ReadOf, LinesOf
    <3>2. CASE files[file].kind = "journal"
      <4>1. line - 1 = Len(files[file].lines)
        <5>1. Len(files[file].lines) \in Nat
          BY <1>1, DirectoryType DEF TypeInv
        <5> QED BY <3>2, <5>1 DEF TypeInv
      <4>2. ReadOf(i) = {files[file].lines[k] : k \in 1..Len(files[file].lines)}
        BY <2>1, <2>3, <3>2, <4>1 DEF ReadOf
      <4> QED BY <1>1, <3>1, <3>2, <4>2, DirectoryType DEF TypeInv
    <3>3. CASE files[file].kind # "journal"
      <4>1. ReadOf(i) = {}
        BY <2>1, <2>3, <3>3 DEF ReadOf
      <4> QED BY <3>1, <3>3, <4>1 DEF LinesOf
    <3> QED BY <3>2, <3>3
  <2>4. CASE i > file
    <3>1. ReadOf(i) = {}
      BY <2>1, <2>4 DEF ReadOf
    <3>2. ReadOf(i)' = {}
      BY <1>1, <2>1, <2>4 DEF ReadOf
    <3> QED BY <3>1, <3>2
  <2> QED BY <2>1, <2>2, <2>3, <2>4
<1> QED BY <1>2 DEF SeenLines

(* The marks that leaving a file may set leave the rest as it is.          *)
LEMMA MarkedGood ==
  ASSUME NEW L, NEW c \in Collections(L), NEW S, Good(c, S),
         NEW d \in {c, Diagnostic(c), Interruption(c)}
  PROVE  d \in Collections(L) /\ Good(d, S) /\ (c.integrity => d.integrity)
<1>1. /\ d \in Collections(L) /\ (c.integrity => d.integrity)
      /\ d.begun = c.begun /\ d.finished = c.finished
      /\ d.evaluations = c.evaluations /\ d.clauses = c.clauses
  BY DiagnosticType, InterruptionType
<1>2. Sound(d, S) /\ (Full(c, S) => Full(d, S))
  BY <1>1 DEF Good, Sound, Full, Found, Distinct
<1> QED BY <1>1, <1>2 DEF Good

(* Leaving a file, whatever it was.                                        *)
LEMMA LeavesFile ==
  ASSUME CInv, SkipArtifact \/ SkipStranger \/ EndOfFile
  PROVE  /\ phase = "reading" /\ phase' = "reading" /\ file <= Len(files)
         /\ NextFile /\ UNCHANGED files
         /\ files[file].kind = "journal" => line > Len(files[file].lines)
         /\ collector' \in {collector, Diagnostic(collector), Interruption(collector)}
<1>1. CASE SkipArtifact
  BY <1>1 DEF SkipArtifact, Reading, Current
<1>2. CASE SkipStranger
  BY <1>2 DEF SkipStranger, Reading, Current
<1>3. CASE EndOfFile
  BY <1>3 DEF EndOfFile, Reading, Current, FileEnd
<1> QED BY <1>1, <1>2, <1>3

(* The end of all files: everything has been read.                         *)
LEMMA AllIsSeen ==
  ASSUME TypeInv, file > Len(files)
  PROVE  SeenLines = AllLines /\ \A i \in DOMAIN files : ReadOf(i) = LinesOf(files[i])
<1>1. \A i \in DOMAIN files : i < file
  BY DirectoryType DEF TypeInv
<1> QED BY <1>1 DEF ReadOf, SeenLines, AllLines

(* An evaluation that is open is ended as aborted.                         *)
LEMMA FinishType ==
  ASSUME TypeInv, NEW b \in collector.begun, FinishAborted(b)
  PROVE  /\ collector' \in Collections(AllLines)
         /\ collector'.begun = collector.begun \ {b}
         /\ collector'.evaluations = Append(collector.evaluations, AbortedOf(b))
         /\ collector'.finished = collector.finished
         /\ collector'.clauses = collector.clauses
         /\ collector'.skipped = collector.skipped
         /\ collector'.integrity = collector.integrity
         /\ collector'.interrupted = collector.interrupted
<1> DEFINE e == Append(collector.evaluations, AbortedOf(b))
<1>1. collector' = [collector EXCEPT !.begun = collector.begun \ {b}, !.evaluations = e]
  BY DEF FinishAborted, TypeInv, Collections
<1>2. e \in Seq(EvaluationsOf(AllLines))
  BY DEF TypeInv, Collections, EvaluationsOf
<1> HIDE DEF e
<1>3. /\ collector' \in Collections(AllLines)
      /\ collector'.begun = collector.begun \ {b}
      /\ collector'.evaluations = e
      /\ collector'.finished = collector.finished
      /\ collector'.clauses = collector.clauses
      /\ collector'.skipped = collector.skipped
      /\ collector'.integrity = collector.integrity
      /\ collector'.interrupted = collector.interrupted
  BY <1>1, <1>2 DEF TypeInv, Collections
<1> QED BY <1>3 DEF e
-----------------------------------------------------------------------------
(* The type of the state.                                                  *)
LEMMA TypeStep == CInv /\ [Next]_vars => TypeInv'
<1> SUFFICES ASSUME CInv, [Next]_vars PROVE TypeInv'
  OBVIOUS
<1>1. TypeInv
  BY DEF CInv
<1>2. CASE SkipArtifact \/ SkipStranger \/ EndOfFile
  <2>1. /\ phase = "reading" /\ phase' = "reading" /\ file <= Len(files)
        /\ NextFile /\ UNCHANGED files
        /\ collector' \in {collector, Diagnostic(collector), Interruption(collector)}
    BY <1>2, LeavesFile
  <2>2. collector' \in Collections(AllLines)
    BY <1>1, <2>1, DiagnosticType, InterruptionType DEF TypeInv
  <2>3. AllLines' = AllLines
    BY <2>1 DEF AllLines, LinesOf
  <2>4. Len(files) \in Nat /\ \A i \in DOMAIN files : Len(files[i].lines) \in Nat
    BY <1>1, DirectoryType DEF TypeInv
  <2>5. file' \in 1..(Len(files) + 1) /\ line' = 1
    BY <1>1, <2>1, <2>4 DEF TypeInv, NextFile
  <2>6. file' <= Len(files) => line' <= Len(files[file'].lines) + 1
    BY <2>4, <2>5, DirectoryType, <1>1 DEF TypeInv
  <2> QED BY <1>1, <2>1, <2>2, <2>3, <2>5, <2>6 DEF TypeInv
<1>3. CASE ReadLine
  <2>1. files[file].lines[line] \in AllLines
    BY <1>1, <1>3, ReadLineReads
  <2>2. collector' \in Collections(AllLines)
    BY <1>1, <1>3, <2>1, LineType DEF TypeInv, ReadLine, Current
  <2>3. AllLines' = AllLines
    BY <1>3 DEF AllLines, LinesOf, ReadLine
  <2>4. /\ file <= Len(files) /\ line <= Len(files[file].lines) /\ phase = "reading"
        /\ UNCHANGED <<files, file, phase>> /\ line' = line + 1
    BY <1>3 DEF ReadLine, Reading, Current
  <2>5. Len(files[file].lines) \in Nat /\ Len(files) \in Nat
    BY <1>1, <2>4, DirectoryType DEF TypeInv
  <2> QED BY <1>1, <2>2, <2>3, <2>4, <2>5 DEF TypeInv
<1>4. CASE EndOfDirectory
  <2>1. Len(files) \in Nat
    BY <1>1, DirectoryType DEF TypeInv
  <2> QED BY <1>1, <1>4, <2>1 DEF TypeInv, EndOfDirectory, AllLines, LinesOf
<1>5. ASSUME NEW b \in collector.begun, FinishAborted(b) PROVE TypeInv'
  <2>1. /\ collector' \in Collections(AllLines)
        /\ UNCHANGED <<files, file, line, phase>> /\ phase = "aborting"
    BY <1>1, <1>5, FinishType DEF FinishAborted
  <2>2. AllLines' = AllLines
    BY <2>1 DEF AllLines, LinesOf
  <2> QED BY <1>1, <2>1, <2>2 DEF TypeInv
<1>6. CASE Return
  BY <1>1, <1>6 DEF TypeInv, Return, AllLines, LinesOf
<1>7. CASE Cancel
  BY <1>1, <1>7, EmptyCollection DEF TypeInv, Cancel, AllLines, LinesOf
<1>8. CASE UNCHANGED vars
  BY <1>1, <1>8 DEF TypeInv, vars, AllLines, LinesOf
<1> QED BY <1>2, <1>3, <1>4, <1>5, <1>6, <1>7, <1>8 DEF Next

(* A line that is read leaves the collection good and the files apart.     *)
LEMMA ReadLineStep == ASSUME CInv, ReadLine PROVE ReadInv'
<1> DEFINE r == files[file].lines[line]
           L == AllLines
<1>1. TypeInv /\ phase = "reading" /\ Good(collector, SeenLines)
  BY DEF CInv, ReadInv, ReadLine, Reading
<1>2. collector' = ConsumeLine(collector, r, provenance) /\ UNCHANGED <<files, file, phase>>
  BY DEF ReadLine, Current
<1>3. /\ r \in L /\ file \in DOMAIN files
      /\ \A i \in DOMAIN files :
           ReadOf(i)' = IF i = file THEN ReadOf(i) \cup {r} ELSE ReadOf(i)
      /\ SeenLines' = SeenLines \cup {r}
  BY <1>1, ReadLineReads
<1>4. SeenLines \in SUBSET L
  <2>1. \A i \in DOMAIN files : ReadOf(i) \subseteq LinesOf(files[i])
    <3>1. file \in DOMAIN files /\ line - 1 <= Len(files[file].lines)
      BY <1>1, <1>3, DirectoryType DEF TypeInv, ReadLine, Reading, Current
    <3>2. \A k \in 1..(line - 1) : k \in 1..Len(files[file].lines)
      BY <1>1, <3>1, DirectoryType DEF TypeInv
    <3>3. files[file].kind = "journal" =>
            {files[file].lines[k] : k \in 1..(line - 1)} \subseteq LinesOf(files[file])
      BY <1>1, <3>1, <3>2, DirectoryType DEF TypeInv
    <3> QED BY <3>3 DEF ReadOf
  <2> QED BY <2>1 DEF SeenLines, AllLines
<1> HIDE DEF r, L
<1>5. collector \in Collections(L)
  BY <1>1 DEF TypeInv, L
<1>6. /\ Good(collector', SeenLines \cup {r})
      /\ collector.integrity => collector'.integrity
      /\ IsEnd(r) /\ Identity(r) \in collector.finished => collector'.integrity
  BY <1>1, <1>2, <1>3, <1>4, <1>5, LineGood, LineType
<1>7. ASSUME ~collector'.integrity PROVE Apart'
  <2>1. Apart /\ Full(collector, SeenLines) /\ Sound(collector, SeenLines)
    BY <1>1, <1>6, <1>7 DEF CInv, ReadInv, Good
  <2>2. \A s \in SeenLines : IsEnd(s) => Identity(s) \in collector.finished
    <3>1. \A s \in SeenLines : IsEnd(s) => EvaluationOf(s) \in Found(collector)
      BY <2>1 DEF Full
    <3>2. \A s : EvaluationOf(s).identity = Identity(s)
      BY DEF EvaluationOf
    <3> QED BY <2>1, <3>1, <3>2 DEF Sound
  <2>3. \A s \in SeenLines : IsEnd(s) /\ IsEnd(r) => Identity(s) # Identity(r)
    BY <1>6, <1>7, <2>2
  <2>4. \A i \in DOMAIN files : ReadOf(i) \subseteq SeenLines
    BY DEF SeenLines
  <2>5. SUFFICES ASSUME NEW i \in DOMAIN files, NEW j \in DOMAIN files, i < j,
                        NEW a \in ReadOf(i)', NEW b \in ReadOf(j)', IsEnd(a), IsEnd(b)
                 PROVE  Identity(a) # Identity(b)
    BY <1>2 DEF Apart
  <2>6. i \in Nat /\ j \in Nat /\ i # j
    BY <1>1, <2>5, DirectoryType DEF TypeInv
  <2>7. CASE a \in ReadOf(i) /\ b \in ReadOf(j)
    BY <2>1, <2>5, <2>7 DEF Apart
  <2>8. CASE a \notin ReadOf(i)
    <3>1. i = file /\ a = r
      BY <1>3, <2>5, <2>8
    <3>2. b \in ReadOf(j)
      BY <1>3, <2>6, <3>1
    <3> QED BY <2>3, <2>4, <2>5, <3>1, <3>2
  <2>9. CASE b \notin ReadOf(j)
    <3>1. j = file /\ b = r
      BY <1>3, <2>5, <2>9
    <3>2. a \in ReadOf(i)
      BY <1>3, <2>6, <3>1
    <3> QED BY <2>3, <2>4, <2>5, <3>1, <3>2
  <2> QED BY <2>7, <2>8, <2>9
<1> QED BY <1>3, <1>6, <1>7 DEF ReadInv

(* What has been read stays good up to the end.                            *)
LEMMA ReadStep == CInv /\ [Next]_vars => ReadInv'
<1> SUFFICES ASSUME CInv, [Next]_vars PROVE ReadInv'
  OBVIOUS
<1>1. CASE SkipArtifact \/ SkipStranger \/ EndOfFile
  <2>1. /\ phase = "reading" /\ file <= Len(files) /\ NextFile /\ UNCHANGED files
        /\ files[file].kind = "journal" => line > Len(files[file].lines)
        /\ collector' \in {collector, Diagnostic(collector), Interruption(collector)}
    BY <1>1, LeavesFile
  <2>2. (\A i \in DOMAIN files : ReadOf(i)' = ReadOf(i)) /\ SeenLines' = SeenLines
    BY <2>1, NextFileReads DEF CInv
  <2>3. /\ Good(collector, SeenLines)
        /\ ~collector.integrity => Apart
        /\ collector \in Collections(AllLines)
    BY <2>1 DEF CInv, ReadInv, TypeInv
  <2>4. Good(collector', SeenLines) /\ (collector.integrity => collector'.integrity)
    BY <2>1, <2>3, MarkedGood
  <2>5. Apart => Apart'
    BY <2>1, <2>2 DEF Apart
  <2> QED BY <2>2, <2>3, <2>4, <2>5 DEF ReadInv
<1>2. CASE ReadLine
  BY <1>2, ReadLineStep
<1>3. CASE EndOfDirectory \/ Return \/ Cancel \/ \E b \in collector.begun : FinishAborted(b)
  <2>1. phase' # "reading"
    BY <1>3 DEF EndOfDirectory, Return, Cancel, FinishAborted
  <2> QED BY <2>1 DEF ReadInv
<1>4. CASE UNCHANGED vars
  <2>1. /\ UNCHANGED <<phase, collector, SeenLines, files>>
        /\ \A i : ReadOf(i)' = ReadOf(i)
    BY <1>4 DEF vars, SeenLines, ReadOf, LinesOf
  <2>2. Apart' <=> Apart
    BY <2>1 DEF Apart
  <2> QED BY <2>1, <2>2 DEF CInv, ReadInv
<1> QED BY <1>1, <1>2, <1>3, <1>4 DEF Next

(* What is read at the end of the directory is all there is.               *)
LEMMA EndOfDirectoryStep == ASSUME CInv, EndOfDirectory PROVE AbortInv'
<1>1. /\ TypeInv /\ Good(collector, AllLines) /\ (~collector.integrity => Apart)
      /\ SeenLines = AllLines
      /\ UNCHANGED <<files, file, line, collector>> /\ phase' = "aborting"
  BY AllIsSeen DEF CInv, ReadInv, EndOfDirectory, TypeInv
<1>2. /\ AllLines' = AllLines /\ Begins' = Begins /\ Ends' = Ends
      /\ \A i : ReadOf(i)' = ReadOf(i)
  BY <1>1 DEF AllLines, LinesOf, Begins, Ends, ReadOf
<1>3. \A r : EvaluationOf(r).identity = Identity(r)
  BY DEF EvaluationOf
<1>4. \A r : r \in Ends <=> r \in AllLines /\ IsEnd(r)
  BY DEF Ends, IsEnd
<1>5. OpenInv
  <2>1. Sound(collector, AllLines)
    BY <1>1 DEF Good
  <2>2. collector.finished \subseteq {Identity(r) : r \in Ends}
    BY <1>3, <1>4, <2>1 DEF Sound
  <2>3. \A b \in collector.begun, v \in Found(collector) : v.identity # Identity(b)
    BY <2>1 DEF Sound
  <2> QED BY <1>4, <2>1, <2>2, <2>3 DEF OpenInv, Sound, Begins
<1>6. ASSUME ~collector.integrity PROVE AllFound
  <2>1. Full(collector, AllLines) /\ Sound(collector, AllLines) /\ Apart
    BY <1>1, <1>6 DEF Good
  <2>2. \A r \in Ends : EvaluationOf(r) \in Found(collector) /\ Identity(r) \in collector.finished
    BY <1>3, <1>4, <2>1 DEF Full, Sound
  <2> QED BY <2>1, <2>2 DEF Full, AllFound, Begins
<1>7. OpenInv' /\ (AllFound => AllFound')
  BY <1>1, <1>2, <1>5 DEF OpenInv, AllFound, Apart
<1> QED BY <1>1, <1>6, <1>7 DEF AbortInv

(* Ending an open evaluation loses and repeats none.                       *)
LEMMA FinishStep ==
  ASSUME CInv, NEW b \in collector.begun, FinishAborted(b)
  PROVE  AbortInv'
<1> DEFINE c == collector
           d == collector'
           v == AbortedOf(b)
<1>1. /\ TypeInv /\ OpenInv /\ (~c.integrity => AllFound)
      /\ UNCHANGED <<files, file, line, phase>> /\ phase = "aborting"
  BY DEF CInv, AbortInv, FinishAborted
<1>2. /\ d.begun = c.begun \ {b} /\ d.evaluations = Append(c.evaluations, v)
      /\ d.finished = c.finished /\ d.clauses = c.clauses /\ d.integrity = c.integrity
  BY <1>1, FinishType
<1>3. /\ AllLines' = AllLines /\ Begins' = Begins /\ Ends' = Ends
      /\ \A i : ReadOf(i)' = ReadOf(i)
  BY <1>1 DEF AllLines, LinesOf, Begins, Ends, ReadOf
<1>4. c.evaluations \in Seq(EvaluationsOf(AllLines))
  BY <1>1 DEF TypeInv, Collections
<1>5. v.identity = Identity(b)
  BY DEF AbortedOf
<1>6. b \in Begins /\ Identity(b) \notin c.finished
  BY <1>1 DEF OpenInv
<1> HIDE DEF c, d, v
<1>7. /\ Found(d) = Found(c) \cup {v}
      /\ DOMAIN d.evaluations = DOMAIN c.evaluations \cup {Len(c.evaluations) + 1}
      /\ \A i \in DOMAIN c.evaluations : /\ i # Len(c.evaluations) + 1
                                         /\ d.evaluations[i] = c.evaluations[i]
      /\ d.evaluations[Len(c.evaluations) + 1] = v
  BY <1>2, <1>4, FoundAppend DEF Found
<1>8. Distinct(d)
  <2>1. \A i \in DOMAIN c.evaluations : c.evaluations[i].identity # v.identity
    <3>1. \A i \in DOMAIN c.evaluations : c.evaluations[i] \in Found(c)
      BY DEF Found, ToSet
    <3> QED BY <1>1, <1>5, <3>1 DEF OpenInv, c
  <2>2. Distinct(c)
    BY <1>1 DEF OpenInv, c
  <2> QED BY <1>7, <2>1, <2>2 DEF Distinct
<1>9. \A w \in Found(d) :
        \/ \E r \in Ends : w = EvaluationOf(r)
        \/ \E a \in Begins : Identity(a) \notin d.finished /\ w = AbortedOf(a)
  BY <1>1, <1>2, <1>6, <1>7 DEF OpenInv, c, v
<1>10. \A a \in d.begun, w \in Found(d) : w.identity # Identity(a)
  BY <1>1, <1>2, <1>5, <1>7 DEF OpenInv, c
<1>11. OpenInv'
  <2>1. /\ \A a \in d.begun : a \in Begins /\ Identity(a) \notin d.finished
        /\ \A a1, a2 \in d.begun : Identity(a1) = Identity(a2) => a1 = a2
        /\ d.finished \subseteq {Identity(r) : r \in Ends}
    BY <1>1, <1>2 DEF OpenInv, c
  <2> QED BY <1>3, <1>8, <1>9, <1>10, <2>1 DEF OpenInv, d
<1>12. ASSUME ~d.integrity PROVE AllFound'
  <2>1. AllFound
    BY <1>1, <1>2, <1>12 DEF c
  <2>2. /\ \A r \in Ends : EvaluationOf(r) \in Found(d) /\ Identity(r) \in d.finished
        /\ \A a \in Begins : \/ a \in d.begun
                             \/ Identity(a) \in d.finished
                             \/ AbortedOf(a) \in Found(d)
        /\ d.clauses = {[process |-> r.process, clause |-> r.clause] :
                          r \in {l \in AllLines : l.type = "clause"}}
    BY <1>2, <1>7, <2>1 DEF AllFound, c, v
  <2>3. Apart'
    BY <1>1, <1>3, <2>1 DEF AllFound, Apart
  <2> QED BY <1>3, <2>2, <2>3 DEF AllFound, d
<1> QED BY <1>1, <1>11, <1>12 DEF AbortInv, d

(* What is at the end stays what it is.                                    *)
LEMMA AbortStep == CInv /\ [Next]_vars => AbortInv'
<1> SUFFICES ASSUME CInv, [Next]_vars PROVE AbortInv'
  OBVIOUS
<1>1. CASE SkipArtifact \/ SkipStranger \/ EndOfFile \/ ReadLine \/ Cancel
  <2>1. phase' \in {"reading", "cancelled"}
    BY <1>1 DEF SkipArtifact, SkipStranger, EndOfFile, ReadLine, Cancel, Reading
  <2> QED BY <2>1 DEF AbortInv
<1>2. CASE EndOfDirectory
  BY <1>2, EndOfDirectoryStep
<1>3. CASE \E b \in collector.begun : FinishAborted(b)
  BY <1>3, FinishStep
<1>4. CASE Return \/ UNCHANGED vars
  <2>1. UNCHANGED <<files, file, line, collector>>
    BY <1>4 DEF Return, vars
  <2>2. /\ AllLines' = AllLines /\ Begins' = Begins /\ Ends' = Ends
        /\ \A i : ReadOf(i)' = ReadOf(i)
    BY <2>1 DEF AllLines, LinesOf, Begins, Ends, ReadOf
  <2>3. (OpenInv => OpenInv') /\ (AllFound => AllFound')
    BY <2>1, <2>2 DEF OpenInv, AllFound, Apart
  <2>4. phase' = "collected" => collector.begun = {}
    BY <1>4 DEF Return, vars, CInv, AbortInv
  <2>5. phase' \in {"aborting", "collected"} => phase \in {"aborting", "collected"}
    BY <1>4 DEF Return, vars
  <2> QED BY <2>1, <2>3, <2>4, <2>5 DEF CInv, AbortInv
<1> QED BY <1>1, <1>2, <1>3, <1>4 DEF Next

(***************************************************************************)
(* The collector's invariant holds for any directory.                      *)
(***************************************************************************)
THEOREM CollectorInvariant == Spec => []CInv
<1>1. CInv /\ [Next]_vars => CInv'
  BY TypeStep, ReadStep, AbortStep DEF CInv
<1> QED BY CInit, <1>1, PTL DEF Spec

(***************************************************************************)
(* No evaluation is counted twice, however often and in how many files a   *)
(* process wrote it; ended in two files, it is found out.                  *)
(***************************************************************************)
THEOREM CollectorCountsOnce == Spec => []CountedOnce
<1>1. CInv => CountedOnce
  <2> SUFFICES ASSUME CInv PROVE CountedOnce
    OBVIOUS
  <2>1. phase \in {"reading", "aborting", "collected", "cancelled"}
    BY DEF CInv, TypeInv
  <2>2. Evaluations = Found(collector)
    BY DEF Evaluations, Found
  <2>3. CASE phase = "reading"
    <3>1. Sound(collector, SeenLines)
      BY <2>3 DEF CInv, ReadInv, Good
    <3>2. Distinct(collector)
      BY <3>1 DEF Sound
    <3>3. \A b \in collector.begun, v \in Found(collector) : v.identity # Identity(b)
      BY <3>1 DEF Sound
    <3> QED BY <2>2, <2>3, <3>2, <3>3 DEF CountedOnce, Distinct
  <2>4. CASE phase \in {"aborting", "collected"}
    <3>1. OpenInv /\ (~collector.integrity => AllFound)
      BY <2>4 DEF CInv, AbortInv
    <3>2. ASSUME phase = "collected", NEW i \in DOMAIN files, NEW j \in DOMAIN files, i # j,
                 NEW r \in LinesOf(files[i]) \cap Ends, NEW s \in LinesOf(files[j]) \cap Ends,
                 Identity(r) = Identity(s)
          PROVE  collector.integrity
      <4>1. SUFFICES ASSUME ~collector.integrity PROVE FALSE
        OBVIOUS
      <4>2. Apart
        BY <3>1, <4>1 DEF AllFound
      <4>3. r \in ReadOf(i) /\ s \in ReadOf(j) /\ IsEnd(r) /\ IsEnd(s)
        <5>1. file > Len(files) /\ TypeInv
          BY <3>2, DirectoryType DEF CInv, TypeInv
        <5> QED BY <5>1, AllIsSeen DEF Ends, IsEnd
      <4>4. i < j \/ j < i
        BY <3>2, DirectoryType DEF CInv, TypeInv
      <4> QED BY <3>2, <4>2, <4>3, <4>4 DEF Apart
    <3> QED BY <2>2, <3>1, <3>2 DEF CountedOnce, OpenInv, Distinct
  <2>5. CASE phase = "cancelled"
    <3>1. collector = Empty
      BY <2>5 DEF CInv, TypeInv
    <3> QED BY <2>5, <3>1 DEF CountedOnce, Empty
  <2> QED BY <2>1, <2>3, <2>4, <2>5
<1> QED BY <1>1, CollectorInvariant, PTL

(* What is collected in the end, without an integrity error.               *)
LEMMA CollectedInFull == CInv => CleanIsComplete
<1> SUFFICES ASSUME CInv, phase = "collected", ~collector.integrity
             PROVE  /\ Evaluations = Reference
                    /\ collector.clauses = {[process |-> r.process, clause |-> r.clause] :
                                              r \in {l \in AllLines : l.type = "clause"}}
  BY DEF CleanIsComplete
<1>1. OpenInv /\ AllFound /\ collector.begun = {}
  BY DEF CInv, AbortInv
<1>2. Evaluations = Found(collector)
  BY DEF Evaluations, Found
<1>3. ASSUME NEW v \in Found(collector) PROVE v \in Reference
  <2>1. CASE \E r \in Ends : v = EvaluationOf(r)
    BY <2>1 DEF Reference
  <2>2. CASE \E b \in Begins : Identity(b) \notin collector.finished /\ v = AbortedOf(b)
    <3>1. PICK b \in Begins : Identity(b) \notin collector.finished /\ v = AbortedOf(b)
      BY <2>2
    <3>2. \A r \in Ends : Identity(r) # Identity(b)
      BY <1>1, <3>1 DEF AllFound
    <3> QED BY <3>1, <3>2 DEF Reference
  <2> QED BY <1>1, <2>1, <2>2 DEF OpenInv
<1>4. ASSUME NEW v \in Reference PROVE v \in Found(collector)
  <2>1. CASE \E r \in Ends : v = EvaluationOf(r)
    BY <1>1, <2>1 DEF AllFound
  <2>2. CASE \E b \in Begins : (\A r \in Ends : Identity(r) # Identity(b)) /\ v = AbortedOf(b)
    BY <1>1, <2>2 DEF AllFound, OpenInv
  <2> QED BY <2>1, <2>2 DEF Reference
<1> QED BY <1>1, <1>2, <1>3, <1>4 DEF AllFound

(***************************************************************************)
(* Without an integrity error the directory is collected in full, and      *)
(* nothing else.                                                           *)
(***************************************************************************)
THEOREM CollectorCleanIsComplete == Spec => []CleanIsComplete
BY CollectorInvariant, CollectedInFull, PTL
-----------------------------------------------------------------------------
(***************************************************************************)
(* Collect folds over the files, and over the lines of each.  A fold is    *)
(* told by what it has come to after each line, or file.                   *)
(***************************************************************************)
LineStep(acc, r) ==
  [c |-> ConsumeLine(acc.c, r, acc.process), process |-> ProvenanceAfter(r, acc.process)]

Unread(c) == [c |-> c, process |-> NoProcess]

ByLines(c, lines, G) ==
  /\ G[0] = Unread(c)
  /\ \A i \in 1..Len(lines) : G[i] = LineStep(G[i - 1], lines[i])

ByFiles(d, F) ==
  /\ F[0] = Empty
  /\ \A i \in 1..Len(d) : F[i] = CollectFile(F[i - 1], d[i])

ReadStates(L) ==
  [c : Collections(L), process : {NoProcess} \cup {r.process : r \in L}]

(* One line is a step from what can be collected to what can be collected. *)
LEMMA LineStepType ==
  ASSUME NEW L, NEW acc \in ReadStates(L), NEW r \in L
  PROVE  LineStep(acc, r) \in ReadStates(L)
<1>1. acc.c \in Collections(L) /\ acc.process \in {NoProcess} \cup {l.process : l \in L}
  BY DEF ReadStates
<1>2. ConsumeLine(acc.c, r, acc.process) \in Collections(L)
  BY <1>1, LineType
<1>3. ProvenanceAfter(r, acc.process) \in {NoProcess} \cup {l.process : l \in L}
  BY <1>1 DEF ProvenanceAfter
<1> QED BY <1>2, <1>3 DEF LineStep, ReadStates

(* The lines of a file, one after another.                                 *)
LEMMA LinesIterate ==
  ASSUME NEW L, NEW c \in Collections(L), NEW lines \in Seq(L)
  PROVE  \E G \in [0..Len(lines) -> ReadStates(L)] :
           /\ ByLines(c, lines, G)
           /\ FoldLeft(LineStep, Unread(c), lines) = G[Len(lines)]
<1> DEFINE A == ReadStates(L)
           n == Len(lines)
           base == Unread(c)
           step == [p \in A \X L |-> LineStep(p[1], p[2])]
           Folds(f) == f = [s \in SUBSET (DOMAIN lines) |->
                              IF s = {} THEN base
                              ELSE LineStep(f[s \ {Max(s)}], lines[Max(s)])]
           g == CHOOSE f : Folds(f)
<1>1. FoldLeft(LineStep, base, lines) = g[DOMAIN lines]
  BY Zenon DEF FoldLeft, MapThenFoldSet
<1>2. /\ n \in Nat /\ DOMAIN lines = 1..n /\ lines \in [1..n -> L]
      /\ base \in A
  BY DEF ReadStates, Unread
<1>3. /\ step \in [A \X L -> A]
      /\ \A a \in A, r \in L : step[<<a, r>>] = LineStep(a, r)
      /\ CanFold(A, L, step, base, n, lines)
  BY <1>2, LineStepType DEF CanFold
<1> HIDE DEF A, base, step, n
<1>4. \E f : Folds(f)
  <2>1. PICK f : SetFold(A, step, base, n, lines, f)
    BY <1>3, SetFoldExists
  <2>2. ASSUME NEW s \in SUBSET (1..n), s # {}
        PROVE  f[s] = LineStep(f[s \ {Max(s)}], lines[Max(s)])
    <3>1. Max(s) \in s
      BY <1>2, <2>2, LastIsIn
    <3>2. lines[Max(s)] \in L /\ f[s \ {Max(s)}] \in A
      BY <1>2, <2>1, <3>1 DEF SetFold
    <3> QED BY <1>3, <2>1, <2>2, <3>2 DEF SetFold
  <2>3. Folds(f)
    <3>1. \A s \in SUBSET (1..n) :
            f[s] = IF s = {} THEN base ELSE LineStep(f[s \ {Max(s)}], lines[Max(s)])
      BY <2>1, <2>2 DEF SetFold
    <3>2. f = [s \in SUBSET (1..n) |-> f[s]]
      BY <2>1 DEF SetFold
    <3> QED BY <1>2, <3>1, <3>2
  <2> QED BY <2>3
<1>5. Folds(g)
  <2> HIDE DEF Folds
  <2> QED BY <1>4
<1> HIDE DEF g
<1>6. \A s \in SUBSET (1..n) :
        g[s] = IF s = {} THEN base ELSE LineStep(g[s \ {Max(s)}], lines[Max(s)])
  BY <1>2, <1>5
<1>7. g[{}] = base
  BY <1>6
<1>8. ASSUME NEW s \in SUBSET (1..n), s # {}, g[s \ {Max(s)}] \in A
      PROVE  g[s] = step[<<g[s \ {Max(s)}], lines[Max(s)]>>]
  <2>1. Max(s) \in s
    BY <1>2, <1>8, LastIsIn
  <2> QED BY <1>2, <1>3, <1>6, <1>8, <2>1
<1>9. Iterates(A, step, base, n, lines, g)
  <2>1. Continues(A, step, base, n, lines, g)
    BY <1>7, <1>8 DEF Continues
  <2> QED BY <1>3, <2>1, SetFoldIterates
<1> DEFINE G == [i \in 0..n |-> g[1..i]]
<1>10. G \in [0..n -> A] /\ G[0] = base /\ G[n] = g[1..n]
  BY <1>2, <1>9 DEF Iterates
<1>11. ASSUME NEW i \in 1..n PROVE G[i] = LineStep(G[i - 1], lines[i])
  <2>1. i \in 0..n /\ i - 1 \in 0..n
    BY <1>2
  <2>2. G[i] = step[<<G[i - 1], lines[i]>>]
    BY <1>9, <2>1 DEF Iterates
  <2>3. G[i - 1] \in A /\ lines[i] \in L
    BY <1>2, <1>10, <2>1
  <2> QED BY <1>3, <2>2, <2>3
<1> HIDE DEF G
<1> QED BY <1>1, <1>2, <1>10, <1>11 DEF ByLines, A, base, n

(* A file, collected in one go.                                            *)
LEMMA CollectFileIs ==
  ASSUME NEW L, NEW c \in Collections(L), NEW f,
         f.kind \in {"journal", "artifact", "stranger"},
         f.lines \in Seq(ToSet(f.lines)), LinesOf(f) \subseteq L
  PROVE  /\ CollectFile(c, f) \in Collections(L)
         /\ f.kind = "artifact" => CollectFile(c, f) = Interruption(c)
         /\ f.kind = "stranger" => CollectFile(c, f) = Diagnostic(c)
         /\ f.kind = "journal" =>
              \E G : /\ ByLines(c, f.lines, G)
                     /\ CollectFile(c, f) = FileEnd(G[Len(f.lines)].c, f)
<1>1. CASE f.kind = "artifact"
  BY <1>1, InterruptionType DEF CollectFile
<1>2. CASE f.kind = "stranger"
  BY <1>2, DiagnosticType DEF CollectFile
<1>3. CASE f.kind = "journal"
  <2>1. f.lines \in Seq(L) /\ Len(f.lines) \in Nat
    BY <1>3 DEF LinesOf
  <2>2. PICK G \in [0..Len(f.lines) -> ReadStates(L)] :
          /\ ByLines(c, f.lines, G)
          /\ FoldLeft(LineStep, Unread(c), f.lines) = G[Len(f.lines)]
    BY <2>1, LinesIterate
  <2>3. CollectFile(c, f) = FileEnd(FoldLeft(LineStep, Unread(c), f.lines).c, f)
    BY <1>3, Zenon DEF CollectFile, LineStep, Unread
  <2>4. G[Len(f.lines)].c \in Collections(L)
    BY <2>1, <2>2 DEF ReadStates
  <2>5. CollectFile(c, f) \in Collections(L)
    BY <2>2, <2>3, <2>4, InterruptionType DEF FileEnd
  <2> QED BY <1>3, <2>2, <2>3, <2>5
<1> QED BY <1>1, <1>2, <1>3

(* The files of a directory, one after another.                            *)
FileFolds(d, L) == {F \in [0..Len(d) -> Collections(L)] : ByFiles(d, F)}

(* Reading a directory is reading its files one after another, from        *)
(* nothing.                                                                *)
LEMMA FilesIterate ==
  ASSUME NEW L, NEW d, IsDirectory(d), \A i \in DOMAIN d : LinesOf(d[i]) \subseteq L
  PROVE  \E F \in FileFolds(d, L) : FoldLeft(CollectFile, Empty, d) = F[Len(d)]
<1> DEFINE A == Collections(L)
           B == ToSet(d)
           n == Len(d)
           step == [p \in A \X B |-> CollectFile(p[1], p[2])]
           Folds(f) == f = [s \in SUBSET (DOMAIN d) |->
                              IF s = {} THEN Empty
                              ELSE CollectFile(f[s \ {Max(s)}], d[Max(s)])]
           g == CHOOSE f : Folds(f)
<1>1. FoldLeft(CollectFile, Empty, d) = g[DOMAIN d]
  BY Zenon DEF FoldLeft, MapThenFoldSet
<1>2. /\ n \in Nat /\ DOMAIN d = 1..n /\ d \in [1..n -> B]
      /\ Empty \in A
  BY EmptyCollection DEF IsDirectory
<1>3. /\ step \in [A \X B -> A]
      /\ \A a \in A, r \in B : step[<<a, r>>] = CollectFile(a, r)
      /\ CanFold(A, B, step, Empty, n, d)
  <2>1. ASSUME NEW f \in B
        PROVE  /\ f.kind \in {"journal", "artifact", "stranger"}
               /\ f.lines \in Seq(ToSet(f.lines)) /\ LinesOf(f) \subseteq L
    BY DEF IsDirectory, ToSet
  <2>2. \A a \in A, f \in B : CollectFile(a, f) \in A
    BY <2>1, CollectFileIs
  <2> QED BY <1>2, <2>2 DEF CanFold
<1> HIDE DEF A, B, step, n
<1>4. \E f : Folds(f)
  <2>1. PICK f : SetFold(A, step, Empty, n, d, f)
    BY <1>3, SetFoldExists
  <2>2. ASSUME NEW s \in SUBSET (1..n), s # {}
        PROVE  f[s] = CollectFile(f[s \ {Max(s)}], d[Max(s)])
    <3>1. Max(s) \in s
      BY <1>2, <2>2, LastIsIn
    <3>2. d[Max(s)] \in B /\ f[s \ {Max(s)}] \in A
      BY <1>2, <2>1, <3>1 DEF SetFold
    <3> QED BY <1>3, <2>1, <2>2, <3>2 DEF SetFold
  <2>3. Folds(f)
    <3>1. \A s \in SUBSET (1..n) :
            f[s] = IF s = {} THEN Empty ELSE CollectFile(f[s \ {Max(s)}], d[Max(s)])
      BY <2>1, <2>2 DEF SetFold
    <3>2. f = [s \in SUBSET (1..n) |-> f[s]]
      BY <2>1 DEF SetFold
    <3> QED BY <1>2, <3>1, <3>2
  <2> QED BY <2>3
<1>5. Folds(g)
  <2> HIDE DEF Folds
  <2> QED BY <1>4
<1> HIDE DEF g
<1>6. \A s \in SUBSET (1..n) :
        g[s] = IF s = {} THEN Empty ELSE CollectFile(g[s \ {Max(s)}], d[Max(s)])
  BY <1>2, <1>5
<1>7. g[{}] = Empty
  BY <1>6
<1>8. ASSUME NEW s \in SUBSET (1..n), s # {}, g[s \ {Max(s)}] \in A
      PROVE  g[s] = step[<<g[s \ {Max(s)}], d[Max(s)]>>]
  <2>1. Max(s) \in s
    BY <1>2, <1>8, LastIsIn
  <2> QED BY <1>2, <1>3, <1>6, <1>8, <2>1
<1>9. Iterates(A, step, Empty, n, d, g)
  <2>1. Continues(A, step, Empty, n, d, g)
    BY <1>7, <1>8 DEF Continues
  <2> QED BY <1>3, <2>1, SetFoldIterates
<1> DEFINE F == [i \in 0..n |-> g[1..i]]
<1>10. F \in [0..n -> A] /\ F[0] = Empty /\ F[n] = g[1..n]
  BY <1>2, <1>9 DEF Iterates
<1>11. ASSUME NEW i \in 1..n PROVE F[i] = CollectFile(F[i - 1], d[i])
  <2>1. i \in 0..n /\ i - 1 \in 0..n
    BY <1>2
  <2>2. F[i] = step[<<F[i - 1], d[i]>>]
    BY <1>9, <2>1 DEF Iterates
  <2>3. F[i - 1] \in A /\ d[i] \in B
    BY <1>2, <1>10, <2>1
  <2> QED BY <1>3, <2>2, <2>3
<1> HIDE DEF F
<1> QED BY <1>1, <1>2, <1>10, <1>11 DEF FileFolds, ByFiles, A, n

(***************************************************************************)
(* While the directory is read, the collector is where the folds are; once *)
(* it is read, what is missing to their result is what is still open.      *)
(***************************************************************************)
Folded ==
  \A F \in FileFolds(files, AllLines) :
    IF file <= Len(files) /\ files[file].kind = "journal"
    THEN \A G : ByLines(F[file - 1], files[file].lines, G) =>
                  [c |-> collector, process |-> provenance] = G[line - 1]
    ELSE collector = F[file - 1]

Leaves(R) ==
  /\ IsFiniteSet(R.begun) /\ collector.begun \subseteq R.begun
  /\ \A a, b \in R.begun : Identity(a) = Identity(b) => a = b
  /\ Found(collector) = Found(R) \cup {AbortedOf(b) : b \in R.begun \ collector.begun}
  /\ Len(collector.evaluations)
       = Len(R.evaluations) + Cardinality(R.begun \ collector.begun)
  /\ collector.finished = R.finished /\ collector.skipped = R.skipped
  /\ collector.clauses = R.clauses /\ collector.integrity = R.integrity
  /\ collector.interrupted = R.interrupted

FoldInv ==
  /\ IsFiniteSet(collector.begun)
  /\ phase = "reading" => Folded
  /\ phase \in {"aborting", "collected"} =>
       \A F \in FileFolds(files, AllLines) : Leaves(F[Len(files)])

(* The folds of what is left unchanged.                                    *)
LEMMA FoldsUnchanged ==
  ASSUME UNCHANGED files
  PROVE  AllLines' = AllLines /\ FileFolds(files, AllLines)' = FileFolds(files, AllLines)
<1>1. AllLines' = AllLines
  BY DEF AllLines, LinesOf
<1> QED BY <1>1 DEF FileFolds, Collections, ByFiles, EvaluationsOf, Identities, SkipsOf,
             ClausesOf

(* A line opens at most one evaluation.                                    *)
LEMMA LineBegins ==
  ASSUME NEW L, NEW c \in Collections(L), NEW r \in L, NEW p, IsFiniteSet(c.begun)
  PROVE  IsFiniteSet(ConsumeLine(c, r, p).begun)
<1> DEFINE d == ConsumeLine(c, r, p)
<1>1. d = Diagnostic(c) \/ Opens(c, r, d) \/ Closes(c, r, d) \/ Names(c, r, d)
  BY LineIsOne
<1> HIDE DEF d
<1>2. d.begun = c.begun \cup {r} \/ d.begun \subseteq c.begun
  <2>1. CASE d = Diagnostic(c)
    BY <2>1, DiagnosticType
  <2>2. CASE Opens(c, r, d)
    BY <2>2 DEF Opens, Collections
  <2>3. CASE Closes(c, r, d)
    <3>1. \E closed \in SUBSET c.begun :
            /\ d.begun = c.begun \ closed
            /\ \A b \in closed : Identity(b) = Identity(r)
            /\ \A b \in c.begun : Identity(b) = Identity(r) => closed # {}
      BY <2>3, ClosesType
    <3> QED BY <3>1
  <2>4. CASE Names(c, r, d)
    BY <2>4 DEF Names, Collections
  <2> QED BY <1>1, <2>1, <2>2, <2>3, <2>4
<1>3. IsFiniteSet(c.begun \cup {r})
  BY FS_AddElement
<1>4. IsFiniteSet(d.begun)
  BY <1>2, <1>3, FS_Subset
<1> QED BY <1>4 DEF d

(* Before anything is read, nothing is folded.                             *)
LEMMA FoldInit == Init => FoldInv
<1> SUFFICES ASSUME Init PROVE FoldInv
  OBVIOUS
<1>1. IsFiniteSet(collector.begun)
  BY FS_EmptySet DEF Init, Empty
<1>2. file - 1 = 0 /\ line - 1 = 0
  BY DEF Init
<1>3. Folded
  BY <1>2 DEF Folded, Init, FileFolds, ByFiles, ByLines, Unread
<1> QED BY <1>1, <1>3 DEF FoldInv, Init

(* The collector after a file is what collecting it in one go gives.       *)
LEMMA LeaveFileFold ==
  ASSUME CInv, FoldInv, SkipArtifact \/ SkipStranger \/ EndOfFile,
         NEW F \in FileFolds(files, AllLines)
  PROVE  collector' = F[file]
<1>1. /\ TypeInv /\ phase = "reading" /\ file <= Len(files)
      /\ file \in DOMAIN files /\ file \in 1..Len(files) /\ Len(files) \in Nat
  BY LeavesFile, DirectoryType DEF CInv, TypeInv
<1>2. F[file] = CollectFile(F[file - 1], files[file]) /\ F[file - 1] \in Collections(AllLines)
  BY <1>1 DEF FileFolds, ByFiles
<1>3. /\ files[file].lines \in Seq(ToSet(files[file].lines))
      /\ files[file].kind \in {"journal", "artifact", "stranger"}
      /\ LinesOf(files[file]) \subseteq AllLines
  BY <1>1 DEF TypeInv, IsDirectory, AllLines
<1>4. Folded
  BY <1>1 DEF FoldInv
<1>5. CASE SkipArtifact
  <2>1. files[file].kind = "artifact" /\ collector' = Interruption(collector)
    BY <1>5 DEF SkipArtifact, Reading, Current
  <2>2. collector = F[file - 1]
    BY <1>4, <2>1 DEF Folded
  <2> QED BY <1>2, <1>3, <2>1, <2>2, CollectFileIs
<1>6. CASE SkipStranger
  <2>1. files[file].kind = "stranger" /\ collector' = Diagnostic(collector)
    BY <1>6 DEF SkipStranger, Reading, Current
  <2>2. collector = F[file - 1]
    BY <1>4, <2>1 DEF Folded
  <2> QED BY <1>2, <1>3, <2>1, <2>2, CollectFileIs
<1>7. CASE EndOfFile
  <2>1. /\ files[file].kind = "journal" /\ collector' = FileEnd(collector, files[file])
        /\ line > Len(files[file].lines)
    BY <1>7 DEF EndOfFile, Reading, Current
  <2>2. PICK G : /\ ByLines(F[file - 1], files[file].lines, G)
                 /\ CollectFile(F[file - 1], files[file])
                      = FileEnd(G[Len(files[file].lines)].c, files[file])
    BY <1>2, <1>3, <2>1, CollectFileIs
  <2>3. line - 1 = Len(files[file].lines)
    <3>1. Len(files[file].lines) \in Nat
      BY <1>1, DirectoryType DEF TypeInv
    <3> QED BY <1>1, <2>1, <3>1 DEF TypeInv
  <2>4. [c |-> collector, process |-> provenance] = G[Len(files[file].lines)]
    BY <1>1, <1>4, <2>1, <2>2, <2>3 DEF Folded
  <2>5. G[Len(files[file].lines)].c = collector
    BY <2>4
  <2> QED BY <1>2, <2>1, <2>2, <2>5
<1> QED BY <1>5, <1>6, <1>7

(* A file that is left, or ends, is folded into the evidence.              *)
LEMMA LeaveFileFolded ==
  ASSUME CInv, FoldInv, SkipArtifact \/ SkipStranger \/ EndOfFile
  PROVE  FoldInv'
<1>1. /\ TypeInv /\ phase = "reading" /\ phase' = "reading" /\ file <= Len(files)
      /\ NextFile /\ UNCHANGED files /\ file \in Nat
      /\ collector' \in {collector, Diagnostic(collector), Interruption(collector)}
  BY LeavesFile DEF CInv, TypeInv
<1>2. /\ file' - 1 = file /\ line' - 1 = 0 /\ provenance' = NoProcess
  BY <1>1 DEF NextFile
<1>3. IsFiniteSet(collector'.begun)
  <2>1. collector'.begun = collector.begun
    BY <1>1, DiagnosticType, InterruptionType DEF TypeInv
  <2> QED BY <2>1 DEF FoldInv
<1>4. ASSUME NEW F \in FileFolds(files, AllLines) PROVE collector' = F[file]
  BY <1>4, LeaveFileFold
<1>5. FileFolds(files, AllLines)' = FileFolds(files, AllLines)
  BY <1>1, FoldsUnchanged
<1>6. Folded'
  BY <1>1, <1>2, <1>4, <1>5 DEF Folded, ByLines, Unread
<1> QED BY <1>1, <1>3, <1>6 DEF FoldInv

(* A line that is read is folded into the evidence of its file.            *)
LEMMA ReadLineFolded ==
  ASSUME CInv, FoldInv, ReadLine
  PROVE  FoldInv'
<1> DEFINE r == files[file].lines[line]
<1>1. /\ TypeInv /\ phase = "reading" /\ file <= Len(files) /\ Folded
      /\ files[file].kind = "journal" /\ line <= Len(files[file].lines)
      /\ UNCHANGED <<files, file, phase>> /\ line' = line + 1
      /\ collector' = ConsumeLine(collector, r, provenance)
      /\ provenance' = ProvenanceAfter(r, provenance)
      /\ line \in 1..Len(files[file].lines)
  <2>1. file \in DOMAIN files
    BY ReadLineReads DEF CInv
  <2>2. Len(files[file].lines) \in Nat
    BY <2>1, DirectoryType DEF CInv, TypeInv
  <2> QED BY <2>2 DEF CInv, FoldInv, TypeInv, ReadLine, Reading, Current
<1>2. r \in AllLines
  BY <1>1, ReadLineReads
<1> HIDE DEF r
<1>3. IsFiniteSet(collector'.begun)
  BY <1>1, <1>2, LineBegins DEF FoldInv, TypeInv
<1>4. FileFolds(files, AllLines)' = FileFolds(files, AllLines)
  BY <1>1, FoldsUnchanged
<1>5. ASSUME NEW F \in FileFolds(files, AllLines), NEW G,
             ByLines(F[file - 1], files[file].lines, G)
      PROVE  [c |-> collector', process |-> provenance'] = G[line]
  <2>1. [c |-> collector, process |-> provenance] = G[line - 1]
    BY <1>1, <1>5 DEF Folded
  <2>2. G[line] = LineStep(G[line - 1], r)
    BY <1>1, <1>5 DEF ByLines, r
  <2> QED BY <1>1, <2>1, <2>2 DEF LineStep
<1>6. line' - 1 = line
  BY <1>1
<1>7. Folded'
  BY <1>1, <1>4, <1>5, <1>6 DEF Folded
<1> QED BY <1>1, <1>3, <1>7 DEF FoldInv

(* At the end of the directory nothing is missing yet.                     *)
LEMMA EndOfDirectoryFolded ==
  ASSUME CInv, FoldInv, EndOfDirectory
  PROVE  FoldInv'
<1>1. /\ TypeInv /\ phase = "reading" /\ Folded /\ IsFiniteSet(collector.begun)
      /\ phase' = "aborting" /\ UNCHANGED <<files, file, collector>>
      /\ file > Len(files) /\ file - 1 = Len(files)
  <2>1. Len(files) \in Nat
    BY DirectoryType DEF CInv, TypeInv
  <2> QED BY <2>1 DEF CInv, FoldInv, TypeInv, EndOfDirectory
<1>2. FileFolds(files, AllLines)' = FileFolds(files, AllLines)
  BY <1>1, FoldsUnchanged
<1>3. ASSUME NEW F \in FileFolds(files, AllLines) PROVE collector = F[Len(files)]
  <2>1. ~(file <= Len(files))
    BY <1>1, DirectoryType DEF TypeInv
  <2> QED BY <1>1, <1>3, <2>1 DEF Folded
<1>4. Leaves(collector)'
  <2>1. collector.begun \ collector.begun = {} /\ Cardinality({}) = 0
    BY FS_EmptySet
  <2>2. Len(collector.evaluations) \in Nat
    BY <1>1 DEF TypeInv, Collections
  <2>3. Found(collector) = Found(collector) \cup {AbortedOf(b) : b \in {}}
    OBVIOUS
  <2>4. \A a, b \in collector.begun : Identity(a) = Identity(b) => a = b
    BY <1>1, EndOfDirectoryStep DEF AbortInv, OpenInv
  <2>5. Len(collector.evaluations) = Len(collector.evaluations) + 0
    BY <2>2
  <2>6. Leaves(collector)
    BY <1>1, <2>1, <2>3, <2>4, <2>5 DEF Leaves
  <2> QED BY <1>1, <2>6 DEF Leaves, Found
<1> QED BY <1>1, <1>2, <1>3, <1>4 DEF FoldInv, Leaves

(* Ending one more leaves one less.                                        *)
LEMMA FinishFolded ==
  ASSUME CInv, FoldInv, NEW b \in collector.begun, FinishAborted(b)
  PROVE  FoldInv'
<1> DEFINE c == collector
           d == collector'
<1>1. TypeInv /\ phase = "aborting" /\ UNCHANGED <<files, phase>>
  BY DEF CInv, FinishAborted
<1>2. /\ d.begun = c.begun \ {b} /\ d.evaluations = Append(c.evaluations, AbortedOf(b))
      /\ d.finished = c.finished /\ d.skipped = c.skipped /\ d.clauses = c.clauses
      /\ d.integrity = c.integrity /\ d.interrupted = c.interrupted
  BY <1>1, FinishType
<1>3. FileFolds(files, AllLines)' = FileFolds(files, AllLines)
  BY <1>1, FoldsUnchanged
<1>4. c.evaluations \in Seq(EvaluationsOf(AllLines)) /\ IsFiniteSet(c.begun) /\ b \in c.begun
  BY <1>1 DEF TypeInv, Collections, FoldInv
<1> HIDE DEF c, d
<1>5. IsFiniteSet(d.begun)
  BY <1>2, <1>4, FS_Subset
<1>6. Found(d) = Found(c) \cup {AbortedOf(b)} /\ Len(d.evaluations) = Len(c.evaluations) + 1
  <2>1. Found(d) = Found(c) \cup {AbortedOf(b)}
    BY <1>2, <1>4, FoundAppend DEF Found
  <2> QED BY <1>2, <1>4, <2>1
<1>7. ASSUME NEW R, Leaves(R)
      PROVE  Leaves(R)'
  <2>1. /\ IsFiniteSet(R.begun) /\ c.begun \subseteq R.begun
        /\ \A x, y \in R.begun : Identity(x) = Identity(y) => x = y
        /\ Found(c) = Found(R) \cup {AbortedOf(x) : x \in R.begun \ c.begun}
        /\ Len(c.evaluations) = Len(R.evaluations) + Cardinality(R.begun \ c.begun)
        /\ c.finished = R.finished /\ c.skipped = R.skipped
        /\ c.clauses = R.clauses /\ c.integrity = R.integrity
        /\ c.interrupted = R.interrupted
    BY <1>7 DEF Leaves, c
  <2>2. R.begun \ d.begun = (R.begun \ c.begun) \cup {b} /\ b \notin R.begun \ c.begun
    BY <1>2, <1>4, <2>1
  <2>3. IsFiniteSet(R.begun \ c.begun)
    BY <2>1, FS_Subset
  <2>4. /\ Cardinality(R.begun \ d.begun) = Cardinality(R.begun \ c.begun) + 1
        /\ Cardinality(R.begun \ c.begun) \in Nat
    BY <2>2, <2>3, FS_AddElement, FS_CardinalityType
  <2>5. Found(d) = Found(R) \cup {AbortedOf(x) : x \in R.begun \ d.begun}
    BY <1>6, <2>1, <2>2
  <2>6. Len(c.evaluations) \in Nat
    BY <1>4
  <2>7. d.begun \subseteq R.begun
    BY <1>2, <2>1
  <2>8. Len(d.evaluations) = Len(R.evaluations) + Cardinality(R.begun \ d.begun)
    <3>1. Len(d.evaluations) = (Len(R.evaluations) + Cardinality(R.begun \ c.begun)) + 1
      BY <1>6, <2>1
    <3> QED BY <2>1, <2>4, <2>6, <3>1, <1>7
  <2> QED BY <1>2, <2>1, <2>5, <2>7, <2>8 DEF Leaves, Found, d
<1>8. \A F \in FileFolds(files, AllLines) : Leaves(F[Len(files)])
  BY <1>1 DEF FoldInv
<1>9. \A F \in FileFolds(files, AllLines)' : Leaves(F[Len(files)])'
  BY <1>1, <1>3, <1>7, <1>8
<1> QED BY <1>1, <1>5, <1>9 DEF FoldInv, d

(* What is collected stays the fold of what was read.                      *)
LEMMA FoldStep == CInv /\ FoldInv /\ [Next]_vars => FoldInv'
<1> SUFFICES ASSUME CInv, FoldInv, [Next]_vars PROVE FoldInv'
  OBVIOUS
<1>1. CASE SkipArtifact \/ SkipStranger \/ EndOfFile
  BY <1>1, LeaveFileFolded
<1>2. CASE ReadLine
  BY <1>2, ReadLineFolded
<1>3. CASE EndOfDirectory
  BY <1>3, EndOfDirectoryFolded
<1>4. CASE \E b \in collector.begun : FinishAborted(b)
  BY <1>4, FinishFolded
<1>5. CASE Cancel
  <2>1. phase' = "cancelled" /\ collector' = Empty
    BY <1>5 DEF Cancel
  <2>2. IsFiniteSet(Empty.begun)
    BY FS_EmptySet DEF Empty
  <2> QED BY <2>1, <2>2 DEF FoldInv
<1>6. CASE Return \/ UNCHANGED vars
  <2>1. /\ UNCHANGED <<files, file, line, provenance, collector>>
        /\ phase' = "reading" => phase = "reading"
        /\ phase' \in {"aborting", "collected"} => phase \in {"aborting", "collected"}
    BY <1>6 DEF Return, vars
  <2>2. FileFolds(files, AllLines)' = FileFolds(files, AllLines)
    BY <2>1, FoldsUnchanged
  <2>3. (Folded <=> Folded') /\ \A R : Leaves(R) <=> Leaves(R)'
    BY <2>1, <2>2 DEF Folded, Leaves, Found
  <2> QED BY <2>1, <2>2, <2>3 DEF FoldInv
<1> QED BY <1>1, <1>2, <1>3, <1>4, <1>5, <1>6 DEF Next

(***************************************************************************)
(* Step by step, in whatever order the open evaluations are ended, the     *)
(* collector computes what Collect says of the directory.                  *)
(***************************************************************************)
THEOREM CollectorComputesCollect == Spec => []ComputesCollect
<1>1. CInv /\ FoldInv => ComputesCollect
  <2> SUFFICES ASSUME CInv, FoldInv, phase = "collected"
               PROVE  LET whole == Collect(files)
                      IN  /\ Evaluations = ToSet(whole.evaluations)
                          /\ Len(collector.evaluations) = Len(whole.evaluations)
                          /\ [collector EXCEPT !.evaluations = <<>>]
                               = [whole EXCEPT !.evaluations = <<>>]
    BY DEF ComputesCollect
  <2> DEFINE L == AllLines
             c == collector
             R == FoldLeft(CollectFile, Empty, files)
             S == {AbortedOf(b) : b \in R.begun}
             whole == Collect(files)
  <2>1. /\ IsDirectory(files) /\ c \in Collections(L) /\ c.begun = {}
        /\ \A i \in DOMAIN files : LinesOf(files[i]) \subseteq L
    BY DEF CInv, TypeInv, AbortInv, AllLines
  <2>2. PICK F \in FileFolds(files, L) : R = F[Len(files)]
    BY <2>1, FilesIterate
  <2>3. R \in Collections(L) /\ Leaves(R)
    <3>1. Len(files) \in 0..Len(files)
      BY <2>1, DirectoryType
    <3> QED BY <2>2, <3>1 DEF FileFolds, FoldInv
  <2>4. whole = [R EXCEPT !.begun = {}, !.evaluations = R.evaluations \o SetToSeq(S)]
    BY <2>3 DEF Collect, Collections
  <2> HIDE DEF L, c, R, whole
  <2>5. IsFiniteSet(S) /\ Cardinality(S) = Cardinality(R.begun)
    <3> DEFINE f == [b \in R.begun |-> AbortedOf(b)]
    <3>1. \A a, b \in R.begun : AbortedOf(a) = AbortedOf(b) => a = b
      <4>1. \A b : AbortedOf(b).identity = Identity(b)
        BY DEF AbortedOf
      <4> QED BY <2>3, <4>1 DEF Leaves
    <3>2. f \in Bijection(R.begun, S)
      BY <3>1 DEF Bijection, Injection, Surjection, IsInjective
    <3>3. ExistsBijection(R.begun, S) /\ IsFiniteSet(R.begun)
      BY <2>3, <3>2 DEF ExistsBijection, Leaves
    <3> HIDE DEF S
    <3> QED BY <3>3, FS_Bijection
  <2>6. /\ SetToSeq(S) \in Seq(S) /\ Len(SetToSeq(S)) = Cardinality(S)
        /\ ToSet(SetToSeq(S)) = S
    <3> HIDE DEF S
    <3> QED BY <2>5, SetToSeqIs
  <2> DEFINE E == EvaluationsOf(L)
             t == SetToSeq(S)
  <2>7. R.evaluations \in Seq(E)
    BY <2>3 DEF Collections
  <2>8. t \in Seq(E)
    <3>1. S \subseteq E
      BY <2>3 DEF Collections, EvaluationsOf
    <3> HIDE DEF S
    <3> QED BY <2>6, <3>1
  <2>9. /\ ToSet(R.evaluations \o t) = ToSet(R.evaluations) \cup ToSet(t)
        /\ Len(R.evaluations \o t) = Len(R.evaluations) + Len(t)
    <3> HIDE DEF t, E
    <3> QED BY <2>7, <2>8, ToSetConcat
  <2>10. /\ Found(c) = Found(R) \cup S
         /\ Len(c.evaluations) = Len(R.evaluations) + Cardinality(R.begun)
         /\ c.finished = R.finished /\ c.skipped = R.skipped
         /\ c.clauses = R.clauses /\ c.integrity = R.integrity
         /\ c.interrupted = R.interrupted
    <3>1. R.begun \ c.begun = R.begun
      BY <2>1
    <3> QED BY <2>3, <3>1 DEF Leaves, c
  <2>11. /\ whole.evaluations = R.evaluations \o t
         /\ [c EXCEPT !.evaluations = <<>>] = [whole EXCEPT !.evaluations = <<>>]
    <3> HIDE DEF t
    <3>1. whole = [R EXCEPT !.begun = {}, !.evaluations = R.evaluations \o t]
      BY <2>4 DEF t
    <3> QED BY <2>1, <2>3, <2>10, <3>1 DEF Collections
  <2>12. /\ ToSet(c.evaluations) = ToSet(whole.evaluations)
         /\ Len(c.evaluations) = Len(whole.evaluations)
    BY <2>5, <2>6, <2>9, <2>10, <2>11 DEF Found
  <2> QED BY <2>11, <2>12 DEF Evaluations, c, whole
<1>2. CInv /\ FoldInv /\ [Next]_vars => FoldInv'
  BY FoldStep
<1> QED BY <1>1, <1>2, FoldInit, CollectorInvariant, PTL DEF Spec
-----------------------------------------------------------------------------
(***************************************************************************)
(* The cases of a switch, and the order that acceptance takes them to have.*)
(***************************************************************************)
(* Where the pieces of a sequence of sequences come to stand.              *)
LEMMA FlattenSeqPlaces ==
  ASSUME NEW V, NEW seqs \in Seq(Seq(V))
  PROVE  \E O : /\ Offsets(seqs, O) /\ ArePieces(seqs)
                /\ FlattenSeq(seqs) \in Seq(V)
                /\ Len(FlattenSeq(seqs)) = O[Len(seqs)]
                /\ \A i \in 1..Len(seqs) : \A j \in 1..Len(seqs[i]) :
                     FlattenSeq(seqs)[O[i - 1] + j] = seqs[i][j]
<1>1. ArePieces(seqs)
  BY PiecesType
<1>2. PICK O : Offsets(seqs, O) /\ Joined(seqs, O, Len(seqs), FlattenSeq(seqs))
  BY <1>1, FlattenSeqIs
<1> DEFINE s == FlattenSeq(seqs)
<1> HIDE DEF s
<1>3. /\ s \in Seq(Elements(seqs)) /\ Len(s) = O[Len(seqs)]
      /\ \A i \in 1..Len(seqs) : \A j \in 1..Len(seqs[i]) : s[O[i - 1] + j] = seqs[i][j]
  BY <1>2 DEF Joined, s
<1>4. Elements(seqs) \subseteq V
  <2>1. \A i \in DOMAIN seqs : seqs[i] \in Seq(V)
    OBVIOUS
  <2>2. \A i \in DOMAIN seqs : \A j \in DOMAIN seqs[i] : seqs[i][j] \in V
    BY <2>1
  <2> QED BY <2>2 DEF Elements, ToSet
<1>5. s \in Seq(V)
  BY <1>3, <1>4
<1> QED BY <1>1, <1>2, <1>3, <1>5 DEF s

(* Where the cases of each clause are among those of the function.         *)
CaseOffsets(F, p, O) ==
  /\ O \in [0..Len(F) -> Nat] /\ O[0] = 0
  /\ Len(F) \in Nat \ {0} /\ DOMAIN F = 1..Len(F)
  /\ Cases(F) \in Seq(Known(p)) /\ Len(Cases(F)) = O[Len(F)]
  /\ \A n \in 1..Len(F) :
       /\ F[n].cases \in Seq(Known(p)) /\ Len(F[n].cases) \in Nat
       /\ O[n] = O[n - 1] + Len(F[n].cases)
       /\ \A j \in 1..Len(F[n].cases) : Cases(F)[O[n - 1] + j] = F[n].cases[j]
  /\ \A n \in 0..Len(F) : \A m \in 0..n : O[m] <= O[n]
  /\ \A k \in 1..Len(Cases(F)) : \E n \in 1..Len(F) :
       \E j \in 1..Len(F[n].cases) : k = O[n - 1] + j

(* A function's cases are those of its clauses, in their order.            *)
LEMMA CasesAre ==
  ASSUME NEW F, NEW p, IsRewritten(F, p)
  PROVE  \E O : CaseOffsets(F, p, O)
<1> DEFINE seqs == [n \in DOMAIN F |-> F[n].cases]
           K == Known(p)
<1>1. /\ Len(F) \in Nat \ {0} /\ DOMAIN F = 1..Len(F)
      /\ \A n \in 1..Len(F) : F[n].cases \in Seq(K)
  <2>1. F \in Seq(ToSet(F)) /\ F # <<>>
    BY DEF IsRewritten
  <2>2. Len(F) \in Nat \ {0} /\ DOMAIN F = 1..Len(F)
    BY <2>1
  <2> QED BY <2>2 DEF IsRewritten
<1> HIDE DEF K
<1>2. /\ seqs \in Seq(Seq(K)) /\ Len(seqs) = Len(F)
      /\ \A n \in 1..Len(F) : seqs[n] = F[n].cases
  BY <1>1
<1>3. Cases(F) = FlattenSeq(seqs)
  BY DEF Cases
<1> HIDE DEF seqs
<1>4. PICK O : /\ Offsets(seqs, O) /\ ArePieces(seqs)
               /\ FlattenSeq(seqs) \in Seq(K)
               /\ Len(FlattenSeq(seqs)) = O[Len(seqs)]
               /\ \A i \in 1..Len(seqs) : \A j \in 1..Len(seqs[i]) :
                    FlattenSeq(seqs)[O[i - 1] + j] = seqs[i][j]
  BY <1>2, FlattenSeqPlaces
<1>5. \A n \in 0..Len(F) : \A m \in 0..n : O[m] <= O[n]
  BY <1>2, <1>4, OffsetsGrow
<1>6. \A k \in 1..Len(Cases(F)) : \E n \in 1..Len(F) :
        \E j \in 1..Len(F[n].cases) : k = O[n - 1] + j
  <2>1. Offsets(seqs, O) /\ ArePieces(seqs) /\ Len(Cases(F)) = O[Len(seqs)]
    BY <1>3, <1>4
  <2>2. ASSUME NEW k \in 1..O[Len(seqs)]
        PROVE  \E n \in 1..Len(seqs) : \E j \in 1..Len(seqs[n]) : k = O[n - 1] + j
    BY <2>1, PlaceExists
  <2>3. ASSUME NEW k \in 1..Len(Cases(F))
        PROVE  \E n \in 1..Len(F) : \E j \in 1..Len(F[n].cases) : k = O[n - 1] + j
    <3>1. PICK n \in 1..Len(seqs) : \E j \in 1..Len(seqs[n]) : k = O[n - 1] + j
      BY <2>1, <2>2
    <3>2. n \in 1..Len(F) /\ seqs[n] = F[n].cases
      BY <1>2
    <3> QED BY <3>1, <3>2
  <2> QED BY <2>3
<1>7. \A n \in 1..Len(F) : Len(F[n].cases) \in Nat
  BY <1>2, <1>4 DEF ArePieces
<1>8. /\ O \in [0..Len(F) -> Nat] /\ O[0] = 0
      /\ \A n \in 1..Len(F) : O[n] = O[n - 1] + Len(F[n].cases)
  BY <1>2, <1>4 DEF Offsets
<1>9. /\ Cases(F) \in Seq(K) /\ Len(Cases(F)) = O[Len(F)]
      /\ \A n \in 1..Len(F) : \A j \in 1..Len(F[n].cases) :
           Cases(F)[O[n - 1] + j] = F[n].cases[j]
  BY <1>2, <1>3, <1>4
<1> QED BY <1>1, <1>5, <1>6, <1>7, <1>8, <1>9 DEF K, CaseOffsets

(* Acceptance takes the order of a switch to be the one that was rewritten.*)
LEMMA SuffixIs ==
  ASSUME NEW F, NEW p, IsRewritten(F, p), NEW k \in DOMAIN Cases(F)
  PROVE  LET d == Cases(F)[k]
         IN  /\ d \in Known(p)
             /\ Suffix(d) = Remaining(F, k)
             /\ Remaining(F, k) \in SUBSET (Known(p) \ {d})
<1> DEFINE d == Cases(F)[k]
           C == Cases(F)
           clause(n) == Clauses[F[n].clause]
           group == clause(1).group
<1>0. PICK O : CaseOffsets(F, p, O)
  BY CasesAre
<1>1. /\ O \in [0..Len(F) -> Nat] /\ Len(F) \in Nat \ {0} /\ DOMAIN F = 1..Len(F)
      /\ Cases(F) \in Seq(Known(p)) /\ Len(Cases(F)) = O[Len(F)]
      /\ \A n \in 1..Len(F) :
           /\ F[n].cases \in Seq(Known(p)) /\ Len(F[n].cases) \in Nat
           /\ O[n] = O[n - 1] + Len(F[n].cases)
           /\ \A j \in 1..Len(F[n].cases) : Cases(F)[O[n - 1] + j] = F[n].cases[j]
      /\ \A n \in 0..Len(F) : \A m \in 0..n : O[m] <= O[n]
      /\ \A l \in 1..Len(Cases(F)) : \E n \in 1..Len(F) :
           \E j \in 1..Len(F[n].cases) : l = O[n - 1] + j
  BY <1>0 DEF CaseOffsets
<1>2. C \in Seq(Known(p)) /\ Len(C) \in Nat /\ DOMAIN C = 1..Len(C) /\ k \in 1..Len(C)
  BY <1>1
<1>3. IsConditionlessSwitch(F)
  <2>1. C # <<>>
    BY <1>2
  <2> QED BY <2>1 DEF IsRewritten, IsConditionless
<1>4. Remaining(F, k) = {C[l] : l \in (k + 1)..Len(C)}
  <2> DEFINE s == SubSeq(C, k + 1, Len(C))
  <2>1. /\ Len(s) = Len(C) - k /\ DOMAIN s = 1..(Len(C) - k)
        /\ \A i \in 1..(Len(C) - k) : s[i] = C[k + i]
    <3> HIDE DEF C
    <3> QED BY <1>2
  <2>2. \A l \in (k + 1)..Len(C) : l - k \in 1..(Len(C) - k) /\ k + (l - k) = l
    BY <1>2
  <2>3. \A i \in 1..(Len(C) - k) : k + i \in (k + 1)..Len(C)
    BY <1>2
  <2>4. Remaining(F, k) = ToSet(s)
    BY DEF Remaining
  <2> HIDE DEF s, C
  <2> QED BY <2>1, <2>2, <2>3, <2>4 DEF ToSet
<1>5. /\ group # NoGroup
      /\ {c \in DOMAIN Clauses : Clauses[c].kind = "conditionless" /\ Clauses[c].group = group}
           = {F[n].clause : n \in DOMAIN F}
      /\ \A n \in DOMAIN F : clause(n).index \in Nat /\ clause(n).decisions = F[n].cases
      /\ \A m, n \in DOMAIN F : m < n => clause(m).index < clause(n).index
      /\ \A m, n \in DOMAIN F : \A i \in DOMAIN F[m].cases, j \in DOMAIN F[n].cases :
           F[m].cases[i] = F[n].cases[j] => m = n /\ i = j
      /\ \A place \in Places :
           DecisionAt(place) \in ToSet(C) => Clauses[place[1]].group = group
  BY <1>3 DEF IsConditionlessSwitch
<1>6. \A n \in 1..Len(F) : DOMAIN F[n].cases = 1..Len(F[n].cases)
  BY <1>1
<1>7. PICK i \in 1..Len(F) : \E x \in 1..Len(F[i].cases) : k = O[i - 1] + x
  BY <1>1, <1>2
<1>8. PICK j \in 1..Len(F[i].cases) : k = O[i - 1] + j
  BY <1>7
<1>9. d = F[i].cases[j]
  BY <1>1, <1>8
<1> HIDE DEF clause, group
<1>10. ASSUME NEW place \in Places, DecisionAt(place) \in ToSet(C)
       PROVE  \E n \in 1..Len(F) : /\ place[1] = F[n].clause /\ place[2] \in 1..Len(F[n].cases)
                                   /\ DecisionAt(place) = F[n].cases[place[2]]
  <2>1. PICK c \in DOMAIN Clauses :
          /\ Clauses[c].kind = "conditionless" /\ place \in {c} \X DOMAIN Clauses[c].decisions
    BY DEF Places
  <2>2. place[1] = c /\ place[2] \in DOMAIN Clauses[c].decisions
    BY <2>1
  <2>3. Clauses[c].group = group
    BY <1>5, <1>10, <2>2
  <2>4. PICK n \in DOMAIN F : c = F[n].clause
    BY <1>5, <2>1, <2>3
  <2>5. Clauses[c].decisions = F[n].cases
    BY <1>5, <2>4 DEF clause
  <2> QED BY <1>1, <1>6, <2>2, <2>4, <2>5 DEF DecisionAt
<1>11. ASSUME NEW n \in 1..Len(F), NEW x \in 1..Len(F[n].cases)
       PROVE  /\ <<F[n].clause, x>> \in Places
              /\ DecisionAt(<<F[n].clause, x>>) = F[n].cases[x]
              /\ Clauses[F[n].clause].group = group
  <2>1. F[n].clause \in {c \in DOMAIN Clauses : /\ Clauses[c].kind = "conditionless"
                                                /\ Clauses[c].group = group}
    BY <1>1, <1>5
  <2>2. Clauses[F[n].clause].decisions = F[n].cases
    BY <1>1, <1>5 DEF clause
  <2> QED BY <1>5, <1>6, <2>1, <2>2 DEF Places, DecisionAt
<1>12. \A m, n \in 1..Len(F) : F[m].clause = F[n].clause => m = n
  <2>1. ASSUME NEW m \in DOMAIN F, NEW n \in DOMAIN F, m < n PROVE F[m].clause # F[n].clause
    <3>1. clause(m).index < clause(n).index /\ clause(m).index \in Nat
      BY <1>5, <2>1
    <3> QED BY <3>1 DEF clause
  <2>2. DOMAIN F = 1..Len(F) /\ Len(F) \in Nat
    BY <1>1
  <2> QED BY <2>1, <2>2
<1>13. ASSUME NEW n \in 1..Len(F), NEW x \in 1..Len(F[n].cases)
       PROVE  /\ O[n - 1] + x \in 1..Len(C) /\ C[O[n - 1] + x] = F[n].cases[x]
              /\ O[n - 1] + x > k <=> i < n \/ (i = n /\ j < x)
  <2>1. /\ n - 1 \in 0..Len(F) /\ i - 1 \in 0..Len(F) /\ n \in 0..Len(F) /\ i \in 0..Len(F)
        /\ Len(F) \in 0..Len(F)
    <3>1. Len(F) \in Nat
      BY <1>1
    <3> QED BY <3>1
  <2>2. /\ O[n - 1] \in Nat /\ O[i - 1] \in Nat /\ O[n] \in Nat /\ O[i] \in Nat
        /\ O[n] = O[n - 1] + Len(F[n].cases) /\ O[i] = O[i - 1] + Len(F[i].cases)
        /\ O[n] <= O[Len(F)] /\ Len(F[n].cases) \in Nat /\ Len(F[i].cases) \in Nat
    BY <1>1, <2>1
  <2>3. i < n => O[i] <= O[n - 1]
    <3>1. i < n => i \in 0..(n - 1)
      BY <1>1
    <3> QED BY <1>1, <2>1, <3>1
  <2>4. n < i => O[n] <= O[i - 1]
    <3>1. n < i => n \in 0..(i - 1)
      BY <1>1
    <3> QED BY <1>1, <2>1, <3>1
  <2>5. x \in Nat /\ j \in Nat /\ 1 <= x /\ x <= Len(F[n].cases) /\ 1 <= j /\ j <= Len(F[i].cases)
    BY <2>2
  <2>6. O[n - 1] + x > k <=> i < n \/ (i = n /\ j < x)
    <3>1. i \in Nat /\ n \in Nat
      BY <2>1
    <3> DEFINE a == O[n - 1]
               b == O[n]
               u == O[i - 1]
               v == O[i]
               y == Len(F[n].cases)
               z == Len(F[i].cases)
    <3>2. /\ a \in Nat /\ b \in Nat /\ u \in Nat /\ v \in Nat /\ y \in Nat /\ z \in Nat
          /\ b = a + y /\ v = u + z
      BY <2>2
    <3>3. (i < n => v <= a) /\ (n < i => b <= u) /\ (i = n => a = u) /\ k = u + j
      BY <1>8, <2>3, <2>4
    <3>4. x \in Nat /\ j \in Nat /\ 1 <= x /\ x <= y /\ 1 <= j /\ j <= z
      BY <2>5
    <3> HIDE DEF d, C, a, b, u, v, y, z
    <3>5. a + x > k <=> i < n \/ (i = n /\ j < x)
      BY <3>1, <3>2, <3>3, <3>4
    <3> QED BY <3>5 DEF a
  <2>7. O[n - 1] + x \in 1..Len(C)
    <3>1. Len(C) = O[Len(F)] /\ O[Len(F)] \in Nat
      BY <1>1, <2>1
    <3> DEFINE a == O[n - 1]
               b == O[n]
               y == Len(F[n].cases)
               z == O[Len(F)]
    <3>2. a \in Nat /\ b \in Nat /\ y \in Nat /\ b = a + y /\ b <= z
      BY <2>2
    <3>4. x \in Nat /\ 1 <= x /\ x <= y
      BY <2>5
    <3> HIDE DEF d, C, a, b, y, z
    <3>3. a + x \in 1..Len(C)
      BY <3>1, <3>2, <3>4 DEF z
    <3> QED BY <3>3 DEF a
  <2> QED BY <1>1, <2>6, <2>7
<1>14. ASSUME NEW e \in Suffix(d) PROVE e \in Remaining(F, k)
  <2>1. PICK q \in Places : e = DecisionAt(q) /\ \E x \in Places : DecisionAt(x) = d /\ Before(x, q)
    BY DEF Suffix
  <2>2. PICK x \in Places : DecisionAt(x) = d /\ Before(x, q)
    BY <2>1
  <2>3. d \in ToSet(C)
    BY <1>2 DEF ToSet
  <2>4. PICK m \in 1..Len(F) : /\ x[1] = F[m].clause /\ x[2] \in 1..Len(F[m].cases)
                               /\ DecisionAt(x) = F[m].cases[x[2]]
    BY <1>10, <2>2, <2>3
  <2>5. m = i /\ x[2] = j
    <3>1. /\ i \in DOMAIN F /\ m \in DOMAIN F
          /\ j \in DOMAIN F[i].cases /\ x[2] \in DOMAIN F[m].cases
      BY <1>1, <1>6, <2>4
    <3>2. F[m].cases[x[2]] = F[i].cases[j]
      BY <1>9, <2>2, <2>4
    <3> HIDE DEF d
    <3> QED BY <1>5, <3>1, <3>2
  <2>6. Clauses[q[1]].group = group
    BY <1>11, <2>2, <2>4 DEF Before
  <2>7. PICK c \in DOMAIN Clauses :
          /\ Clauses[c].kind = "conditionless" /\ q \in {c} \X DOMAIN Clauses[c].decisions
    BY DEF Places
  <2>8. q[1] = c /\ q[2] \in DOMAIN Clauses[c].decisions
    BY <2>7
  <2>9. PICK n \in DOMAIN F : c = F[n].clause
    BY <1>5, <2>6, <2>7, <2>8
  <2>10. Clauses[c].decisions = F[n].cases /\ n \in 1..Len(F) /\ q[2] \in 1..Len(F[n].cases)
    <3>1. n \in 1..Len(F)
      BY <1>1
    <3>2. Clauses[c].decisions = F[n].cases
      BY <1>5, <2>9 DEF clause
    <3> QED BY <1>6, <2>8, <3>1, <3>2
  <2>11. e = F[n].cases[q[2]]
    BY <2>1, <2>8, <2>10 DEF DecisionAt
  <2>12. i < n \/ (i = n /\ j < q[2])
    <3>1. CASE Clauses[x[1]].index < Clauses[q[1]].index
      <4>1. clause(i).index < clause(n).index /\ clause(i).index \in Nat /\ clause(n).index \in Nat
        BY <1>1, <1>5, <2>4, <2>5, <2>8, <2>9, <3>1 DEF clause
      <4>2. n < i => clause(n).index < clause(i).index
        <5>1. i \in DOMAIN F
          BY <1>1
        <5> QED BY <1>5, <5>1
      <4>3. ~(n < i) /\ n # i
        BY <4>1, <4>2
      <4>4. n \in Nat /\ i \in Nat
        BY <2>10
      <4> QED BY <4>3, <4>4
    <3>2. CASE x[1] = q[1] /\ x[2] < q[2]
      BY <1>12, <2>4, <2>5, <2>8, <2>9, <2>10, <3>2
    <3> QED BY <2>2, <3>1, <3>2 DEF Before
  <2>13. /\ O[n - 1] + q[2] \in 1..Len(C) /\ O[n - 1] + q[2] > k
         /\ C[O[n - 1] + q[2]] = F[n].cases[q[2]]
    BY <1>13, <2>10, <2>12
  <2>14. O[n - 1] + q[2] \in (k + 1)..Len(C)
    BY <1>2, <2>13
  <2> QED BY <1>4, <2>11, <2>13, <2>14
<1>15. ASSUME NEW l \in (k + 1)..Len(C)
       PROVE  C[l] \in Suffix(d) /\ C[l] # d /\ C[l] \in Known(p)
  <2>1. l \in 1..Len(C) /\ l > k
    BY <1>2
  <2>2. PICK n \in 1..Len(F) : \E x \in 1..Len(F[n].cases) : l = O[n - 1] + x
    BY <1>1, <2>1
  <2>3. PICK x \in 1..Len(F[n].cases) : l = O[n - 1] + x
    BY <2>2
  <2>4. C[l] = F[n].cases[x] /\ (i < n \/ (i = n /\ j < x))
    BY <1>13, <2>1, <2>3
  <2> DEFINE P == <<F[i].clause, j>>
             Q == <<F[n].clause, x>>
  <2>5. /\ P \in Places /\ Q \in Places /\ DecisionAt(P) = d /\ DecisionAt(Q) = C[l]
        /\ Clauses[F[i].clause].group = group /\ Clauses[F[n].clause].group = group
    BY <1>9, <1>11, <2>4
  <2>6. P[1] = F[i].clause /\ Q[1] = F[n].clause /\ P[2] = j /\ Q[2] = x
    OBVIOUS
  <2> HIDE DEF P, Q
  <2>7. Before(P, Q)
    <3>1. i < n => Clauses[F[i].clause].index < Clauses[F[n].clause].index
      BY <1>1, <1>5 DEF clause
    <3> QED BY <2>4, <2>5, <2>6, <3>1 DEF Before
  <2>8. C[l] \in Suffix(d)
    BY <2>5, <2>7 DEF Suffix
  <2>9. C[l] # d
    <3>1. i \in DOMAIN F /\ n \in DOMAIN F /\ j \in DOMAIN F[i].cases /\ x \in DOMAIN F[n].cases
      BY <1>1, <1>6
    <3>2. F[i].cases[j] = F[n].cases[x] => i = n /\ j = x
      BY <1>5, <3>1
    <3>3. i \in Nat /\ n \in Nat /\ j \in Nat /\ x \in Nat
      <4>1. Len(F) \in Nat /\ Len(F[i].cases) \in Nat /\ Len(F[n].cases) \in Nat
        BY <1>1
      <4> HIDE DEF d
      <4> QED BY <4>1
    <3> QED BY <1>9, <2>4, <3>2, <3>3
  <2>10. C[l] \in Known(p)
    BY <1>2, <2>1
  <2> QED BY <2>8, <2>9, <2>10
<1>16. d \in Known(p)
  BY <1>2
<1> HIDE DEF C, d
<1> QED BY <1>4, <1>14, <1>15, <1>16 DEF d
-----------------------------------------------------------------------------
(***************************************************************************)
(* A record tells what happened, as the collector and acceptance know it:  *)
(* an end of an evaluation is one that its decision can leave behind, and  *)
(* skips what acceptance expects.                                          *)
(***************************************************************************)
ToldBegin(r) ==
  /\ r.type = "begin" /\ r.id # 0 /\ r.decision \in Known(r.process)
  /\ r.count = Cardinality(Conditions(Decisions[r.decision].tree))

ToldEnd(r, H) ==
  /\ IsEnd(r)
  /\ r = [type |-> r.type, process |-> r.process, id |-> r.id, decision |-> r.decision,
          count |-> r.count, data |-> r.data, completed |-> r.completed,
          selects |-> r.selects, skips |-> r.skips]
  /\ r.id # 0 /\ r.decision \in Known(r.process)
  /\ DOMAIN r.data.states = Conditions(Decisions[r.decision].tree)
  /\ r.completed \in BOOLEAN /\ r.data.result \in BOOLEAN
  /\ r.completed => Possible(r.decision, r.data)
  /\ r.selects = (r.completed /\ r.data.result)
  /\ r.skips = IF r.completed /\ r.data.result THEN Suffix(r.decision) ELSE {}
  /\ Suffix(r.decision) \in SUBSET (Known(r.process) \ {r.decision})
  /\ RanAs(r) \in H.evaluations

ToldClause(r, H) ==
  r.type = "clause" /\ IsClauseValid(r.process, r.clause) /\ r.clause \in H.clauses

Told(r, H) == ToldBegin(r) \/ ToldEnd(r, H) \/ ToldClause(r, H)

(* The records L are all that happened.                                    *)
AllTold(L, H) ==
  /\ \A e \in H.evaluations : \E r \in L : IsEnd(r) /\ RanAs(r) = e
  /\ \A o \in H.clauses : \E r \in L : r.type = "clause" /\ r.clause = o

(***************************************************************************)
(* While the processes run, their journals tell all that happened.         *)
(***************************************************************************)
IsJournal(f) ==
  /\ f = [kind |-> "journal", lines |-> f.lines, torn |-> FALSE]
  /\ f.lines \in Seq(ToSet(f.lines))

ThreadPlaces ==
  [at : {"case", "conditions", "body", "stopped"}, case : Nat, clause : Nat]

IsPlace(t) ==
  /\ thread[t] \in ThreadPlaces
  /\ thread[t].at = "case" => thread[t].case # 0
  /\ thread[t].at = "conditions" =>
       thread[t].case \in DOMAIN Cases(Function(t)) /\ thread[t].clause # 0
  /\ thread[t].at = "body" => thread[t].clause \in DOMAIN Function(t)

JournalsInv ==
  /\ DOMAIN files = DOMAIN setting.identity /\ files \in Seq(ToSet(files))
  /\ \A f \in DOMAIN files : IsJournal(files[f])

ThreadsInv ==
  /\ next \in [DOMAIN setting.identity -> Nat \ {0}]
  /\ DOMAIN thread = Threads
  /\ \A t \in Threads : IsPlace(t)

ToldInv ==
  /\ happened = [evaluations |-> happened.evaluations, clauses |-> happened.clauses]
  /\ \A r \in AllLines : Told(r, happened)
  /\ AllTold(AllLines, happened)

RunInv ==
  /\ setting \in Settings
  /\ phase = "running" =>
       /\ JournalsInv /\ ThreadsInv /\ ToldInv
       /\ file = 1 /\ line = 1 /\ provenance = NoProcess /\ collector = Empty

(* What a thread runs is as the metadata say.                              *)
LEMMA ThreadRuns ==
  ASSUME setting \in Settings, NEW t \in Threads
  PROVE  /\ File(t) \in DOMAIN setting.identity
         /\ IsRewritten(Function(t), ProcessOf(t))
         /\ setting.identity \in Seq(DOMAIN Provenance)
BY SettingsAssumption DEF Threads, File, Function, ProcessOf

(* A journal is one.                                                       *)
LEMMA JournalType ==
  ASSUME NEW f, IsJournal(f)
  PROVE  /\ f.kind = "journal" /\ f.torn = FALSE /\ f.lines \in Seq(ToSet(f.lines))
         /\ \A r : With(f, r) = [kind |-> "journal", lines |-> Append(f.lines, r), torn |-> FALSE]
<1> DEFINE s == f.lines
           b == f.torn
<1>1. b = FALSE /\ f.kind = "journal" /\ f.lines \in Seq(ToSet(f.lines))
  BY DEF IsJournal
<1>2. f = [kind |-> "journal", lines |-> s, torn |-> b]
  BY <1>1 DEF IsJournal
<1> HIDE DEF s, b
<1>3. ASSUME NEW u
      PROVE  [f EXCEPT !.lines = u] = [kind |-> "journal", lines |-> u, torn |-> b]
  BY <1>2
<1>4. ASSUME NEW r
      PROVE  With(f, r) = [kind |-> "journal", lines |-> Append(f.lines, r), torn |-> b]
  BY <1>3 DEF With
<1> QED BY <1>1, <1>4 DEF b

(* Journals make a directory.                                              *)
LEMMA JournalsAreDirectory ==
  ASSUME JournalsInv
  PROVE  IsDirectory(files)
<1>1. \A f \in DOMAIN files : /\ files[f].kind = "journal"
                               /\ files[f].lines \in Seq(ToSet(files[f].lines))
  BY JournalType DEF JournalsInv
<1> QED BY <1>1 DEF JournalsInv, IsDirectory

(* What was told stays told.                                               *)
LEMMA ToldGrows ==
  ASSUME NEW r, NEW H, NEW G, Told(r, H), H.evaluations \subseteq G.evaluations,
         H.clauses \subseteq G.clauses
  PROVE  Told(r, G)
<1>1. CASE ToldBegin(r)
  BY <1>1 DEF Told
<1>2. CASE ToldEnd(r, H)
  <2>1. RanAs(r) \in G.evaluations
    BY <1>2 DEF ToldEnd
  <2>2. ToldEnd(r, G)
    BY <1>2, <2>1 DEF ToldEnd
  <2> QED BY <2>2 DEF Told
<1>3. CASE ToldClause(r, H)
  BY <1>3 DEF Told, ToldClause
<1> QED BY <1>1, <1>2, <1>3 DEF Told

(* A record is written behind all others.                                  *)
LEMMA Writes ==
  ASSUME JournalsInv, setting \in Settings, UNCHANGED setting,
         NEW t \in Threads, NEW r, Write(t, r)
  PROVE  JournalsInv' /\ AllLines' = AllLines \cup {r}
<1> DEFINE f == File(t)
           g == With(files[f], r)
<1>1. f \in DOMAIN files /\ IsJournal(files[f])
  BY ThreadRuns DEF JournalsInv
<1>2. files' = [files EXCEPT ![f] = g]
  BY DEF Write
<1>3. /\ g = [kind |-> "journal", lines |-> Append(files[f].lines, r), torn |-> FALSE]
      /\ files[f].kind = "journal"
  BY <1>1, JournalType
<1>4. /\ ToSet(Append(files[f].lines, r)) = ToSet(files[f].lines) \cup {r}
      /\ Append(files[f].lines, r) \in Seq(ToSet(files[f].lines) \cup {r})
  <2>1. files[f].lines \in Seq(ToSet(files[f].lines))
    BY <1>1 DEF IsJournal
  <2>2. files[f].lines \in Seq(ToSet(files[f].lines) \cup {r})
    BY <2>1
  <2> QED BY <2>1, <2>2, FoundAppend
<1> HIDE DEF g, f
<1>5. g.kind = "journal" /\ IsJournal(g) /\ LinesOf(g) = LinesOf(files[f]) \cup {r}
  BY <1>3, <1>4 DEF IsJournal, LinesOf
<1>6. /\ DOMAIN files' = DOMAIN files
      /\ \A i \in DOMAIN files : files'[i] = IF i = f THEN g ELSE files[i]
  BY <1>2
<1>7. JournalsInv'
  <2>1. files' \in Seq(ToSet(files'))
    <3>1. Len(files) \in Nat /\ DOMAIN files = 1..Len(files)
      BY DEF JournalsInv
    <3>2. files' = [i \in 1..Len(files) |-> files'[i]]
      BY <1>2, <1>6, <3>1
    <3>3. \A i \in 1..Len(files) : files'[i] \in ToSet(files')
      BY <1>6, <3>1 DEF ToSet
    <3> QED BY <3>1, <3>2, <3>3
  <2>2. \A i \in DOMAIN files' : IsJournal(files'[i])
    BY <1>5, <1>6 DEF JournalsInv
  <2> QED BY <1>6, <2>1, <2>2 DEF JournalsInv
<1>8. AllLines' = AllLines \cup {r}
  <2>1. AllLines' = UNION {LinesOf(files'[i]) : i \in DOMAIN files'}
    BY DEF AllLines
  <2>2. \A i \in DOMAIN files : LinesOf(files'[i]) = IF i = f THEN LinesOf(files[i]) \cup {r}
                                                   ELSE LinesOf(files[i])
    BY <1>5, <1>6
  <2>3. AllLines = UNION {LinesOf(files[i]) : i \in DOMAIN files}
    BY DEF AllLines
  <2> QED BY <1>1, <1>6, <2>1, <2>2, <2>3 DEF f
<1> QED BY <1>7, <1>8

(* So does the hook of a clause, unless it is written already.             *)
LEMMA WritesClause ==
  ASSUME JournalsInv, ToldInv, setting \in Settings, UNCHANGED setting,
         NEW t \in Threads, NEW o, IsClauseValid(ProcessOf(t), o), RecordClause(t, o)
  PROVE  JournalsInv' /\ ToldInv'
<1> DEFINE r == [type |-> "clause", process |-> ProcessOf(t), clause |-> o]
<1>1. r.type = "clause" /\ r.process = ProcessOf(t) /\ r.clause = o
  OBVIOUS
<1>2. /\ IF r \in ToSet(files[File(t)].lines) THEN UNCHANGED files ELSE Write(t, r)
      /\ happened' = [happened EXCEPT !.clauses = @ \cup {o}]
  BY DEF RecordClause
<1> HIDE DEF r
<1>3. File(t) \in DOMAIN files /\ IsJournal(files[File(t)])
  BY ThreadRuns DEF JournalsInv
<1>4. JournalsInv' /\ AllLines' = AllLines \cup {r}
  <2>1. CASE r \in ToSet(files[File(t)].lines)
    <3>1. UNCHANGED files
      BY <1>2, <2>1
    <3>2. files[File(t)].kind = "journal"
      BY <1>3 DEF IsJournal
    <3>3. r \in AllLines
      BY <1>3, <2>1, <3>2 DEF AllLines, LinesOf
    <3>4. AllLines' = AllLines
      BY <3>1 DEF AllLines
    <3> QED BY <3>1, <3>3, <3>4 DEF JournalsInv
  <2>2. CASE r \notin ToSet(files[File(t)].lines)
    BY <1>2, <2>2, Writes
  <2> QED BY <2>1, <2>2
<1>5. /\ happened' = [evaluations |-> happened.evaluations, clauses |-> happened.clauses \cup {o}]
  BY <1>2 DEF ToldInv
<1>6. /\ happened'.evaluations = happened.evaluations
      /\ happened'.clauses = happened.clauses \cup {o}
  BY <1>5
<1>7. Told(r, happened')
  BY <1>1, <1>6 DEF Told, ToldClause
<1>8. \A q \in AllLines' : Told(q, happened')
  <2>1. \A q \in AllLines : Told(q, happened')
    BY <1>6, ToldGrows DEF ToldInv
  <2> QED BY <1>4, <1>7, <2>1
<1>9. AllTold(AllLines', happened')
  BY <1>1, <1>4, <1>6 DEF ToldInv, AllTold
<1>10. happened' = [evaluations |-> happened'.evaluations, clauses |-> happened'.clauses]
  BY <1>5
<1> QED BY <1>4, <1>8, <1>9, <1>10 DEF ToldInv

(* And the end of an evaluation.                                           *)
LEMMA WritesEnd ==
  ASSUME JournalsInv, ToldInv, setting \in Settings, UNCHANGED setting,
         NEW t \in Threads, NEW r, Write(t, r), Ended(r),
         \A H : RanAs(r) \in H.evaluations => ToldEnd(r, H)
  PROVE  JournalsInv' /\ ToldInv'
<1>1. JournalsInv' /\ AllLines' = AllLines \cup {r}
  BY Writes
<1>2. happened' = [happened EXCEPT !.evaluations = @ \cup {RanAs(r)}]
  BY DEF Ended
<1> DEFINE e == RanAs(r)
<1> HIDE DEF e
<1>3. /\ happened' = [evaluations |-> happened.evaluations \cup {e}, clauses |-> happened.clauses]
  BY <1>2 DEF ToldInv, e
<1>4. /\ happened'.evaluations = happened.evaluations \cup {e}
      /\ happened'.clauses = happened.clauses
  BY <1>3
<1>5. ToldEnd(r, happened')
  BY <1>4 DEF e
<1>6. \A q \in AllLines' : Told(q, happened')
  <2>1. \A q \in AllLines : Told(q, happened')
    BY <1>4, ToldGrows DEF ToldInv
  <2> QED BY <1>1, <1>5, <2>1 DEF Told
<1>7. IsEnd(r)
  BY <1>5 DEF ToldEnd
<1>8. AllTold(AllLines', happened')
  BY <1>1, <1>4, <1>7 DEF ToldInv, AllTold, e
<1>9. happened' = [evaluations |-> happened'.evaluations, clauses |-> happened'.clauses]
  BY <1>3
<1> QED BY <1>1, <1>6, <1>8, <1>9 DEF ToldInv

(* A thread that goes on is at a place of its function.                    *)
LEMMA GoesOn ==
  ASSUME ThreadsInv, UNCHANGED setting, NEW t \in Threads, NEW place,
         thread' = [thread EXCEPT ![t] = place],
         next' \in [DOMAIN setting.identity -> Nat \ {0}],
         place \in ThreadPlaces,
         place.at = "case" => place.case # 0,
         place.at = "conditions" =>
           place.case \in DOMAIN Cases(Function(t)) /\ place.clause # 0,
         place.at = "body" => place.clause \in DOMAIN Function(t)
  PROVE  ThreadsInv'
<1>1. /\ DOMAIN thread' = Threads /\ thread'[t] = place
      /\ \A s \in Threads : s # t => thread'[s] = thread[s]
  BY DEF ThreadsInv
<1>2. Threads' = Threads /\ \A s : Function(s)' = Function(s)
  BY DEF Threads, Function
<1>3. ASSUME NEW s \in Threads PROVE IsPlace(s)'
  <2>1. CASE s = t
    BY <1>1, <1>2, <2>1 DEF IsPlace
  <2>2. CASE s # t
    <3>1. IsPlace(s) /\ thread'[s] = thread[s]
      BY <1>1, <2>2 DEF ThreadsInv
    <3> QED BY <1>2, <3>1 DEF IsPlace
  <2> QED BY <2>1, <2>2
<1> QED BY <1>1, <1>2, <1>3 DEF ThreadsInv
-----------------------------------------------------------------------------
InRun == JournalsInv /\ ThreadsInv /\ ToldInv

(* Everything is told still, with one more record.                         *)
LEMMA TellsMore ==
  ASSUME ToldInv, UNCHANGED happened, NEW r, AllLines' = AllLines \cup {r}, Told(r, happened)
  PROVE  ToldInv'
<1>1. \A q \in AllLines' : Told(q, happened')
  BY DEF ToldInv
<1>2. AllTold(AllLines', happened')
  BY DEF ToldInv, AllTold
<1> QED BY <1>1, <1>2 DEF ToldInv

(* Without a record as well.                                               *)
LEMMA TellsSame ==
  ASSUME JournalsInv, ToldInv, UNCHANGED <<setting, files, happened>>
  PROVE  JournalsInv' /\ ToldInv'
<1>1. AllLines' = AllLines
  BY DEF AllLines
<1> QED BY <1>1 DEF JournalsInv, ToldInv

(* The case that a thread has come to.                                     *)
LEMMA CaseIs ==
  ASSUME setting \in Settings, NEW t \in Threads, NEW k \in DOMAIN Cases(Function(t))
  PROVE  LET d == Cases(Function(t))[k]
         IN  /\ d \in Known(ProcessOf(t))
             /\ Suffix(d) = Remaining(Function(t), k)
             /\ Suffix(d) \in SUBSET (Known(ProcessOf(t)) \ {d})
<1>1. IsRewritten(Function(t), ProcessOf(t))
  BY ThreadRuns
<1> QED BY <1>1, SuffixIs

(* An evaluation is begun.                                                 *)
LEMMA BeginStep ==
  ASSUME setting \in Settings, InRun, NEW t \in Threads, BeginInto(t)
  PROVE  InRun'
<1> DEFINE k == thread[t].case
           d == Cases(Function(t))[k]
           r == BeginLine(t, d)
           n == next[File(t)]
           place == [thread[t] EXCEPT !.at = "conditions", !.clause = n]
<1>1. /\ k \in DOMAIN Cases(Function(t)) /\ Write(t, r) /\ thread[t].at = "case"
      /\ next' = [next EXCEPT ![File(t)] = n + 1]
      /\ thread' = [thread EXCEPT ![t] = place]
      /\ UNCHANGED <<setting, happened, intact>>
  BY DEF BeginInto
<1>2. d \in Known(ProcessOf(t))
  BY <1>1, CaseIs
<1>3. JournalsInv' /\ AllLines' = AllLines \cup {r}
  BY <1>1, Writes DEF InRun
<1>4. /\ r.type = "begin" /\ r.process = ProcessOf(t) /\ r.id = n /\ r.decision = d
      /\ r.count = Cardinality(Conditions(Decisions[d].tree))
  BY DEF BeginLine
<1>5. next \in [DOMAIN setting.identity -> Nat \ {0}] /\ n \in Nat \ {0}
  BY ThreadRuns DEF InRun, ThreadsInv
<1> HIDE DEF r, n
<1>6. ToldInv'
  <2>1. Told(r, happened)
    BY <1>2, <1>4, <1>5 DEF Told, ToldBegin
  <2> QED BY <1>1, <1>3, <2>1, TellsMore DEF InRun
<1>7. next' \in [DOMAIN setting'.identity -> Nat \ {0}]
  <2>1. n + 1 \in Nat \ {0}
    BY <1>5
  <2> DEFINE m == n + 1
  <2> HIDE DEF m
  <2>2. next' = [next EXCEPT ![File(t)] = m] /\ setting' = setting
    BY <1>1 DEF m
  <2>3. m \in Nat \ {0}
    BY <2>1 DEF m
  <2> QED BY <1>5, <2>2, <2>3
<1>8. thread[t] \in ThreadPlaces
  BY DEF InRun, ThreadsInv, IsPlace
<1>9. /\ place \in ThreadPlaces
      /\ place.at = "conditions" /\ place.case = k /\ place.clause = n
  BY <1>5, <1>8 DEF ThreadPlaces
<1> HIDE DEF place, k
<1>10. ThreadsInv'
  BY <1>1, <1>5, <1>7, <1>9, GoesOn DEF InRun
<1> QED BY <1>3, <1>6, <1>10 DEF InRun

(* The end of an evaluation that its decision can leave behind.            *)
LEMMA EndLineTold ==
  ASSUME setting \in Settings, InRun, NEW t \in Threads, thread[t].at = "conditions",
         NEW states, NEW result \in BOOLEAN, NEW completed \in BOOLEAN, NEW skips,
         LET d == Cases(Function(t))[thread[t].case]
         IN  /\ DOMAIN states = Conditions(Decisions[d].tree)
             /\ completed => result \in Observed(Decisions[d].tree, states)
             /\ skips = IF completed /\ result THEN Remaining(Function(t), thread[t].case) ELSE {}
  PROVE  LET d == Cases(Function(t))[thread[t].case]
             r == EndLine(t, d, states, result, completed, skips)
         IN  \A H : RanAs(r) \in H.evaluations => ToldEnd(r, H)
<1> DEFINE k == thread[t].case
           d == Cases(Function(t))[k]
           p == ProcessOf(t)
           r == EndLine(t, d, states, result, completed, skips)
<1>1. k \in DOMAIN Cases(Function(t)) /\ thread[t].clause # 0
  BY DEF InRun, ThreadsInv, IsPlace
<1>2. /\ d \in Known(p) /\ Suffix(d) = Remaining(Function(t), k)
      /\ Suffix(d) \in SUBSET (Known(p) \ {d})
  BY <1>1, CaseIs
<1> DEFINE data == [states |-> states, result |-> result]
<1>3. data.states = states /\ data.result = result
  OBVIOUS
<1>4. completed => Possible(d, data)
  BY <1>3 DEF Possible
<1> HIDE DEF k, d, p, data
<1>5. r = [type |-> "terminal", process |-> p, id |-> thread[t].clause, decision |-> d,
           count |-> Cardinality(Conditions(Decisions[d].tree)), data |-> data,
           completed |-> completed, selects |-> (completed /\ result), skips |-> skips]
  BY DEF EndLine, p, data
<1> DEFINE s == (completed /\ result)
<1>6. s \in BOOLEAN
  OBVIOUS
<1> HIDE DEF r
<1>7. /\ r.type = "terminal" /\ r.process = p /\ r.id = thread[t].clause /\ r.decision = d
      /\ r.data = data /\ r.completed = completed /\ r.selects = s /\ r.skips = skips
  <2> HIDE DEF s
  <2>1. r = [type |-> "terminal", process |-> p, id |-> thread[t].clause, decision |-> d,
             count |-> Cardinality(Conditions(Decisions[d].tree)), data |-> data,
             completed |-> completed, selects |-> s, skips |-> skips]
    BY <1>5 DEF s
  <2> QED BY <2>1
<1>8. r = [type |-> r.type, process |-> r.process, id |-> r.id, decision |-> r.decision,
           count |-> r.count, data |-> r.data, completed |-> r.completed,
           selects |-> r.selects, skips |-> r.skips]
  <2> HIDE DEF s
  <2>1. r = [type |-> "terminal", process |-> p, id |-> thread[t].clause, decision |-> d,
             count |-> Cardinality(Conditions(Decisions[d].tree)), data |-> data,
             completed |-> completed, selects |-> s, skips |-> skips]
    BY <1>5 DEF s
  <2> QED BY <2>1
<1>9. skips = IF completed /\ result THEN Suffix(d) ELSE {}
  BY <1>2 DEF d, k
<1>10. DOMAIN data.states = Conditions(Decisions[d].tree)
  BY <1>3 DEF d, k
<1>11. SUFFICES ASSUME NEW H, RanAs(r) \in H.evaluations PROVE ToldEnd(r, H)
  BY DEF r, d, k
<1>12. IsEnd(r)
  BY <1>7 DEF IsEnd
<1> QED BY <1>1, <1>2, <1>3, <1>4, <1>7, <1>8, <1>9, <1>10, <1>11, <1>12 DEF ToldEnd

(* The places a thread goes to.                                            *)
LEMMA PlacesAre ==
  ASSUME NEW k \in Nat
  PROVE  /\ \A where \in {"body", "stopped"} :
              /\ At(where, k) \in ThreadPlaces
              /\ At(where, k).at = where /\ At(where, k).clause = k
         /\ /\ [Idle EXCEPT !.case = k] \in ThreadPlaces
            /\ [Idle EXCEPT !.case = k].at = "case" /\ [Idle EXCEPT !.case = k].case = k
<1>1. ASSUME NEW where \in {"body", "stopped"}
      PROVE  /\ At(where, k) \in ThreadPlaces
             /\ At(where, k).at = where /\ At(where, k).clause = k
  BY DEF At, ThreadPlaces
<1> DEFINE one == 1
           zero == 0
<1>2. one \in Nat /\ zero \in Nat
  OBVIOUS
<1>3. Idle = [at |-> "case", case |-> one, clause |-> zero]
  BY DEF Idle
<1> HIDE DEF one, zero
<1>4. [Idle EXCEPT !.case = k] = [at |-> "case", case |-> k, clause |-> zero]
  BY <1>3
<1> DEFINE i == [Idle EXCEPT !.case = k]
<1>5. i \in ThreadPlaces /\ i.at = "case" /\ i.case = k
  BY <1>2, <1>4 DEF ThreadPlaces
<1> QED BY <1>1, <1>5

(* The owner of a case is one of the function's clauses.                   *)
LEMMA OwnerIs ==
  ASSUME NEW F, NEW p, IsRewritten(F, p), NEW k \in DOMAIN Cases(F)
  PROVE  Owner(F, k) \in DOMAIN F
<1>1. PICK O : CaseOffsets(F, p, O)
  BY CasesAre
<1>2. /\ DOMAIN F = 1..Len(F) /\ DOMAIN Cases(F) = 1..Len(Cases(F))
      /\ \E n \in 1..Len(F) : \E j \in 1..Len(F[n].cases) : k = O[n - 1] + j
  BY <1>1 DEF CaseOffsets
<1>3. PICK n \in 1..Len(F) : \E j \in 1..Len(F[n].cases) : k = O[n - 1] + j
  BY <1>2
<1>4. PICK j \in 1..Len(F[n].cases) : k = O[n - 1] + j
  BY <1>3
<1>5. Cases(F)[k] = F[n].cases[j] /\ DOMAIN F[n].cases = 1..Len(F[n].cases)
  BY <1>1, <1>4 DEF CaseOffsets
<1>6. Cases(F)[k] \in ToSet(F[n].cases)
  BY <1>5 DEF ToSet
<1> QED BY <1>2, <1>6 DEF Owner

(* An evaluation that ends, as any that its decision can leave behind.     *)
LEMMA EndingStep ==
  ASSUME setting \in Settings, InRun, NEW t \in Threads, NEW r, NEW place,
         UNCHANGED <<setting, next>>, Write(t, r), Ended(r),
         \A H : RanAs(r) \in H.evaluations => ToldEnd(r, H),
         thread' = [thread EXCEPT ![t] = place], place \in ThreadPlaces,
         place.at \in {"case", "body", "stopped"}, place.at = "case" => place.case # 0,
         place.at = "body" => place.clause \in DOMAIN Function(t)
  PROVE  InRun'
<1>1. JournalsInv' /\ ToldInv'
  BY WritesEnd DEF InRun
<1>2. next' \in [DOMAIN setting.identity -> Nat \ {0}]
  BY DEF InRun, ThreadsInv
<1>3. place.at # "conditions"
  OBVIOUS
<1>4. ThreadsInv'
  BY <1>2, <1>3, GoesOn DEF InRun, ThreadPlaces
<1> QED BY <1>1, <1>4 DEF InRun

(* A case is evaluated to the end.                                         *)
LEMMA SelectStep ==
  ASSUME setting \in Settings, InRun, NEW t \in Threads, NEW states, NEW result \in BOOLEAN,
         EndSelect(t, states, result)
  PROVE  InRun'
<1> DEFINE k == thread[t].case
           F == Function(t)
           d == Cases(F)[k]
           skips == IF result THEN Remaining(F, k) ELSE {}
           r == EndLine(t, d, states, result, TRUE, skips)
           place == IF result THEN At("body", Owner(F, k)) ELSE [Idle EXCEPT !.case = k + 1]
<1>1. /\ thread[t].at = "conditions"
      /\ states \in Vectors(Decisions[d].tree) /\ result \in Observed(Decisions[d].tree, states)
      /\ Write(t, r) /\ Ended(r) /\ UNCHANGED <<setting, next, intact>>
      /\ thread' = [thread EXCEPT ![t] = place]
  BY DEF EndSelect
<1>2. DOMAIN states = Conditions(Decisions[d].tree)
  BY <1>1 DEF Vectors
<1>3. \A H : RanAs(r) \in H.evaluations => ToldEnd(r, H)
  BY <1>1, <1>2, EndLineTold
<1>4. k \in DOMAIN Cases(F) /\ k \in Nat
  BY <1>1 DEF InRun, ThreadsInv, IsPlace, ThreadPlaces
<1>5. IsRewritten(F, ProcessOf(t))
  BY ThreadRuns
<1>6. Owner(F, k) \in DOMAIN F /\ Owner(F, k) \in Nat
  <2>1. Owner(F, k) \in DOMAIN F
    BY <1>4, <1>5, OwnerIs
  <2>2. PICK O : CaseOffsets(F, ProcessOf(t), O)
    BY <1>5, CasesAre
  <2>3. DOMAIN F = 1..Len(F)
    BY <2>2 DEF CaseOffsets
  <2> QED BY <2>1, <2>3
<1>7. /\ place \in ThreadPlaces /\ place.at \in {"case", "body", "stopped"}
      /\ place.at = "case" => place.case # 0
      /\ place.at = "body" => place.clause \in DOMAIN F
  <2>1. CASE result
    <3>1. place = At("body", Owner(F, k))
      BY <2>1
    <3> HIDE DEF place
    <3>2. place \in ThreadPlaces /\ place.at = "body" /\ place.clause = Owner(F, k)
      BY <1>6, <3>1, PlacesAre
    <3> QED BY <1>6, <3>2
  <2>2. CASE ~result
    <3>1. place = [Idle EXCEPT !.case = k + 1]
      BY <2>2
    <3>2. k + 1 \in Nat /\ k + 1 # 0
      BY <1>4
    <3> HIDE DEF place
    <3>3. place \in ThreadPlaces /\ place.at = "case" /\ place.case = k + 1
      BY <3>1, <3>2, PlacesAre
    <3> QED BY <3>2, <3>3
  <2> QED BY <2>1, <2>2
<1> HIDE DEF r, place, k, F
<1> QED BY <1>1, <1>3, <1>7, EndingStep DEF F

(* A case is cut short by a panic.                                         *)
LEMMA AbortSlotsStep ==
  ASSUME setting \in Settings, InRun, NEW t \in Threads, NEW states, AbortSlots(t, states)
  PROVE  InRun'
<1> DEFINE d == Cases(Function(t))[thread[t].case]
           r == EndLine(t, d, states, FALSE, FALSE, {})
           place == At("stopped", 0)
<1>1. /\ thread[t].at = "conditions" /\ states \in CutShort(Decisions[d].tree)
      /\ Write(t, r) /\ Ended(r) /\ UNCHANGED <<setting, next, intact>>
      /\ thread' = [thread EXCEPT ![t] = place]
  BY DEF AbortSlots
<1>2. DOMAIN states = Conditions(Decisions[d].tree)
  BY <1>1 DEF CutShort, Vectors
<1>3. \A H : RanAs(r) \in H.evaluations => ToldEnd(r, H)
  BY <1>1, <1>2, EndLineTold
<1>4. place \in ThreadPlaces /\ place.at = "stopped"
  BY PlacesAre
<1> HIDE DEF r, place
<1> QED BY <1>1, <1>3, <1>4, EndingStep

(* No case was true.                                                       *)
LEMMA NoCaseStep ==
  ASSUME setting \in Settings, InRun, NEW t \in Threads, NoCase(t)
  PROVE  InRun'
<1> DEFINE F == Function(t)
           n == CHOOSE m \in Default(F) : TRUE
           place == IF Default(F) = {} THEN At("stopped", 0) ELSE At("body", n)
<1>1. UNCHANGED <<files, setting, next, happened>> /\ thread' = [thread EXCEPT ![t] = place]
  BY DEF NoCase
<1>2. JournalsInv' /\ ToldInv'
  BY <1>1, TellsSame DEF InRun
<1>3. DOMAIN F \subseteq Nat
  <2>1. F \in Seq(ToSet(F))
    BY ThreadRuns DEF IsRewritten
  <2> QED BY <2>1
<1>4. /\ place \in ThreadPlaces /\ place.at \in {"body", "stopped"}
      /\ place.at = "body" => place.clause \in DOMAIN F
  <2>1. CASE Default(F) = {}
    <3>1. place = At("stopped", 0)
      BY <2>1
    <3> HIDE DEF place
    <3>2. place \in ThreadPlaces /\ place.at = "stopped"
      BY <3>1, PlacesAre
    <3> QED BY <3>2
  <2>2. CASE Default(F) # {}
    <3>1. place = At("body", n)
      BY <2>2
    <3>2. n \in DOMAIN F /\ n \in Nat
      BY <1>3, <2>2 DEF Default
    <3> HIDE DEF place, n
    <3>3. place \in ThreadPlaces /\ place.at = "body" /\ place.clause = n
      BY <3>1, <3>2, PlacesAre
    <3> QED BY <3>2, <3>3
  <2> QED BY <2>1, <2>2
<1>5. next' \in [DOMAIN setting.identity -> Nat \ {0}]
  BY <1>1 DEF InRun, ThreadsInv
<1> HIDE DEF place, F
<1>6. place.at # "case" /\ place.at # "conditions"
  BY <1>4
<1>7. ThreadsInv'
  BY <1>1, <1>4, <1>5, <1>6, GoesOn DEF InRun, ThreadPlaces, F
<1> QED BY <1>2, <1>7 DEF InRun

(* A clause is recorded, as acceptance expects it.                         *)
LEMMA ClauseStep ==
  ASSUME setting \in Settings, InRun, NEW t \in Threads, NEW o, NEW place,
         UNCHANGED <<setting, next>>, IsClauseValid(ProcessOf(t), o), RecordClause(t, o),
         thread' = [thread EXCEPT ![t] = place], place \in ThreadPlaces,
         place.at \in {"body", "stopped"},
         place.at = "body" => place.clause \in DOMAIN Function(t)
  PROVE  InRun'
<1>1. JournalsInv' /\ ToldInv'
  BY WritesClause DEF InRun
<1>2. next' \in [DOMAIN setting.identity -> Nat \ {0}]
  BY DEF InRun, ThreadsInv
<1>3. place.at # "conditions" /\ place.at # "case"
  OBVIOUS
<1>4. ThreadsInv'
  BY <1>2, <1>3, GoesOn DEF InRun, ThreadPlaces
<1> QED BY <1>1, <1>4 DEF InRun

(* What the rewriting has put into the clauses of a switch.                *)
LEMMA ClausesAre ==
  ASSUME setting \in Settings, NEW t \in Threads
  PROVE  LET F == Function(t)
             p == ProcessOf(t)
         IN  /\ DOMAIN F \subseteq Nat /\ 1 \in DOMAIN F
             /\ \A n \in DOMAIN F :
                  /\ F[n].clause \in DOMAIN Clauses /\ F[n].alternatives \in Nat
                  /\ FromHere(p, Clauses[F[n].clause].package)
                  /\ F[n].falls => n + 1 \in DOMAIN F
             /\ ~IsConditionless(F) => IsExpressionSwitch(F, p)
<1>1. IsRewritten(Function(t), ProcessOf(t))
  BY ThreadRuns
<1>2. Function(t) \in Seq(ToSet(Function(t))) /\ Function(t) # <<>>
  BY <1>1 DEF IsRewritten
<1>3. DOMAIN Function(t) \subseteq Nat /\ 1 \in DOMAIN Function(t)
  BY <1>2
<1> QED BY <1>1, <1>3 DEF IsRewritten

(* A body is entered.                                                      *)
LEMMA SelectClauseStep ==
  ASSUME setting \in Settings, InRun, NEW t \in Threads, SelectClause(t)
  PROVE  InRun'
<1> DEFINE F == Function(t)
           n == thread[t].clause
           o == Body(F[n].clause)
           place == IF F[n].falls THEN At("body", n + 1) ELSE At("stopped", 0)
<1>1. /\ thread[t].at = "body" /\ RecordClause(t, o) /\ UNCHANGED <<setting, next, intact>>
      /\ thread' = [thread EXCEPT ![t] = place]
  BY DEF SelectClause
<1>2. n \in DOMAIN F /\ n \in Nat
  BY <1>1 DEF InRun, ThreadsInv, IsPlace, ThreadPlaces
<1>3. /\ F[n].clause \in DOMAIN Clauses
      /\ FromHere(ProcessOf(t), Clauses[F[n].clause].package)
      /\ F[n].falls => n + 1 \in DOMAIN F
  BY <1>2, ClausesAre
<1>4. IsClauseValid(ProcessOf(t), o)
  <2>1. /\ o.event = "body-execution" /\ o.clause = F[n].clause /\ o.alternative = <<>>
        /\ o.switch = Clauses[F[n].clause].switch
    BY DEF Body
  <2> HIDE DEF o
  <2> QED BY <1>3, <2>1 DEF IsClauseValid
<1>5. /\ place \in ThreadPlaces /\ place.at \in {"body", "stopped"}
      /\ place.at = "body" => place.clause \in DOMAIN F
  <2>1. CASE F[n].falls
    <3>1. place = At("body", n + 1) /\ n + 1 \in Nat
      BY <1>2, <2>1
    <3> HIDE DEF place
    <3>2. place \in ThreadPlaces /\ place.at = "body" /\ place.clause = n + 1
      BY <3>1, PlacesAre
    <3> QED BY <1>3, <2>1, <3>2
  <2>2. CASE ~F[n].falls
    <3>1. place = At("stopped", 0)
      BY <2>2
    <3> HIDE DEF place
    <3>2. place \in ThreadPlaces /\ place.at = "stopped"
      BY <3>1, PlacesAre
    <3> QED BY <3>2
  <2> QED BY <2>1, <2>2
<1> HIDE DEF place, o, n, F
<1> QED BY <1>1, <1>4, <1>5, ClauseStep DEF F

(* The compiler's probe of an alternative.                                 *)
LEMMA DirectStep ==
  ASSUME setting \in Settings, InRun, NEW t \in Threads, NEW n \in DOMAIN Function(t),
         NEW i, CompilerDirectClause(t, n, i)
  PROVE  InRun'
<1> DEFINE F == Function(t)
           c == F[n].clause
           a == IF F[n].default THEN <<>> ELSE <<i>>
           o == Direct(c, a)
           place == At("body", n)
<1>1. /\ ~IsConditionless(F) /\ RecordClause(t, o) /\ UNCHANGED <<setting, next, intact>>
      /\ i \in 0..(F[n].alternatives - 1) \/ (i = 0 /\ F[n].default)
      /\ thread' = [thread EXCEPT ![t] = place]
  BY DEF CompilerDirectClause
<1>2. /\ c \in DOMAIN Clauses /\ F[n].alternatives \in Nat /\ n \in Nat
      /\ FromHere(ProcessOf(t), Clauses[c].package)
      /\ IsExpressionSwitch(F, ProcessOf(t))
  BY <1>1, ClausesAre
<1>3. /\ Clauses[c].kind \in {"expression", "type"}
      /\ Clauses[c].alternatives = F[n].alternatives
      /\ F[n].default <=> Clauses[c].role = "default"
  BY <1>2 DEF IsExpressionSwitch
<1>4. IsClauseValid(ProcessOf(t), o)
  <2>1. /\ o.event = "direct-selection" /\ o.clause = c /\ o.alternative = a
        /\ o.switch = Clauses[c].switch
    BY DEF Direct
  <2>2. ValidAlternative(o, Clauses[c])
    <3>1. CASE F[n].default
      BY <1>3, <2>1, <3>1 DEF ValidAlternative
    <3>2. CASE ~F[n].default
      <4>1. a = <<i>> /\ i < F[n].alternatives
        BY <1>1, <1>2, <3>2
      <4> HIDE DEF a, o
      <4>2. a # <<>> /\ a[1] = i
        BY <4>1
      <4> QED BY <1>3, <2>1, <3>2, <4>1, <4>2 DEF ValidAlternative
    <3> QED BY <3>1, <3>2
  <2> HIDE DEF o, c
  <2> QED BY <1>2, <1>3, <2>1, <2>2 DEF IsClauseValid
<1>5. /\ place \in ThreadPlaces /\ place.at = "body" /\ place.clause \in DOMAIN F
  <2>1. n \in DOMAIN F
    OBVIOUS
  <2> HIDE DEF F
  <2> QED BY <1>2, <2>1, PlacesAre
<1> HIDE DEF place, o, F
<1> QED BY <1>1, <1>4, <1>5, ClauseStep DEF F

(* The compiler's probe of a switch that selects nothing.                  *)
LEMMA NoMatchStep ==
  ASSUME setting \in Settings, InRun, NEW t \in Threads, CompilerNoMatch(t)
  PROVE  InRun'
<1> DEFINE F == Function(t)
           s == Clauses[F[1].clause].switch
           o == NoMatch(s)
           place == At("stopped", 0)
<1>1. /\ ~IsConditionless(F) /\ Default(F) = {} /\ RecordClause(t, o)
      /\ UNCHANGED <<setting, next, intact>> /\ thread' = [thread EXCEPT ![t] = place]
  BY DEF CompilerNoMatch
<1>2. s \in DOMAIN NoMatches /\ FromHere(ProcessOf(t), NoMatches[s])
  BY <1>1, ClausesAre DEF IsExpressionSwitch
<1>3. IsClauseValid(ProcessOf(t), o)
  <2>1. o.event = "no-match-selection" /\ o.alternative = <<>> /\ o.switch = s
    BY DEF NoMatch
  <2> HIDE DEF o, s
  <2> QED BY <1>2, <2>1 DEF IsClauseValid
<1>4. place \in ThreadPlaces /\ place.at = "stopped"
  BY PlacesAre
<1> HIDE DEF place, o
<1> QED BY <1>1, <1>3, <1>4, ClauseStep

(* A step of a thread.                                                     *)
LEMMA ProgramKeeps ==
  ASSUME setting \in Settings, InRun, NEW t \in Threads, ProgramStep(t)
  PROVE  InRun' /\ UNCHANGED <<setting, intact>>
<1>1. CASE BeginInto(t)
  BY <1>1, BeginStep DEF BeginInto
<1>2. ASSUME NEW states, NEW result \in BOOLEAN, EndSelect(t, states, result)
      PROVE  InRun' /\ UNCHANGED <<setting, intact>>
  BY <1>2, SelectStep DEF EndSelect
<1>3. ASSUME NEW states, AbortSlots(t, states)
      PROVE  InRun' /\ UNCHANGED <<setting, intact>>
  BY <1>3, AbortSlotsStep DEF AbortSlots
<1>4. CASE NoCase(t)
  BY <1>4, NoCaseStep DEF NoCase
<1>5. ASSUME NEW n \in DOMAIN Function(t), NEW i, CompilerDirectClause(t, n, i)
      PROVE  InRun' /\ UNCHANGED <<setting, intact>>
  BY <1>5, DirectStep DEF CompilerDirectClause
<1>6. CASE CompilerNoMatch(t)
  BY <1>6, NoMatchStep DEF CompilerNoMatch
<1>7. CASE SelectClause(t)
  BY <1>7, SelectClauseStep DEF SelectClause
<1> QED BY <1>1, <1>2, <1>3, <1>4, <1>5, <1>6, <1>7 DEF ProgramStep

(* Initially the journals are empty, as is what happened.                  *)
LEMMA RunStarts == SwitchesInit => RunInv
<1> SUFFICES ASSUME SwitchesInit PROVE RunInv
  OBVIOUS
<1> DEFINE empty == [kind |-> "journal", lines |-> <<>>, torn |-> FALSE]
           I == setting.identity
<1>1. /\ setting \in Settings /\ files = [f \in DOMAIN I |-> empty]
      /\ thread = [t \in DOMAIN setting.calls |-> Idle]
      /\ next = [f \in DOMAIN I |-> 1]
      /\ happened = [evaluations |-> {}, clauses |-> {}]
      /\ phase = "running" /\ file = 1 /\ line = 1 /\ provenance = NoProcess
      /\ collector = Empty
  BY DEF SwitchesInit
<1>2. I \in Seq(DOMAIN Provenance)
  BY <1>1, SettingsAssumption
<1>3. IsJournal(empty) /\ LinesOf(empty) = {}
  <2>1. empty.lines = <<>> /\ ToSet(<<>>) = {}
    BY DEF ToSet
  <2>2. empty = [kind |-> "journal", lines |-> empty.lines, torn |-> FALSE]
    BY <2>1
  <2> HIDE DEF empty
  <2> QED BY <2>1, <2>2 DEF IsJournal, LinesOf
<1> HIDE DEF empty
<1>4. JournalsInv
  <2>1. Len(I) \in Nat /\ DOMAIN I = 1..Len(I)
    BY <1>2
  <2>2. DOMAIN files = DOMAIN I /\ \A f \in DOMAIN I : files[f] = empty
    BY <1>1
  <2>3. files = [f \in 1..Len(I) |-> files[f]] /\ \A f \in 1..Len(I) : files[f] \in ToSet(files)
    BY <1>1, <2>1, <2>2 DEF ToSet
  <2>4. files \in Seq(ToSet(files))
    BY <2>1, <2>3
  <2> QED BY <1>3, <2>2, <2>4 DEF JournalsInv
<1>5. ThreadsInv
  <2>1. next \in [DOMAIN I -> Nat \ {0}]
    BY <1>1
  <2>2. DOMAIN thread = Threads
    BY <1>1 DEF Threads
  <2>3. /\ Idle \in ThreadPlaces
        /\ Idle.at = "case" /\ Idle.case # 0
    BY DEF Idle, ThreadPlaces
  <2>4. ASSUME NEW t \in Threads PROVE IsPlace(t)
    <3>1. thread[t] = Idle
      BY <1>1 DEF Threads
    <3> QED BY <2>3, <3>1 DEF IsPlace
  <2> QED BY <2>1, <2>2, <2>4 DEF ThreadsInv
<1>6. ToldInv
  <2>1. AllLines = {}
    <3>1. \A f \in DOMAIN files : LinesOf(files[f]) = {}
      BY <1>1, <1>3
    <3> QED BY <3>1 DEF AllLines
  <2>2. happened.evaluations = {} /\ happened.clauses = {}
    BY <1>1
  <2> QED BY <1>1, <2>1, <2>2 DEF ToldInv, AllTold
<1> QED BY <1>1, <1>4, <1>5, <1>6 DEF RunInv
-----------------------------------------------------------------------------
(***************************************************************************)
(* The lines of a file that the collector listens to: those of the process *)
(* that it names first.                                                    *)
(***************************************************************************)
IsStray(lines, n) ==
  \/ lines[n].type = "garbled"
  \/ \E m \in FirstReadable(lines) : lines[m].process \notin {NoProcess, lines[n].process}

HeededIn(f) == {f.lines[n] : n \in {m \in DOMAIN f.lines : ~IsStray(f.lines, m)}}

Heeded(directory) ==
  UNION {HeededIn(directory[i]) :
           i \in {j \in DOMAIN directory : directory[j].kind = "journal"}}

HeededLines == Heeded(files)

(* Their process is remembered while a file is read.                       *)
ProvenanceInv ==
  phase = "reading" /\ file <= Len(files) /\ files[file].kind = "journal" =>
    LET lines == files[file].lines
    IN  /\ \A m \in FirstReadable(lines) :
             m < line => lines[m].process \in {NoProcess, provenance}
        /\ (\A m \in DOMAIN lines : m < line => lines[m].type = "garbled")
             => provenance = NoProcess

(* A line that is not answered with a diagnostic is listened to.           *)
LEMMA ListenedTo ==
  ASSUME TypeInv, ProvenanceInv, ReadLine
  PROVE  LET r == files[file].lines[line]
         IN  ConsumeLine(collector, r, provenance) # Diagnostic(collector) => r \in HeededLines
<1> DEFINE r == files[file].lines[line]
           lines == files[file].lines
<1>1. /\ file \in DOMAIN files /\ files[file].kind = "journal" /\ phase = "reading"
      /\ file <= Len(files) /\ line \in DOMAIN lines
      /\ Len(lines) \in Nat /\ DOMAIN lines = 1..Len(lines)
  BY DirectoryType DEF TypeInv, ReadLine, Reading, Current
<1>2. ASSUME r.type # "garbled", provenance = NoProcess \/ provenance = r.process
      PROVE  r \in HeededLines
  <2>1. ~IsStray(lines, line)
    <3>1. ASSUME NEW m \in FirstReadable(lines)
          PROVE  lines[m].process \in {NoProcess, r.process}
      <4>1. m \in DOMAIN lines /\ m <= line
        BY <1>1, <1>2 DEF FirstReadable
      <4>2. m < line => lines[m].process \in {NoProcess, provenance}
        BY <1>1, <3>1 DEF ProvenanceInv
      <4> QED BY <1>1, <1>2, <4>1, <4>2
    <3> QED BY <1>2, <3>1 DEF IsStray
  <2>2. r \in HeededIn(files[file])
    BY <1>1, <2>1 DEF HeededIn
  <2> QED BY <1>1, <2>2 DEF HeededLines, Heeded
<1> QED BY <1>2 DEF ConsumeLine

(* What is listened to is what the files say.                              *)
LEMMA HeededAreLines == HeededLines \subseteq AllLines
BY DEF HeededLines, Heeded, HeededIn, AllLines, LinesOf, ToSet

(* The process is remembered line by line, and forgotten with the file.    *)
LEMMA ProvenanceStep == CInv /\ ProvenanceInv /\ [Next]_vars => ProvenanceInv'
<1> SUFFICES ASSUME CInv, ProvenanceInv, [Next]_vars PROVE ProvenanceInv'
  OBVIOUS
<1>1. TypeInv
  BY DEF CInv
<1>2. CASE SkipArtifact \/ SkipStranger \/ EndOfFile
  <2>1. file' = file + 1 /\ line' = 1 /\ provenance' = NoProcess /\ UNCHANGED files
        /\ file <= Len(files)
    BY <1>2, LeavesFile DEF NextFile
  <2>2. ASSUME file' <= Len(files), NEW m \in DOMAIN files[file'].lines
        PROVE  ~(m < 1)
    <3>1. file' \in DOMAIN files
      BY <1>1, <2>1, <2>2, DirectoryType DEF TypeInv
    <3> QED BY <1>1, <2>2, <3>1, DirectoryType DEF TypeInv
  <2> QED BY <2>1, <2>2 DEF ProvenanceInv, FirstReadable
<1>3. CASE ReadLine
  <2> DEFINE r == files[file].lines[line]
             lines == files[file].lines
  <2>1. /\ file \in DOMAIN files /\ files[file].kind = "journal" /\ phase = "reading"
        /\ file <= Len(files) /\ line \in DOMAIN lines /\ UNCHANGED <<files, file>>
        /\ Len(lines) \in Nat /\ DOMAIN lines = 1..Len(lines)
        /\ line' = line + 1 /\ provenance' = ProvenanceAfter(r, provenance)
    BY <1>1, <1>3, DirectoryType DEF TypeInv, ReadLine, Reading, Current
  <2>2. /\ \A m \in FirstReadable(lines) :
             m < line => lines[m].process \in {NoProcess, provenance}
        /\ (\A m \in DOMAIN lines : m < line => lines[m].type = "garbled")
             => provenance = NoProcess
    BY <2>1 DEF ProvenanceInv
  <2>3. ASSUME NEW m \in FirstReadable(lines), m < line + 1
        PROVE  lines[m].process \in {NoProcess, provenance'}
    <3>1. m \in DOMAIN lines /\ lines[m].type # "garbled"
          /\ \A k \in DOMAIN lines : k < m => lines[k].type = "garbled"
      BY DEF FirstReadable
    <3>2. CASE m = line
      BY <2>1, <2>2, <3>1, <3>2 DEF ProvenanceAfter
    <3>3. CASE m < line
      BY <2>1, <2>2, <3>3 DEF ProvenanceAfter
    <3> QED BY <2>1, <2>3, <3>1, <3>2, <3>3
  <2>4. ASSUME \A m \in DOMAIN lines : m < line + 1 => lines[m].type = "garbled"
        PROVE  provenance' = NoProcess
    <3>1. r.type = "garbled" /\ \A m \in DOMAIN lines : m < line => lines[m].type = "garbled"
      BY <2>1, <2>4
    <3> QED BY <2>1, <2>2, <3>1 DEF ProvenanceAfter
  <2> QED BY <2>1, <2>3, <2>4 DEF ProvenanceInv
<1>4. CASE EndOfDirectory \/ Return \/ Cancel \/ \E b \in collector.begun : FinishAborted(b)
  <2>1. phase' # "reading"
    BY <1>4 DEF EndOfDirectory, Return, Cancel, FinishAborted
  <2> QED BY <2>1 DEF ProvenanceInv
<1>5. CASE UNCHANGED vars
  BY <1>5 DEF vars, ProvenanceInv
<1> QED BY <1>2, <1>3, <1>4, <1>5 DEF Next
-----------------------------------------------------------------------------
(***************************************************************************)
(* What is collected of the lines S comes from lines T that the collector  *)
(* listens to, and without a diagnostic every line of S was understood,    *)
(* what it skips is collected, and no evaluation has ended twice.          *)
(***************************************************************************)
Readable == {"begin", "terminal", "evaluation", "clause"}

IsClear(r) ==
  /\ r.type \in Readable
  /\ r.type = "clause" => NamesClause(r)
  /\ IsEnd(r) => IsConsistent(r)

Clean(c, S, T) ==
  /\ S \subseteq T
  /\ \A r \in S : IsClear(r) /\ (IsEnd(r) => SkipsBy(r) \subseteq c.skipped)
  /\ \A q, r \in S : IsEnd(q) /\ IsEnd(r) /\ Identity(q) = Identity(r) => q = r

Heard(c, S, T) ==
  /\ c.begun \subseteq T
  /\ \A v \in Found(c) : \/ \E r \in T : IsEnd(r) /\ v = EvaluationOf(r)
                         \/ \E b \in T : b.type = "begin" /\ v = AbortedOf(b)
  /\ \A s \in c.skipped : \E r \in T : IsEnd(r) /\ s \in SkipsBy(r)
  /\ \A x \in c.clauses : \E r \in T :
       /\ r.type = "clause" /\ NamesClause(r)
       /\ x = [process |-> r.process, clause |-> r.clause]
  /\ ~c.integrity => Clean(c, S, T)

(* An interruption or a diagnostic takes nothing away.                     *)
LEMMA MarkedHeard ==
  ASSUME NEW L, NEW c \in Collections(L), NEW S, NEW T, Heard(c, S, T),
         NEW d \in {c, Diagnostic(c), Interruption(c)}
  PROVE  Heard(d, S, T)
<1>1. /\ d.begun = c.begun /\ d.skipped = c.skipped /\ d.clauses = c.clauses
      /\ Found(d) = Found(c) /\ (c.integrity => d.integrity)
  BY DEF Diagnostic, Interruption, Collections, Found
<1> QED BY <1>1 DEF Heard, Clean

(* A line is heard.                                                        *)
LEMMA LineHeard ==
  ASSUME NEW L, NEW c \in Collections(L), NEW r \in L, NEW p, NEW S \in SUBSET L, NEW T,
         Good(c, S), Heard(c, S, T), ConsumeLine(c, r, p) # Diagnostic(c) => r \in T
  PROVE  Heard(ConsumeLine(c, r, p), S \cup {r}, T)
<1> DEFINE d == ConsumeLine(c, r, p)
<1>1. d = Diagnostic(c) \/ Opens(c, r, d) \/ Closes(c, r, d) \/ Names(c, r, d)
  BY LineIsOne
<1>2. d # Diagnostic(c) => r \in T
  OBVIOUS
<1> HIDE DEF d
<1>3. CASE d = Diagnostic(c)
  <2>1. /\ d.begun = c.begun /\ d.skipped = c.skipped /\ d.clauses = c.clauses
        /\ Found(d) = Found(c) /\ d.integrity
    BY <1>3 DEF Diagnostic, Collections, Found
  <2> QED BY <2>1 DEF Heard, d
<1>4. CASE Opens(c, r, d) /\ d # Diagnostic(c)
  <2>1. /\ d.begun = c.begun \cup {r} /\ d.skipped = c.skipped /\ d.clauses = c.clauses
        /\ Found(d) = Found(c) /\ d.integrity = c.integrity /\ r.type = "begin"
    BY <1>4 DEF Opens, Collections, Found
  <2>2. r \in T /\ ~IsEnd(r) /\ IsClear(r)
    BY <1>2, <1>4, <2>1 DEF IsEnd, IsClear, Readable
  <2>3. Clean(c, S, T) => Clean(d, S \cup {r}, T)
    BY <2>1, <2>2 DEF Clean
  <2> QED BY <2>1, <2>2, <2>3 DEF Heard, d
<1>5. CASE Names(c, r, d) /\ d # Diagnostic(c)
  <2>1. /\ d.begun = c.begun /\ d.skipped = c.skipped /\ Found(d) = Found(c)
        /\ r.type = "clause" /\ NamesClause(r) /\ d.integrity = c.integrity
        /\ d.clauses = c.clauses \cup {[process |-> r.process, clause |-> r.clause]}
    BY <1>5 DEF Names, Collections, Found
  <2>2. r \in T /\ ~IsEnd(r) /\ IsClear(r)
    BY <1>2, <1>5, <2>1 DEF IsEnd, IsClear, Readable
  <2>3. Clean(c, S, T) => Clean(d, S \cup {r}, T)
    BY <2>1, <2>2 DEF Clean
  <2> QED BY <2>1, <2>2, <2>3 DEF Heard, d
<1>6. CASE Closes(c, r, d) /\ d # Diagnostic(c)
  <2>1. /\ d.skipped = c.skipped \cup SkipsBy(r) /\ d.clauses = c.clauses
        /\ d.evaluations = Append(c.evaluations, EvaluationOf(r))
        /\ c.integrity \/ ~IsConsistent(r) => d.integrity
        /\ d.begun \subseteq c.begun
    BY <1>6, ClosesType
  <2>2. IsEnd(r) /\ r.type \in Readable /\ r \in T /\ r.type # "clause"
        /\ Identity(r) \notin c.finished
    BY <1>2, <1>6 DEF Closes, IsEnd, Readable
  <2>3. Found(d) = Found(c) \cup {EvaluationOf(r)}
    <3>1. c.evaluations \in Seq(EvaluationsOf(L))
      BY DEF Collections
    <3> QED BY <2>1, <3>1, FoundAppend DEF Found
  <2>4. \A s \in d.skipped : \E q \in T : IsEnd(q) /\ s \in SkipsBy(q)
    BY <2>1, <2>2 DEF Heard
  <2>5. ASSUME ~d.integrity PROVE Clean(d, S \cup {r}, T)
    <3>1. ~c.integrity /\ IsConsistent(r)
      BY <2>1, <2>5
    <3>2. Clean(c, S, T) /\ Full(c, S) /\ Sound(c, S)
      BY <3>1 DEF Heard, Good
    <3>3. \A q \in S : IsEnd(q) => Identity(q) # Identity(r)
      <4>1. ASSUME NEW q \in S, IsEnd(q) PROVE Identity(q) \in c.finished
        <5>1. EvaluationOf(q) \in Found(c) /\ EvaluationOf(q).identity = Identity(q)
          BY <3>2, <4>1 DEF Full, EvaluationOf
        <5> QED BY <3>2, <5>1 DEF Sound
      <4> QED BY <2>2, <4>1
    <3>4. \A q \in S \cup {r} : IsClear(q) /\ (IsEnd(q) => SkipsBy(q) \subseteq d.skipped)
      BY <2>1, <2>2, <3>1, <3>2 DEF Clean, IsClear
    <3> QED BY <2>2, <3>2, <3>3, <3>4 DEF Clean
  <2>6. \A v \in Found(d) : \/ \E q \in T : IsEnd(q) /\ v = EvaluationOf(q)
                            \/ \E b \in T : b.type = "begin" /\ v = AbortedOf(b)
    BY <2>2, <2>3 DEF Heard
  <2> QED BY <2>1, <2>4, <2>5, <2>6 DEF Heard, d
<1> QED BY <1>1, <1>3, <1>4, <1>5, <1>6

HInv ==
  /\ ProvenanceInv
  /\ phase = "reading" => Heard(collector, SeenLines, HeededLines)
  /\ phase \in {"aborting", "collected"} => Heard(collector, AllLines, HeededLines)

(* All that is read is heard, and remembered to the end.                   *)
LEMMA HStep == CInv /\ HInv /\ [Next]_vars => HInv'
<1> SUFFICES ASSUME CInv, HInv, [Next]_vars PROVE HInv'
  OBVIOUS
<1>1. TypeInv /\ collector \in Collections(AllLines)
  BY DEF CInv, TypeInv
<1>2. ProvenanceInv'
  BY ProvenanceStep DEF HInv
<1>3. CASE SkipArtifact \/ SkipStranger \/ EndOfFile
  <2>1. /\ phase = "reading" /\ phase' = "reading" /\ file <= Len(files)
        /\ NextFile /\ UNCHANGED files
        /\ files[file].kind = "journal" => line > Len(files[file].lines)
        /\ collector' \in {collector, Diagnostic(collector), Interruption(collector)}
    BY <1>3, LeavesFile
  <2>2. SeenLines' = SeenLines /\ HeededLines' = HeededLines
    BY <1>1, <2>1, NextFileReads DEF HeededLines
  <2>3. Heard(collector', SeenLines, HeededLines)
    BY <1>1, <2>1, MarkedHeard DEF HInv
  <2> QED BY <1>2, <2>1, <2>2, <2>3 DEF HInv
<1>4. CASE ReadLine
  <2> DEFINE r == files[file].lines[line]
  <2>1. /\ phase = "reading" /\ phase' = "reading" /\ UNCHANGED files
        /\ collector' = ConsumeLine(collector, r, provenance)
    BY <1>4 DEF ReadLine, Reading, Current
  <2>2. r \in AllLines /\ SeenLines' = SeenLines \cup {r}
    BY <1>1, <1>4, ReadLineReads
  <2>3. ConsumeLine(collector, r, provenance) # Diagnostic(collector) => r \in HeededLines
    BY <1>1, <1>4, ListenedTo DEF HInv
  <2>4. SeenLines \in SUBSET AllLines /\ HeededLines' = HeededLines
    <3>1. \A i \in DOMAIN files : ReadOf(i) \subseteq LinesOf(files[i])
      <4>1. ASSUME NEW i \in DOMAIN files, i = file, files[i].kind = "journal"
            PROVE  {files[i].lines[k] : k \in 1..(line - 1)} \subseteq LinesOf(files[i])
        BY <1>1, <1>4, <4>1, DirectoryType DEF TypeInv, ReadLine, Current
      <4> QED BY <4>1 DEF ReadOf
    <3> QED BY <2>1, <3>1 DEF SeenLines, AllLines, HeededLines
  <2>5. Good(collector, SeenLines) /\ Heard(collector, SeenLines, HeededLines)
    BY <2>1 DEF CInv, ReadInv, HInv
  <2> HIDE DEF r
  <2>6. Heard(collector', SeenLines \cup {r}, HeededLines)
    BY <1>1, <2>1, <2>2, <2>3, <2>4, <2>5, LineHeard
  <2> QED BY <1>2, <2>1, <2>2, <2>4, <2>6 DEF HInv
<1>5. CASE EndOfDirectory
  <2>1. /\ phase = "reading" /\ phase' = "aborting" /\ UNCHANGED <<files, collector>>
        /\ SeenLines = AllLines
    BY <1>1, <1>5, AllIsSeen DEF EndOfDirectory, TypeInv
  <2>2. AllLines' = AllLines /\ HeededLines' = HeededLines
    BY <2>1 DEF AllLines, HeededLines
  <2> QED BY <1>2, <2>1, <2>2 DEF HInv
<1>6. ASSUME NEW b \in collector.begun, FinishAborted(b) PROVE HInv'
  <2>1. /\ phase = "aborting" /\ phase' = "aborting" /\ UNCHANGED files
    BY <1>6 DEF FinishAborted
  <2>2. /\ collector'.evaluations = Append(collector.evaluations, AbortedOf(b))
        /\ collector'.begun = collector.begun \ {b}
        /\ collector'.clauses = collector.clauses /\ collector'.skipped = collector.skipped
        /\ collector'.integrity = collector.integrity
    BY <1>1, <1>6, FinishType
  <2>3. Found(collector') = Found(collector) \cup {AbortedOf(b)}
    <3>1. collector.evaluations \in Seq(EvaluationsOf(AllLines))
      BY <1>1 DEF Collections
    <3> QED BY <2>2, <3>1, FoundAppend DEF Found
  <2>4. AllLines' = AllLines /\ HeededLines' = HeededLines
    BY <2>1 DEF AllLines, HeededLines
  <2>5. b \in HeededLines /\ b.type = "begin"
    BY <2>1 DEF HInv, Heard, CInv, AbortInv, OpenInv, Begins
  <2>6. Heard(collector', AllLines, HeededLines)
    BY <2>1, <2>2, <2>3, <2>5 DEF HInv, Heard, Clean
  <2> QED BY <1>2, <2>1, <2>4, <2>6 DEF HInv
<1>7. CASE Return
  <2>1. AllLines' = AllLines /\ HeededLines' = HeededLines
    BY <1>7 DEF AllLines, HeededLines, Return
  <2> QED BY <1>2, <1>7, <2>1 DEF HInv, Return
<1>8. CASE Cancel
  BY <1>2, <1>8 DEF Cancel, HInv
<1>9. CASE UNCHANGED vars
  <2>1. SeenLines' = SeenLines /\ AllLines' = AllLines /\ HeededLines' = HeededLines
    BY <1>9 DEF vars, SeenLines, ReadOf, AllLines, LinesOf, HeededLines
  <2> QED BY <1>2, <1>9, <2>1 DEF HInv, vars
<1> QED BY <1>3, <1>4, <1>5, <1>6, <1>7, <1>8, <1>9 DEF Next
-----------------------------------------------------------------------------
(***************************************************************************)
(* What may be found of a run.  A record that the collector listens to was *)
(* written, as it is or as a compaction keeps it; or it was not, but is    *)
(* none that acceptance could take for one of the measured sources; or it  *)
(* is the end of an evaluation with other skipped decisions.  Of the       *)
(* begins nothing is asked.                                                *)
(***************************************************************************)
Records(directory) == UNION {LinesOf(directory[i]) : i \in DOMAIN directory}

IsCompaction(r, q) == q.type = "terminal" /\ r = [q EXCEPT !.type = "evaluation"]

IsKept(q, found) == q \in found \/ \E r \in found : IsCompaction(r, q)

IsRefusedEnd(r) == IsEnd(r) /\ ~IsValid(EvaluationOf(r))

IsRefusedClause(r) ==
  r.type = "clause" /\ ~(NamesClause(r) /\ IsClauseValid(r.process, r.clause))

IsReskipped(r, q) ==
  IsEnd(r) /\ IsEnd(q) /\ r = [q EXCEPT !.skips = r.skips] /\ r.skips # q.skips

IsWritten(r, left) == r \in left \/ \E q \in left : IsCompaction(r, q)

OnlyWritten(left, found) ==
  /\ IsDirectory(found)
  /\ \A r \in Heeded(found) : IsEnd(r) \/ r.type = "clause" =>
       \/ IsWritten(r, Records(left))
       \/ IsRefusedEnd(r) \/ IsRefusedClause(r)
       \/ \E q \in Records(left) : IsReskipped(r, q)

(***************************************************************************)
(* A loss shows.  Where an end or a clause of a producer is missing, there *)
(* is something that the collector calls damage, or a record of the        *)
(* producer that acceptance has to refuse.                                 *)
(***************************************************************************)
Producers == {"ast", "compiler"}

IsDamaged(found) == \E r \in Records(found) : r \notin Heeded(found) \/ ~IsClear(r)

IsCharged(r, producer, left) ==
  \/ producer = "ast" /\ (IsRefusedEnd(r) \/ \E q \in left : IsReskipped(r, q))
  \/ IsRefusedClause(r) /\ Producer(r.clause.event) = producer

IsOfProducer(q, producer) ==
  \/ producer = "ast" /\ IsEnd(q)
  \/ q.type = "clause" /\ Producer(q.clause.event) = producer

LossShows(left, found) ==
  IsDamaged(found) \/ \A producer \in Producers :
    \/ \E r \in Records(found) : IsCharged(r, producer, Records(left))
    \/ \A q \in Records(left) : IsOfProducer(q, producer) => IsKept(q, Records(found))

AllWritten(left, found) ==
  \A r \in Records(found) : r.type \in Readable => IsWritten(r, Records(left))

(* The records of the directory that is read.                              *)
LEMMA RecordsAre == Records(files) = AllLines
BY DEF Records, AllLines

(* A compaction tells the same.                                            *)
LEMMA CompactionTells ==
  ASSUME NEW H, NEW q, Told(q, H), NEW r, IsCompaction(r, q)
  PROVE  ToldEnd(r, H) /\ IsEnd(r) /\ RanAs(r) = RanAs(q)
<1>1. q.type = "terminal" /\ r = [q EXCEPT !.type = "evaluation"]
  BY DEF IsCompaction
<1>2. ToldEnd(q, H)
  BY <1>1 DEF Told, ToldBegin, ToldClause
<1> DEFINE c == q.completed
           s == q.selects
           R(type) == [type |-> type, process |-> q.process, id |-> q.id,
                       decision |-> q.decision, count |-> q.count, data |-> q.data,
                       completed |-> c, selects |-> s, skips |-> q.skips]
<1>3. q = R(q.type) /\ q.id # 0
  BY <1>2 DEF ToldEnd
<1> HIDE DEF c, s
<1>4. r = R("evaluation")
  BY <1>1, <1>3
<1>5. /\ r.type = "evaluation" /\ r.process = q.process /\ r.id = q.id
      /\ r.decision = q.decision /\ r.count = q.count /\ r.data = q.data
      /\ r.completed = c /\ r.selects = s /\ r.skips = q.skips
  BY <1>4
<1>6. r = R(r.type)
  BY <1>4, <1>5
<1>7. RanAs(r) = RanAs(q)
  BY <1>5 DEF RanAs, Identity, c
<1>8. IsEnd(r)
  BY <1>5 DEF IsEnd
<1>9. r = [type |-> r.type, process |-> r.process, id |-> r.id, decision |-> r.decision,
           count |-> r.count, data |-> r.data, completed |-> r.completed,
           selects |-> r.selects, skips |-> r.skips]
  BY <1>5, <1>6
<1>10. r.completed = q.completed /\ r.selects = q.selects
  BY <1>5 DEF c, s
<1> HIDE DEF R
<1>11. ToldEnd(r, H)
  BY <1>2, <1>3, <1>5, <1>7, <1>8, <1>9, <1>10 DEF ToldEnd
<1> QED BY <1>7, <1>8, <1>11

(* What was written of what was told is told.                              *)
LEMMA WrittenTells ==
  ASSUME NEW H, NEW left, \A q \in left : Told(q, H), NEW r, IsWritten(r, left)
  PROVE  Told(r, H)
BY CompactionTells DEF IsWritten, Told
-----------------------------------------------------------------------------
(***************************************************************************)
(* What is found after a run, of what happened.                            *)
(***************************************************************************)
IsAltered(r) == \E q : ToldEnd(q, happened) /\ IsReskipped(r, q)

FoundInv ==
  \A r \in HeededLines : IsEnd(r) \/ r.type = "clause" =>
    \/ Told(r, happened)
    \/ IsRefusedEnd(r) \/ IsRefusedClause(r) \/ IsAltered(r)

ChargedTo(producer) ==
  \E r \in AllLines :
    \/ producer = "ast" /\ (IsRefusedEnd(r) \/ IsAltered(r))
    \/ IsRefusedClause(r) /\ Producer(r.clause.event) = producer

ReportedBy(producer) ==
  /\ producer = "ast" =>
       \A e \in happened.evaluations : \E r \in AllLines : IsEnd(r) /\ RanAs(r) = e
  /\ \A o \in OfProducer(happened.clauses, producer) :
       \E r \in AllLines : r.type = "clause" /\ r.clause = o

ExactInv ==
  IsDamaged(files) \/ \A producer \in Producers : ChargedTo(producer) \/ ReportedBy(producer)

WrittenInv == intact => \A r \in AllLines : r.type \in Readable => Told(r, happened)

(* What is kept of the end of an evaluation, or of a clause, reports it.   *)
LEMMA KeptReports ==
  ASSUME ToldInv, NEW S, NEW producer \in Producers,
         \A q \in AllLines : IsOfProducer(q, producer) => IsKept(q, S)
  PROVE  /\ producer = "ast" =>
              \A e \in happened.evaluations : \E r \in S : IsEnd(r) /\ RanAs(r) = e
         /\ \A o \in OfProducer(happened.clauses, producer) :
              \E r \in S : r.type = "clause" /\ r.clause = o
<1>1. AllTold(AllLines, happened) /\ \A q \in AllLines : Told(q, happened)
  BY DEF ToldInv
<1>2. ASSUME producer = "ast", NEW e \in happened.evaluations
      PROVE  \E r \in S : IsEnd(r) /\ RanAs(r) = e
  <2>1. PICK q \in AllLines : IsEnd(q) /\ RanAs(q) = e
    BY <1>1 DEF AllTold
  <2>2. IsKept(q, S)
    BY <1>2, <2>1 DEF IsOfProducer
  <2>3. CASE \E r \in S : IsCompaction(r, q)
    BY <1>1, <2>1, <2>3, CompactionTells
  <2> QED BY <2>1, <2>2, <2>3 DEF IsKept
<1>3. ASSUME NEW o \in OfProducer(happened.clauses, producer)
      PROVE  \E r \in S : r.type = "clause" /\ r.clause = o
  <2>1. PICK q \in AllLines : q.type = "clause" /\ q.clause = o
    BY <1>1 DEF AllTold, OfProducer
  <2>2. IsKept(q, S)
    BY <2>1 DEF IsOfProducer, OfProducer
  <2> QED BY <2>1, <2>2 DEF IsKept, IsCompaction
<1> QED BY <1>2, <1>3

(* The end of a run.                                                       *)
LEMMA FoundAfterRun ==
  ASSUME InRun, UNCHANGED happened, NEW found, files' = found.files, intact' = found.intact,
         OnlyWritten(files, found.files)
  PROVE  /\ FoundInv'
         /\ LossShows(files, found.files) => ExactInv'
         /\ (found.intact => AllWritten(files, found.files)) => WrittenInv'
<1>1. /\ AllLines' = Records(found.files) /\ Records(files) = AllLines
      /\ HeededLines' = Heeded(found.files)
  BY DEF AllLines, Records, HeededLines
<1>2. /\ \A q \in AllLines : Told(q, happened)
      /\ ToldInv
  BY DEF InRun, ToldInv
<1>3. \A r, q : q \in AllLines /\ IsReskipped(r, q) => ToldEnd(q, happened)
  BY <1>2 DEF IsReskipped, Told, ToldBegin, ToldClause, IsEnd
<1>4. ASSUME NEW r \in HeededLines', IsEnd(r) \/ r.type = "clause"
      PROVE  \/ Told(r, happened)
             \/ IsRefusedEnd(r) \/ IsRefusedClause(r)
             \/ \E q : ToldEnd(q, happened) /\ IsReskipped(r, q)
  <2>1. CASE IsWritten(r, AllLines)
    BY <1>2, <2>1, WrittenTells
  <2> QED BY <1>1, <1>3, <1>4, <2>1 DEF OnlyWritten
<1>5. FoundInv'
  BY <1>4 DEF FoundInv, IsAltered, IsRefusedEnd, IsRefusedClause, IsReskipped
<1>6. ASSUME LossShows(files, found.files) PROVE ExactInv'
  <2>1. IsDamaged(found.files) <=> IsDamaged(files)'
    BY DEF IsDamaged
  <2>2. ASSUME NEW producer \in Producers, ~IsDamaged(found.files)
        PROVE  ChargedTo(producer)' \/ ReportedBy(producer)'
    <3>1. CASE \E r \in Records(found.files) : IsCharged(r, producer, AllLines)
      BY <1>1, <1>3, <3>1 DEF IsCharged, ChargedTo, IsAltered
    <3>2. CASE \A q \in AllLines : IsOfProducer(q, producer) => IsKept(q, Records(found.files))
      BY <1>1, <1>2, <3>2, KeptReports DEF ReportedBy
    <3> QED BY <1>1, <1>6, <2>2, <3>1, <3>2 DEF LossShows
  <2> QED BY <2>1, <2>2 DEF ExactInv
<1>7. ASSUME found.intact => AllWritten(files, found.files) PROVE WrittenInv'
  BY <1>1, <1>2, <1>7, WrittenTells DEF WrittenInv, AllWritten
<1> QED BY <1>5, <1>6, <1>7
-----------------------------------------------------------------------------
(* An evaluation that ended as the journal tells is valid.                 *)
LEMMA EndIsValid ==
  ASSUME NEW r, NEW H, ToldEnd(r, H)
  PROVE  /\ IsValid(EvaluationOf(r)) /\ Selects(EvaluationOf(r)) = r.selects
         /\ EvaluationOf(r).identity = Identity(r) /\ Key(EvaluationOf(r)) = Key(RanAs(r))
         /\ SkipsBy(r) = {[decision |-> d, cause |-> Identity(r)] : d \in r.skips}
         /\ r.skips = IF r.selects THEN Suffix(r.decision) ELSE {}
<1> DEFINE v == EvaluationOf(r)
<1>1. /\ v.identity = Identity(r) /\ v.decision = r.decision /\ v.data = r.data
      /\ v.completed = r.completed
      /\ v.identity.id = r.id /\ v.identity.process = r.process
  BY DEF EvaluationOf, Identity
<1> HIDE DEF v
<1>2. /\ r.id # 0 /\ r.decision \in Known(r.process)
      /\ DOMAIN r.data.states = Conditions(Decisions[r.decision].tree)
      /\ r.completed => Possible(r.decision, r.data)
      /\ r.completed \in BOOLEAN /\ r.data.result \in BOOLEAN
      /\ r.selects = (r.completed /\ r.data.result)
      /\ r.skips = IF r.completed /\ r.data.result THEN Suffix(r.decision) ELSE {}
      /\ Suffix(r.decision) \in SUBSET (Known(r.process) \ {r.decision})
  BY DEF ToldEnd
<1>3. IsValid(v)
  BY <1>1, <1>2 DEF IsValid, Known
<1>4. Selects(v) = r.selects
  BY <1>1, <1>2 DEF Selects
<1>5. Key(v) = Key(RanAs(r))
  BY <1>1 DEF Key, RanAs, Identity
<1>6. r.skips \ {r.decision} = r.skips /\ (~r.selects => r.skips = {})
  BY <1>2
<1>7. SkipsBy(r) = {[decision |-> d, cause |-> Identity(r)] : d \in r.skips}
  BY <1>6 DEF SkipsBy
<1>8. r.skips = IF r.selects THEN Suffix(r.decision) ELSE {}
  BY <1>2
<1> QED BY <1>1, <1>3, <1>4, <1>5, <1>7, <1>8 DEF v

(* What only the skipped decisions distinguish is one evaluation.          *)
LEMMA ReskippedIs ==
  ASSUME NEW H, NEW q, ToldEnd(q, H), NEW r, IsReskipped(r, q)
  PROVE  /\ IsEnd(r) /\ EvaluationOf(r) = EvaluationOf(q) /\ Identity(r) = Identity(q)
         /\ r.decision = q.decision /\ r.selects = q.selects
<1> DEFINE c == q.completed
           s == q.selects
           R(skips) == [type |-> q.type, process |-> q.process, id |-> q.id,
                        decision |-> q.decision, count |-> q.count, data |-> q.data,
                        completed |-> c, selects |-> s, skips |-> skips]
<1>1. q = R(q.skips)
  BY DEF ToldEnd
<1>2. r = [q EXCEPT !.skips = r.skips]
  BY DEF IsReskipped
<1> HIDE DEF c, s
<1>3. r = R(r.skips)
  BY <1>1, <1>2
<1>4. /\ r.type = q.type /\ r.process = q.process /\ r.id = q.id
      /\ r.decision = q.decision /\ r.data = q.data /\ r.completed = c /\ r.selects = s
  BY <1>3
<1>5. IsEnd(r)
  BY <1>4 DEF IsReskipped, IsEnd
<1> QED BY <1>4, <1>5 DEF EvaluationOf, Identity, c, s
-----------------------------------------------------------------------------
(***************************************************************************)
(* What a result says happened: AcceptedHappened of a result a.            *)
(***************************************************************************)
Happened(a) ==
  /\ \A e \in a.evaluations :
       \/ e \in RanKeys
       \/ ~e.completed /\ \E b \in Begins : Key(AbortedOf(b)) = e
  /\ \A s \in a.skipped : \E e \in happened.evaluations :
       /\ e.identity = s.cause /\ s.decision \in e.skips
       /\ {[decision |-> d, cause |-> s.cause] : d \in e.skips} \subseteq a.skipped
  /\ a.clauses \subseteq happened.clauses

(* A valid evaluation that ended is one that ran, though its record may    *)
(* have been given other skipped decisions.                                *)
LEMMA ValidRan ==
  ASSUME CInv, HInv, FoundInv, phase = "collected", NEW v \in Valid(collector)
  PROVE  \/ \E b \in Begins : v = AbortedOf(b)
         \/ \E q : ToldEnd(q, happened) /\ v = EvaluationOf(q)
<1>1. v \in Found(collector) /\ IsValid(v)
  BY DEF Valid, Found
<1>2. CASE \E r \in HeededLines : IsEnd(r) /\ v = EvaluationOf(r)
  <2>1. PICK r \in HeededLines : IsEnd(r) /\ v = EvaluationOf(r)
    BY <1>2
  <2>2. ~IsRefusedEnd(r) /\ ~IsRefusedClause(r)
    BY <1>1, <2>1 DEF IsRefusedEnd, IsRefusedClause, IsEnd
  <2>3. CASE Told(r, happened)
    BY <2>1, <2>3 DEF Told, ToldBegin, ToldClause, IsEnd
  <2>4. CASE IsAltered(r)
    BY <2>1, <2>4, ReskippedIs DEF IsAltered
  <2> QED BY <2>1, <2>2, <2>3, <2>4 DEF FoundInv
<1>3. CASE \E b \in HeededLines : b.type = "begin" /\ v = AbortedOf(b)
  BY <1>3, HeededAreLines DEF Begins
<1> QED BY <1>1, <1>2, <1>3 DEF HInv, Heard

(* A case of a whole suffix that is accepted did skip it.                  *)
LEMMA AcceptedSkips ==
  ASSUME CInv, HInv, FoundInv, phase = "collected", NEW P,
         NEW s \in Accepted(P, collector).skipped
  PROVE  \E e \in happened.evaluations :
           /\ e.identity = s.cause /\ s.decision \in e.skips
           /\ {[decision |-> d, cause |-> s.cause] : d \in e.skips}
                \subseteq Accepted(P, collector).skipped
<1> DEFINE c == collector
           A == UNION {SkippedBy(c, x) : x \in {y \in Valid(c) : Selects(y) /\ IsWhole(c, y)}}
<1>1. Accepted(P, collector).skipped = A
  BY DEF Accepted
<1>2. PICK v \in Valid(c) : Selects(v) /\ IsWhole(c, v) /\ s \in SkippedBy(c, v)
  BY <1>1
<1>3. PICK q : ToldEnd(q, happened) /\ v = EvaluationOf(q)
  <2>1. \A b : ~AbortedOf(b).completed
    BY DEF AbortedOf
  <2> QED BY <1>2, <2>1, ValidRan DEF Selects
<1>4. /\ Selects(v) = q.selects /\ v.identity = Identity(q)
      /\ q.skips = IF q.selects THEN Suffix(q.decision) ELSE {}
  BY <1>3, EndIsValid
<1>5. q.skips = Suffix(q.decision) /\ v.decision = q.decision
  BY <1>2, <1>3, <1>4 DEF EvaluationOf
<1>6. {x.decision : x \in SkippedBy(c, v)} = q.skips
  BY <1>2, <1>5 DEF IsWhole
<1>7. \A x \in SkippedBy(c, v) : x.cause = Identity(q) /\ x = [decision |-> x.decision,
                                                               cause |-> x.cause]
  <2>1. ASSUME NEW x \in SkippedBy(c, v) PROVE x = [decision |-> x.decision, cause |-> x.cause]
    <3>1. x \in c.skipped
      BY DEF SkippedBy
    <3>2. PICK r \in HeededLines : x \in SkipsBy(r)
      BY <3>1 DEF HInv, Heard
    <3>3. \E d : x = [decision |-> d, cause |-> Identity(r)]
      BY <3>2 DEF SkipsBy
    <3> QED BY <3>3
  <2> QED BY <1>4, <2>1 DEF SkippedBy
<1> DEFINE e == RanAs(q)
<1>8. e \in happened.evaluations /\ e.identity = Identity(q) /\ e.skips = q.skips
  BY <1>3 DEF ToldEnd, RanAs
<1>9. s.cause = Identity(q) /\ s.decision \in q.skips
  BY <1>2, <1>6, <1>7
<1>10. ASSUME NEW d \in q.skips PROVE [decision |-> d, cause |-> s.cause] \in A
  <2>1. PICK x \in SkippedBy(c, v) : x.decision = d
    BY <1>6
  <2>2. x = [decision |-> d, cause |-> s.cause]
    BY <1>7, <1>9, <2>1
  <2>3. x \in A
    BY <1>2, <2>1
  <2> QED BY <2>2, <2>3
<1> HIDE DEF e, A
<1> QED BY <1>1, <1>8, <1>9, <1>10

(* What is accepted happened.                                              *)
LEMMA AcceptedIsTrue ==
  ASSUME CInv, HInv, FoundInv, phase = "collected", NEW P
  PROVE  Happened(Accepted(P, collector))
<1> DEFINE a == Accepted(P, collector)
<1>1. /\ a.evaluations = {Key(v) : v \in Valid(collector)}
      /\ a.clauses = {x.clause : x \in {y \in collector.clauses :
                                          IsClauseValid(y.process, y.clause)}}
  BY DEF Accepted
<1>2. \A s \in a.skipped : \E e \in happened.evaluations :
        /\ e.identity = s.cause /\ s.decision \in e.skips
        /\ {[decision |-> d, cause |-> s.cause] : d \in e.skips} \subseteq a.skipped
  BY AcceptedSkips
<1> HIDE DEF a
<1>3. ASSUME NEW e \in a.evaluations
      PROVE  \/ e \in RanKeys
             \/ ~e.completed /\ \E b \in Begins : Key(AbortedOf(b)) = e
  <2>1. PICK v \in Valid(collector) : e = Key(v)
    BY <1>1
  <2>2. CASE \E q : ToldEnd(q, happened) /\ v = EvaluationOf(q)
    <3>1. PICK q : ToldEnd(q, happened) /\ v = EvaluationOf(q)
      BY <2>2
    <3>2. Key(v) = Key(RanAs(q)) /\ RanAs(q) \in happened.evaluations
      BY <3>1, EndIsValid DEF ToldEnd
    <3> QED BY <2>1, <3>2 DEF RanKeys
  <2>3. CASE \E b \in Begins : v = AbortedOf(b)
    <3>1. PICK b \in Begins : v = AbortedOf(b)
      BY <2>3
    <3>2. ~Key(AbortedOf(b)).completed
      BY DEF Key, AbortedOf
    <3> QED BY <2>1, <3>1, <3>2
  <2> QED BY <2>2, <2>3, ValidRan
<1>4. ASSUME NEW o \in a.clauses PROVE o \in happened.clauses
  <2>1. PICK x \in collector.clauses : o = x.clause /\ IsClauseValid(x.process, x.clause)
    BY <1>1
  <2>2. PICK r \in HeededLines : /\ r.type = "clause" /\ NamesClause(r)
                                 /\ x = [process |-> r.process, clause |-> r.clause]
    BY DEF HInv, Heard
  <2>3. ~IsRefusedClause(r) /\ ~IsEnd(r)
    BY <2>1, <2>2 DEF IsRefusedClause, IsEnd
  <2>4. ~IsRefusedEnd(r) /\ ~IsAltered(r)
    BY <2>3, ReskippedIs DEF IsRefusedEnd, IsAltered
  <2>5. Told(r, happened)
    BY <2>2, <2>3, <2>4 DEF FoundInv
  <2>6. r.clause \in happened.clauses
    BY <2>3, <2>2, <2>5 DEF Told, ToldBegin, ToldEnd, ToldClause
  <2> QED BY <2>1, <2>2, <2>6
<1> QED BY <1>2, <1>3, <1>4 DEF Happened, a

(* Also what is accepted before an interruption.                           *)
LEMMA InterruptedIsTrue ==
  ASSUME CInv, HInv, FoundInv, phase = "collected", NEW P,
         NEW a \in Interrupted(P, collector)
  PROVE  Happened(a)
<1> DEFINE w == Accepted(P, collector)
<1>1. Happened(w)
  BY AcceptedIsTrue
<1>2. w = [issues |-> w.issues, evaluations |-> w.evaluations, skipped |-> w.skipped,
           clauses |-> w.clauses]
  BY DEF Accepted
<1>3. Nothing.evaluations = {} /\ Nothing.skipped = {} /\ Nothing.clauses = {}
  BY DEF Nothing
<1> HIDE DEF w
<1>4. \/ a = Nothing
      \/ /\ a.evaluations = {} /\ a.skipped = w.skipped /\ a.clauses = {}
      \/ /\ a.evaluations = w.evaluations /\ a.skipped = w.skipped /\ a.clauses = {}
  BY <1>2 DEF Interrupted, Nothing, w
<1>5. CASE a = Nothing
  BY <1>3, <1>5 DEF Happened
<1>6. CASE a.evaluations = {} /\ a.skipped = w.skipped /\ a.clauses = {}
  BY <1>1, <1>6 DEF Happened
<1>7. CASE a.evaluations = w.evaluations /\ a.skipped = w.skipped /\ a.clauses = {}
  BY <1>1, <1>7 DEF Happened
<1> QED BY <1>4, <1>5, <1>6, <1>7
-----------------------------------------------------------------------------
(***************************************************************************)
(* What is collected without a diagnostic.                                 *)
(***************************************************************************)
LEMMA CleanRead ==
  ASSUME CInv, HInv, phase = "collected", ~collector.integrity
  PROVE  /\ Found(collector) = Reference
         /\ Clean(collector, AllLines, HeededLines) /\ ~IsDamaged(files)
         /\ \A r \in AllLines : IsEnd(r) <=> r \in Ends
         /\ collector.clauses = {[process |-> r.process, clause |-> r.clause] :
                                   r \in {l \in AllLines : l.type = "clause"}}
<1>1. Evaluations = Reference
      /\ collector.clauses = {[process |-> r.process, clause |-> r.clause] :
                                r \in {l \in AllLines : l.type = "clause"}}
  BY CollectedInFull DEF CleanIsComplete
<1>2. Clean(collector, AllLines, HeededLines)
  BY DEF HInv, Heard
<1>3. ~IsDamaged(files)
  BY <1>2, RecordsAre DEF IsDamaged, HeededLines, Clean
<1> QED BY <1>1, <1>2, <1>3 DEF Evaluations, Found, Ends, IsEnd

(* Of an evaluation, what it skips is collected and nothing else.          *)
LEMMA SkippedByIs ==
  ASSUME CInv, HInv, phase = "collected", ~collector.integrity,
         \A s \in collector.skipped : IsEarned(collector, s), NEW r \in Ends
  PROVE  SkippedBy(collector, EvaluationOf(r)) = SkipsBy(r)
<1> DEFINE v == EvaluationOf(r)
<1>1. v.identity = Identity(r) /\ r \in AllLines /\ IsEnd(r)
  BY DEF EvaluationOf, Ends, IsEnd
<1> HIDE DEF v
<1>2. \A q : \A s \in SkipsBy(q) : s.cause = Identity(q)
  BY DEF SkipsBy
<1>3. Clean(collector, AllLines, HeededLines)
  BY CleanRead
<1>4. ASSUME NEW s \in collector.skipped, s.cause = Identity(r) PROVE s \in SkipsBy(r)
  <2>1. PICK q \in HeededLines : IsEnd(q) /\ s \in SkipsBy(q)
    BY DEF HInv, Heard
  <2>2. q \in AllLines /\ Identity(q) = Identity(r)
    BY <1>2, <1>4, <2>1, HeededAreLines
  <2>3. q = r
    BY <1>1, <1>3, <2>1, <2>2 DEF Clean
  <2> QED BY <2>1, <2>3
<1>5. ASSUME NEW s \in SkipsBy(r) PROVE s \in collector.skipped /\ s.cause = Identity(r)
  BY <1>1, <1>2, <1>3 DEF Clean
<1>6. SkippedBy(collector, v) = {s \in collector.skipped : s.cause = Identity(r)}
  BY <1>1 DEF SkippedBy
<1> QED BY <1>4, <1>5, <1>6 DEF v

(* What is skipped by an evaluation that ended as the journal tells.       *)
LEMMA SkippedDecisions ==
  ASSUME NEW r, r.decision \notin r.skips, r.skips # {} => r.selects
  PROVE  /\ SkipsBy(r) = {[decision |-> d, cause |-> Identity(r)] : d \in r.skips}
         /\ {s.decision : s \in SkipsBy(r)} = r.skips
<1>1. r.skips \ {r.decision} = r.skips
  OBVIOUS
<1>2. SkipsBy(r) = {[decision |-> d, cause |-> Identity(r)] : d \in r.skips}
  BY <1>1 DEF SkipsBy
<1>3. ASSUME NEW s \in SkipsBy(r) PROVE s.decision \in r.skips
  BY <1>2
<1>4. ASSUME NEW d \in r.skips PROVE \E s \in SkipsBy(r) : s.decision = d
  <2> DEFINE s == [decision |-> d, cause |-> Identity(r)]
  <2>1. s \in SkipsBy(r)
    BY <1>2
  <2>2. s.decision = d
    OBVIOUS
  <2> QED BY <2>1, <2>2
<1> QED BY <1>2, <1>3, <1>4

(* An end that was given other skipped decisions is refused.               *)
LEMMA AlteredIsRefused ==
  ASSUME CInv, HInv, phase = "collected", ~collector.integrity,
         \A s \in collector.skipped : IsEarned(collector, s),
         \A v \in Valid(collector) : Selects(v) => IsWhole(collector, v),
         NEW r \in AllLines
  PROVE  ~IsAltered(r)
<1> SUFFICES ASSUME NEW q, ToldEnd(q, happened), IsReskipped(r, q) PROVE FALSE
  BY DEF IsAltered
<1> DEFINE v == EvaluationOf(q)
<1>1. /\ IsEnd(r) /\ EvaluationOf(r) = v /\ r.decision = q.decision
      /\ r.selects = q.selects /\ r.skips # q.skips
  BY ReskippedIs DEF IsReskipped
<1>2. /\ IsValid(v) /\ Selects(v) = q.selects /\ v.decision = q.decision
      /\ q.skips = IF q.selects THEN Suffix(q.decision) ELSE {}
  BY EndIsValid DEF EvaluationOf
<1> HIDE DEF v
<1>3. r \in Ends /\ v \in Valid(collector) /\ IsConsistent(r)
  <2>1. r \in Ends /\ Clean(collector, AllLines, HeededLines) /\ Found(collector) = Reference
    BY <1>1, CleanRead
  <2>2. v \in Found(collector)
    BY <1>1, <2>1 DEF Reference
  <2> QED BY <1>1, <1>2, <2>1, <2>2 DEF Valid, Found, Clean, IsClear
<1>4. q.selects
  BY <1>1, <1>2, <1>3 DEF IsConsistent
<1>5. {s.decision : s \in SkippedBy(collector, v)} = q.skips
  BY <1>2, <1>3, <1>4 DEF IsWhole
<1>6. SkippedBy(collector, v) = SkipsBy(r)
  BY <1>1, <1>3, SkippedByIs
<1>7. {s.decision : s \in SkipsBy(r)} = r.skips
  BY <1>3, SkippedDecisions DEF IsConsistent
<1> QED BY <1>1, <1>5, <1>6, <1>7

(* A producer whose clauses are not refused has reported what ran.         *)
LEMMA ClausesAreExact ==
  ASSUME CInv, HInv, FoundInv, phase = "collected", ~collector.integrity, NEW P,
         NEW producer \in Producers, producer \notin Issues(P, collector),
         ReportedBy(producer)
  PROVE  OfProducer(Accepted(P, collector).clauses, producer)
           = OfProducer(happened.clauses, producer)
<1> DEFINE a == Accepted(P, collector)
           c == collector
<1>1. a.clauses = {x.clause : x \in {y \in c.clauses : IsClauseValid(y.process, y.clause)}}
  BY DEF Accepted
<1>2. a.clauses \subseteq happened.clauses
  BY AcceptedIsTrue DEF Happened
<1>3. \A x \in c.clauses :
        Producer(x.clause.event) = producer => IsClauseValid(x.process, x.clause)
  BY DEF Issues
<1> HIDE DEF a
<1>4. ASSUME NEW o \in OfProducer(happened.clauses, producer) PROVE o \in a.clauses
  <2>1. PICK r \in AllLines : r.type = "clause" /\ r.clause = o
    BY DEF ReportedBy
  <2> DEFINE x == [process |-> r.process, clause |-> r.clause]
  <2>2. x \in c.clauses
    BY <2>1, CleanRead
  <2>3. Producer(x.clause.event) = producer /\ x.clause = o
    BY <2>1 DEF OfProducer
  <2> HIDE DEF x
  <2> QED BY <1>1, <1>3, <2>2, <2>3
<1> QED BY <1>2, <1>4 DEF OfProducer, a

(* Without an issue of a producer, it has reported all that ran.           *)
LEMMA NothingLost ==
  ASSUME CInv, HInv, FoundInv, ExactInv, phase = "collected", ~collector.integrity, NEW P,
         NEW producer \in Producers, producer \notin Issues(P, collector)
  PROVE  /\ ReportedBy(producer)
         /\ producer = "ast" => /\ \A r \in Ends : ToldEnd(r, happened)
                                /\ Valid(collector) = Reference
                                /\ \A s \in collector.skipped : IsEarned(collector, s)
                                /\ \A v \in Valid(collector) :
                                     Selects(v) => IsWhole(collector, v)
<1> DEFINE c == collector
<1>1. /\ Found(c) = Reference /\ ~IsDamaged(files)
      /\ Clean(c, AllLines, HeededLines)
      /\ \A r \in AllLines : IsEnd(r) <=> r \in Ends
      /\ c.clauses = {[process |-> r.process, clause |-> r.clause] :
                        r \in {l \in AllLines : l.type = "clause"}}
  BY CleanRead
<1>2. ASSUME NEW r \in AllLines, IsRefusedClause(r), Producer(r.clause.event) = producer
      PROVE  FALSE
  <2>1. r.type = "clause" /\ NamesClause(r) /\ ~IsClauseValid(r.process, r.clause)
    BY <1>1, <1>2 DEF IsRefusedClause, Clean, IsClear
  <2> DEFINE x == [process |-> r.process, clause |-> r.clause]
  <2>2. x \in c.clauses
    BY <1>1, <2>1
  <2>3. x.process = r.process /\ x.clause = r.clause
    OBVIOUS
  <2> HIDE DEF x
  <2> QED BY <1>2, <2>1, <2>2, <2>3 DEF Issues
<1>3. ASSUME producer = "ast"
      PROVE  /\ \A r \in Ends : ToldEnd(r, happened) /\ ~IsRefusedEnd(r)
             /\ \A r \in AllLines : ~IsAltered(r)
             /\ Valid(c) = Reference
             /\ \A s \in c.skipped : IsEarned(c, s)
             /\ \A v \in Valid(c) : Selects(v) => IsWhole(c, v)
  <2>1. /\ \A v \in ToSet(c.evaluations) : IsValid(v)
        /\ \A s \in c.skipped : IsEarned(c, s)
        /\ \A v \in Valid(c) : Selects(v) => IsWhole(c, v)
    BY <1>3 DEF Issues
  <2>2. Valid(c) = Reference
    BY <1>1, <2>1 DEF Valid, Found
  <2>3. \A r \in AllLines : ~IsAltered(r)
    BY <2>1, AlteredIsRefused
  <2>4. ASSUME NEW r \in Ends PROVE ToldEnd(r, happened) /\ ~IsRefusedEnd(r)
    <3>1. EvaluationOf(r) \in Found(c) /\ r \in AllLines /\ IsEnd(r) /\ r \in HeededLines
      BY <1>1 DEF Reference, Ends, Clean
    <3>2. ~IsRefusedEnd(r)
      BY <2>1, <3>1 DEF IsRefusedEnd, Found
    <3>3. ~IsRefusedClause(r) /\ ~IsAltered(r)
      BY <2>3, <3>1 DEF IsRefusedClause, IsEnd
    <3>4. Told(r, happened)
      BY <3>1, <3>2, <3>3 DEF FoundInv
    <3> QED BY <3>1, <3>2, <3>4 DEF Told, ToldBegin, ToldClause, IsEnd
  <2> QED BY <2>1, <2>2, <2>3, <2>4
<1>4. ~ChargedTo(producer)
  <2>1. ASSUME NEW r \in AllLines, producer = "ast" PROVE ~IsRefusedEnd(r) /\ ~IsAltered(r)
    BY <1>1, <1>3, <2>1 DEF IsRefusedEnd
  <2> QED BY <1>2, <2>1 DEF ChargedTo
<1>5. ReportedBy(producer)
  BY <1>1, <1>4 DEF ExactInv
<1> QED BY <1>3, <1>5

(* The rewritten sources have, if nothing is charged to them.              *)
LEMMA AstIsExact ==
  ASSUME CInv, HInv, FoundInv, ExactInv, phase = "collected", ~collector.integrity, NEW P,
         "ast" \notin Issues(P, collector)
  PROVE  LET a == Accepted(P, collector)
         IN  a.evaluations = RanKeys /\ a.skipped = RanSkips
<1> DEFINE a == Accepted(P, collector)
           c == collector
           Chosen == {x \in Valid(c) : Selects(x) /\ IsWhole(c, x)}
<1>1. /\ a.evaluations = {Key(v) : v \in Valid(c)}
      /\ a.skipped = UNION {SkippedBy(c, v) : v \in Chosen}
  BY DEF Accepted
<1> HIDE DEF a
<1>2. /\ \A r \in Ends : ToldEnd(r, happened)
      /\ Valid(c) = Reference
      /\ \A s \in c.skipped : IsEarned(c, s)
      /\ \A v \in Valid(c) : Selects(v) => IsWhole(c, v)
      /\ ReportedBy("ast")
  BY NothingLost DEF Producers
<1>3. \A e \in happened.evaluations : \E r \in Ends : RanAs(r) = e
  BY <1>2, CleanRead DEF ReportedBy
<1>4. \A r \in Ends : SkippedBy(c, EvaluationOf(r)) = SkipsBy(r)
  BY <1>2, SkippedByIs
<1>5. \A r \in Ends : /\ RanAs(r) \in happened.evaluations
                      /\ Key(EvaluationOf(r)) = Key(RanAs(r))
                      /\ EvaluationOf(r) \in Valid(c)
                      /\ Selects(EvaluationOf(r)) = r.selects
                      /\ SkipsBy(r) = {[decision |-> d, cause |-> Identity(r)] : d \in r.skips}
                      /\ r.skips = IF r.selects THEN Suffix(r.decision) ELSE {}
  BY <1>2, EndIsValid DEF ToldEnd, Reference
<1>6. \A v \in Valid(c) : Selects(v) => \E r \in Ends : v = EvaluationOf(r)
  <2>1. \A b : ~AbortedOf(b).completed
    BY DEF AbortedOf
  <2> QED BY <1>2, <2>1 DEF Reference, Selects
<1> HIDE DEF c
<1>7. a.evaluations = RanKeys
  <2>1. Reference = {EvaluationOf(r) : r \in Ends} \cup {AbortedOf(b) : b \in Killed}
    BY DEF Reference, Killed
  <2>2. ASSUME NEW v \in Reference PROVE Key(v) \in RanKeys
    <3>1. CASE \E r \in Ends : v = EvaluationOf(r)
      BY <1>5, <3>1 DEF RanKeys
    <3>2. CASE \E b \in Killed : v = AbortedOf(b)
      BY <3>2 DEF RanKeys
    <3> QED BY <2>1, <3>1, <3>2
  <2>3. ASSUME NEW k \in RanKeys PROVE \E v \in Reference : k = Key(v)
    <3>1. CASE \E e \in happened.evaluations : k = Key(e)
      <4>1. PICK r \in Ends : k = Key(RanAs(r))
        BY <1>3, <3>1
      <4> QED BY <1>5, <2>1, <4>1
    <3>2. CASE \E b \in Killed : k = Key(AbortedOf(b))
      BY <2>1, <3>2
    <3> QED BY <3>1, <3>2 DEF RanKeys
  <2> QED BY <1>1, <1>2, <2>2, <2>3
<1>8. a.skipped = RanSkips
  <2>1. \A r \in Ends : RanAs(r).skips = r.skips /\ RanAs(r).identity = Identity(r)
    BY DEF RanAs
  <2>2. ASSUME NEW s \in a.skipped PROVE s \in RanSkips
    <3>1. PICK v \in Valid(c) : Selects(v) /\ s \in SkippedBy(c, v)
      BY <1>1, <2>2
    <3>2. PICK r \in Ends : v = EvaluationOf(r)
      BY <1>6, <3>1
    <3>3. PICK d \in r.skips : s = [decision |-> d, cause |-> Identity(r)]
      BY <1>4, <1>5, <3>1, <3>2
    <3> QED BY <1>5, <2>1, <3>3 DEF RanSkips
  <2>3. ASSUME NEW s \in RanSkips PROVE s \in a.skipped
    <3>1. PICK e \in happened.evaluations :
            \E d \in e.skips : s = [decision |-> d, cause |-> e.identity]
      BY DEF RanSkips
    <3>2. PICK r \in Ends : RanAs(r) = e
      BY <1>3
    <3>3. PICK d \in r.skips : s = [decision |-> d, cause |-> Identity(r)]
      BY <2>1, <3>1, <3>2
    <3>4. s \in SkippedBy(c, EvaluationOf(r))
      BY <1>4, <1>5, <3>3
    <3>5. r.selects
      BY <1>5, <3>3
    <3>6. EvaluationOf(r) \in Chosen
      BY <1>2, <1>5, <3>5
    <3> QED BY <1>1, <3>4, <3>6
  <2> QED BY <2>2, <2>3
<1> QED BY <1>7, <1>8 DEF a
-----------------------------------------------------------------------------
(***************************************************************************)
(* An evaluation that was killed has a state for each of its conditions.   *)
(***************************************************************************)
HasStates ==
  /\ \A b : DOMAIN NotEvaluated(b).states = 1..b.count
  /\ \A d \in DOMAIN Decisions :
       LET all == Conditions(Decisions[d].tree) IN all = 1..Cardinality(all)

(* Of a directory as it was left, all that is read is told.                *)
LEMMA IntactIsTold ==
  ASSUME CInv, HInv, WrittenInv, intact, phase = "collected", ~collector.integrity
  PROVE  /\ \A r \in AllLines : Told(r, happened)
         /\ \A r \in Ends : ToldEnd(r, happened)
         /\ \A b \in Begins : ToldBegin(b)
<1>1. \A r \in AllLines : r.type \in Readable
  BY CleanRead DEF Clean, IsClear
<1>2. \A r \in AllLines : Told(r, happened)
  BY <1>1 DEF WrittenInv
<1> QED BY <1>2 DEF Ends, Begins, Told, ToldBegin, ToldEnd, ToldClause, IsEnd

(* What was collected of it is valid.                                      *)
LEMMA IntactIsValid ==
  ASSUME CInv, HInv, WrittenInv, intact, phase = "collected", ~collector.integrity, HasStates
  PROVE  Valid(collector) = Reference /\ Found(collector) = Reference
<1>1. Found(collector) = Reference
  BY CleanRead
<1>2. ASSUME NEW v \in Reference PROVE IsValid(v)
  <2>1. CASE \E r \in Ends : v = EvaluationOf(r)
    BY <2>1, IntactIsTold, EndIsValid
  <2>2. CASE \E b \in Begins : v = AbortedOf(b)
    <3>1. PICK b \in Begins : v = AbortedOf(b)
      BY <2>2
    <3>2. ToldBegin(b)
      BY IntactIsTold
    <3>3. /\ v.identity.id = b.id /\ v.identity.process = b.process /\ ~v.completed
          /\ v.decision = b.decision /\ v.data = NotEvaluated(b)
      BY <3>1 DEF AbortedOf, Identity
    <3>4. DOMAIN NotEvaluated(b).states = Conditions(Decisions[b.decision].tree)
      BY <3>2 DEF HasStates, ToldBegin, Known, IsSwitchCase
    <3> QED BY <3>2, <3>3, <3>4 DEF IsValid, ToldBegin, Known
  <2> QED BY <2>1, <2>2 DEF Reference
<1> QED BY <1>1, <1>2 DEF Found, Valid

(* A skip that was collected of it is earned, by a case that skipped it.   *)
LEMMA IntactIsEarned ==
  ASSUME CInv, HInv, WrittenInv, intact, phase = "collected", ~collector.integrity, HasStates,
         NEW s \in collector.skipped
  PROVE  IsEarned(collector, s)
<1>1. PICK r \in HeededLines : IsEnd(r) /\ s \in SkipsBy(r)
  BY DEF HInv, Heard
<1>2. r \in Ends /\ ToldEnd(r, happened)
  BY <1>1, IntactIsTold, HeededAreLines, CleanRead
<1> DEFINE v == EvaluationOf(r)
<1>3. /\ IsValid(v) /\ Selects(v) = r.selects /\ v.identity = Identity(r)
      /\ SkipsBy(r) = {[decision |-> d, cause |-> Identity(r)] : d \in r.skips}
      /\ r.skips = IF r.selects THEN Suffix(r.decision) ELSE {}
  BY <1>2, EndIsValid
<1>4. PICK d \in r.skips : s = [decision |-> d, cause |-> Identity(r)]
  BY <1>1, <1>3
<1>5. s.decision = d /\ s.cause = Identity(r)
  BY <1>4
<1>6. r.selects /\ d \in Suffix(r.decision)
  BY <1>3, <1>4
<1>7. /\ r.decision \in Known(r.process) /\ d \in Known(r.process)
  BY <1>2, <1>6 DEF ToldEnd
<1>8. v.decision = r.decision /\ s.cause.process = r.process
  BY <1>5 DEF EvaluationOf, Identity
<1>9. v \in Valid(collector)
  BY <1>2, IntactIsValid DEF Reference
<1> HIDE DEF v
<1>10. v \in Causes(collector, s)
  BY <1>3, <1>5, <1>6, <1>9 DEF Causes
<1> QED BY <1>5, <1>6, <1>7, <1>8, <1>10 DEF IsEarned, Known

(* And a case that selected has skipped the rest of its switch.            *)
LEMMA IntactIsWhole ==
  ASSUME CInv, HInv, WrittenInv, intact, phase = "collected", ~collector.integrity, HasStates,
         NEW v \in Valid(collector), Selects(v)
  PROVE  IsWhole(collector, v)
<1>1. \A b : ~AbortedOf(b).completed
  BY DEF AbortedOf
<1>2. PICK r \in Ends : v = EvaluationOf(r)
  BY <1>1, IntactIsValid DEF Reference, Selects
<1>3. /\ Selects(v) = r.selects /\ r.skips = IF r.selects THEN Suffix(r.decision) ELSE {}
      /\ r.decision \notin r.skips /\ v.decision = r.decision
  BY <1>2, IntactIsTold, EndIsValid DEF ToldEnd, EvaluationOf
<1>4. SkippedBy(collector, v) = SkipsBy(r)
  BY <1>2, IntactIsEarned, SkippedByIs
<1>5. {s.decision : s \in SkipsBy(r)} = r.skips
  BY <1>3, SkippedDecisions
<1> QED BY <1>3, <1>4, <1>5 DEF IsWhole

(* No process is foreign that wrote a line of it.                          *)
LEMMA IntactIsHome ==
  ASSUME CInv, HInv, WrittenInv, intact, phase = "collected", ~collector.integrity,
         NEW p \in ProcessesFound
  PROVE  ~IsForeign(p)
<1>1. PICK f \in DOMAIN files : /\ files[f].kind = "journal"
                                /\ \E n \in FirstReadable(files[f].lines) :
                                     p = files[f].lines[n].process
  BY DEF ProcessesFound
<1>2. PICK n \in DOMAIN files[f].lines : p = files[f].lines[n].process
  BY <1>1 DEF FirstReadable
<1> DEFINE r == files[f].lines[n]
<1>3. r \in AllLines
  BY <1>1 DEF AllLines, LinesOf, ToSet
<1>4. r.process = p
  BY <1>2
<1> HIDE DEF r
<1>5. Told(r, happened)
  BY <1>3, IntactIsTold
<1>6. CASE ToldBegin(r) \/ ToldEnd(r, happened)
  <2>1. r.decision \in Known(p)
    BY <1>4, <1>6 DEF ToldBegin, ToldEnd
  <2>2. /\ FromHere(p, Decisions[r.decision].package)
        /\ Decisions[r.decision].package \in KnownPackages
    BY <2>1 DEF Known, IsSwitchCase, KnownPackages
  <2> QED BY <2>2 DEF IsForeign
<1>7. CASE ToldClause(r, happened)
  <2>1. IsClauseValid(p, r.clause)
    BY <1>4, <1>7 DEF ToldClause
  <2>2. \E package \in KnownPackages : FromHere(p, package)
    BY <2>1 DEF IsClauseValid, KnownPackages
  <2> QED BY <2>2 DEF IsForeign
<1> QED BY <1>5, <1>6, <1>7 DEF Told

(* Acceptance refuses nothing of it.                                       *)
LEMMA IntactHasNoIssues ==
  ASSUME CInv, HInv, WrittenInv, intact, phase = "collected", ~collector.integrity, HasStates
  PROVE  Issues(ProcessesFound, collector) = {}
<1> DEFINE c == collector
<1>1. {p \in ProcessesFound : IsForeign(p)} = {}
  BY IntactIsHome
<1>2. {x \in ToSet(c.evaluations) : ~IsValid(x)} = {}
  BY IntactIsValid DEF Valid, Found
<1>3. {x \in c.skipped : ~IsEarned(c, x)} = {}
  BY IntactIsEarned
<1>4. {x \in Valid(c) : Selects(x) /\ ~IsWhole(c, x)} = {}
  BY IntactIsWhole
<1>5. {y \in c.clauses : ~IsClauseValid(y.process, y.clause)} = {}
  <2>1. ASSUME NEW x \in c.clauses PROVE IsClauseValid(x.process, x.clause)
    <3>1. PICK r \in AllLines :
            r.type = "clause" /\ x = [process |-> r.process, clause |-> r.clause]
      BY CleanRead
    <3>2. ToldClause(r, happened)
      BY <3>1, IntactIsTold DEF Told, ToldBegin, ToldEnd, IsEnd
    <3> QED BY <3>1, <3>2 DEF ToldClause
  <2> QED BY <2>1
<1> HIDE DEF c
<1> QED BY <1>1, <1>2, <1>3, <1>4, <1>5 DEF Issues, c
-----------------------------------------------------------------------------
(***************************************************************************)
(* The invariant of a run, its collection and acceptance.                  *)
(***************************************************************************)
WhileRunning ==
  phase = "running" =>
    InRun /\ file = 1 /\ line = 1 /\ provenance = NoProcess /\ collector = Empty

WhileRead ==
  phase \in {"reading", "aborting", "collected", "cancelled"} => CInv /\ HInv /\ FoundInv

SwInv ==
  /\ setting \in Settings
  /\ phase \in {"running", "reading", "aborting", "collected", "cancelled", "accepted",
                "interrupted"}
  /\ WhileRunning /\ WhileRead

(***************************************************************************)
(* Of a run that ends, nothing is found that acceptance could take for     *)
(* what was not written; and what is lost shows, and nothing is there but  *)
(* what was written if the directory is as the processes left it.          *)
(***************************************************************************)
OnlyWrittenIsFound ==
  phase = "running" => \A found \in Remains(files) : OnlyWritten(files, found.files)

EveryLossShows ==
  phase = "running" =>
    \A found \in Remains(files) : /\ LossShows(files, found.files)
                                  /\ found.intact => AllWritten(files, found.files)

(* Initially the run begins.                                               *)
LEMMA SwStarts == SwitchesInit => SwInv
BY RunStarts DEF SwInv, WhileRunning, WhileRead, RunInv, InRun, SwitchesInit

(* A run goes on.                                                          *)
LEMMA ProgramRuns ==
  ASSUME SwInv, NEW t \in Threads, ProgramStep(t),
         UNCHANGED <<phase, file, line, provenance, collector, accepted>>
  PROVE  SwInv' /\ phase = "running"
<1>1. phase = "running"
  BY DEF ProgramStep, BeginInto, EndSelect, AbortSlots, NoCase, CompilerDirectClause,
         CompilerNoMatch, SelectClause, Running
<1>2. InRun' /\ UNCHANGED setting
  BY <1>1, ProgramKeeps DEF SwInv, WhileRunning
<1> QED BY <1>1, <1>2 DEF SwInv, WhileRunning, WhileRead

AtStart ==
  /\ IsDirectory(files) /\ file = 1 /\ line = 1 /\ provenance = NoProcess
  /\ collector = Empty /\ phase = "reading"

(* Whatever comes to be at the start of reading is as CInv and HInv say.   *)
LEMMA AtStartIs == AtStart => CInv /\ HInv
<1> SUFFICES ASSUME AtStart PROVE CInv /\ HInv
  OBVIOUS
<1>1. CInv /\ SeenLines = {}
  BY CStarts DEF AtStart
<1>2. ProvenanceInv
  <2>1. ASSUME NEW m \in DOMAIN files[1].lines, 1 <= Len(files) PROVE ~(m < 1)
    <3>1. 1 \in DOMAIN files
      BY <2>1, DirectoryType DEF AtStart
    <3> QED BY <2>1, <3>1, DirectoryType DEF AtStart
  <2> QED BY <2>1 DEF ProvenanceInv, AtStart, FirstReadable
<1>3. Heard(Empty, {}, HeededLines)
  BY DEF Heard, Empty, Clean, Found, ToSet
<1> QED BY <1>1, <1>2, <1>3 DEF HInv, AtStart

(* Also of the state that a step leads to.                                 *)
LEMMA StartsToRead == (AtStart => CInv /\ HInv)'
<1>1. AtStart => CInv /\ HInv
  BY AtStartIs
<1> QED BY <1>1, PTL

(* A run ends, and is read from the start.                                 *)
LEMMA RunEnds ==
  ASSUME OnlyWrittenIsFound, SwInv, EndOfRun,
         UNCHANGED <<file, line, provenance, collector, accepted>>
  PROVE  SwInv' /\ (EveryLossShows => ExactInv' /\ WrittenInv')
<1>1. InRun /\ phase = "running" /\ phase' = "reading" /\ UNCHANGED <<setting, happened>>
  BY DEF EndOfRun, SwInv, WhileRunning
<1>2. PICK found \in Remains(files) : files' = found.files /\ intact' = found.intact
  BY DEF EndOfRun
<1>3. OnlyWritten(files, found.files)
  BY <1>1, <1>2 DEF OnlyWrittenIsFound
<1>4. /\ FoundInv'
      /\ LossShows(files, found.files) => ExactInv'
      /\ (found.intact => AllWritten(files, found.files)) => WrittenInv'
  BY <1>1, <1>2, <1>3, FoundAfterRun
<1>5. AtStart'
  BY <1>1, <1>2, <1>3 DEF AtStart, OnlyWritten, SwInv, WhileRunning, EndOfRun
<1>6. CInv' /\ HInv'
  BY <1>5, StartsToRead
<1>7. EveryLossShows => /\ LossShows(files, found.files)
                        /\ found.intact => AllWritten(files, found.files)
  BY <1>1, <1>2 DEF EveryLossShows
<1> QED BY <1>1, <1>4, <1>6, <1>7 DEF SwInv, WhileRunning, WhileRead

(* What is found tells the same while it is read.                          *)
LEMMA FoundStays ==
  ASSUME UNCHANGED <<files, happened, intact>>
  PROVE  /\ FoundInv => FoundInv'
         /\ ExactInv => ExactInv'
         /\ WrittenInv => WrittenInv'
<1>1. AllLines' = AllLines /\ HeededLines' = HeededLines
  BY DEF AllLines, HeededLines
<1>2. \A r : IsAltered(r)' <=> IsAltered(r)
  BY DEF IsAltered
<1>3. \A p : (ChargedTo(p)' <=> ChargedTo(p)) /\ (ReportedBy(p)' <=> ReportedBy(p))
  BY <1>1, <1>2 DEF ChargedTo, ReportedBy
<1>4. IsDamaged(files)' <=> IsDamaged(files)
  BY DEF IsDamaged
<1>5. FoundInv => FoundInv'
  BY <1>1, <1>2 DEF FoundInv
<1>6. ExactInv => ExactInv'
  BY <1>3, <1>4 DEF ExactInv
<1>7. WrittenInv => WrittenInv'
  BY <1>1 DEF WrittenInv
<1> QED BY <1>5, <1>6, <1>7

(* Reading goes on.                                                        *)
LEMMA CollectorRuns ==
  ASSUME SwInv, Next, UNCHANGED programVars
  PROVE  SwInv' /\ UNCHANGED <<files, happened, intact>>
         /\ phase \in {"reading", "aborting"}
         /\ phase' \in {"reading", "aborting", "collected", "cancelled"}
<1>1. /\ phase \in {"reading", "aborting"} /\ UNCHANGED files
      /\ phase' \in {"reading", "aborting", "collected", "cancelled"}
  BY DEF Next, SkipArtifact, SkipStranger, ReadLine, EndOfFile, EndOfDirectory, FinishAborted,
         Return, Cancel, Reading
<1>2. UNCHANGED <<setting, happened, intact>>
  BY DEF programVars
<1>3. CInv /\ HInv /\ FoundInv
  BY <1>1 DEF SwInv, WhileRead
<1>4. CInv' /\ HInv'
  BY <1>3, TypeStep, ReadStep, AbortStep, HStep DEF CInv
<1> QED BY <1>1, <1>2, <1>3, <1>4, FoundStays DEF SwInv, WhileRunning, WhileRead

(* Acceptance ends it.                                                     *)
LEMMA AcceptanceEnds ==
  ASSUME SwInv, AcceptRuntime
  PROVE  SwInv' /\ phase = "collected" /\ phase' \in {"accepted", "interrupted"}
         /\ UNCHANGED <<files, happened, intact, collector>>
BY DEF AcceptRuntime, SwInv, WhileRunning, WhileRead

(* Nothing happens.                                                        *)
LEMMA NothingHappens ==
  ASSUME SwInv, UNCHANGED <<vars, programVars>>
  PROVE  SwInv'
<1>1. /\ UNCHANGED vars
      /\ UNCHANGED <<files, file, line, provenance, collector, phase>>
      /\ UNCHANGED <<setting, thread, next, happened, intact, accepted>>
  BY DEF vars, programVars
<1>2. CInv /\ HInv => CInv' /\ HInv'
  BY <1>1, TypeStep, ReadStep, AbortStep, HStep DEF CInv
<1>3. InRun => InRun'
  <2>1. AllLines' = AllLines
    BY <1>1 DEF AllLines
  <2>2. (JournalsInv => JournalsInv') /\ (ToldInv => ToldInv')
    BY <1>1, <2>1 DEF JournalsInv, ToldInv
  <2>3. Threads' = Threads /\ \A t : Function(t)' = Function(t)
    BY <1>1 DEF Threads, Function
  <2>4. \A t : IsPlace(t) => IsPlace(t)'
    BY <1>1, <2>3 DEF IsPlace
  <2>5. ThreadsInv => ThreadsInv'
    BY <1>1, <2>3, <2>4 DEF ThreadsInv
  <2> QED BY <2>2, <2>5 DEF InRun
<1>4. FoundInv => FoundInv'
  BY <1>1, FoundStays
<1> QED BY <1>1, <1>2, <1>3, <1>4 DEF SwInv, WhileRunning, WhileRead

(* Every step keeps the invariant.                                         *)
LEMMA SwStep ==
  ASSUME OnlyWrittenIsFound, SwInv, [SwitchesNext]_<<vars, programVars>>
  PROVE  SwInv'
<1>1. CASE SwitchesNext
  BY <1>1, ProgramRuns, RunEnds, CollectorRuns, AcceptanceEnds DEF SwitchesNext
<1>2. CASE UNCHANGED <<vars, programVars>>
  BY <1>2, NothingHappens
<1> QED BY <1>1, <1>2

(* What acceptance compares with stays once it is done.                    *)
LEMMA AcceptedStays ==
  ASSUME UNCHANGED <<files, happened>>
  PROVE  /\ RanKeys' = RanKeys /\ RanSkips' = RanSkips /\ Begins' = Begins
         /\ \A a : Happened(a)' <=> Happened(a)
<1>1. AllLines' = AllLines
  BY DEF AllLines
<1>2. Begins' = Begins /\ Ends' = Ends
  BY <1>1 DEF Begins, Ends
<1>3. Killed' = Killed
  BY <1>2 DEF Killed
<1>4. RanKeys' = RanKeys /\ RanSkips' = RanSkips
  BY <1>3 DEF RanKeys, RanSkips
<1> QED BY <1>2, <1>4 DEF Happened

(***************************************************************************)
(* However much of what was written is found, what is accepted happened.   *)
(***************************************************************************)
THEOREM SwitchesAcceptedHappened ==
  SwitchesSpec /\ []OnlyWrittenIsFound => []AcceptedHappened
<1> DEFINE Inv == SwInv /\ AcceptedHappened
<1>1. SwitchesInit => Inv
  <2>1. SwitchesInit => phase = "running"
    BY DEF SwitchesInit
  <2> QED BY <2>1, SwStarts DEF AcceptedHappened
<1>2. OnlyWrittenIsFound /\ Inv /\ [SwitchesNext]_<<vars, programVars>> => Inv'
  <2> SUFFICES ASSUME OnlyWrittenIsFound, Inv, [SwitchesNext]_<<vars, programVars>>
               PROVE  Inv'
    OBVIOUS
  <2>1. SwInv'
    BY SwStep
  <2>2. AcceptedHappened <=> (phase \in {"accepted", "interrupted"} => Happened(accepted))
    BY DEF AcceptedHappened, Happened
  <2>3. AcceptedHappened' <=> (phase' \in {"accepted", "interrupted"} => Happened(accepted)')
    BY DEF AcceptedHappened, Happened
  <2>4. CASE AcceptRuntime
    <3>1. CInv /\ HInv /\ FoundInv /\ phase = "collected" /\ UNCHANGED <<files, happened>>
      BY <2>4, AcceptanceEnds DEF SwInv, WhileRead
    <3>2. Happened(accepted')
      BY <2>4, <3>1, AcceptedIsTrue, InterruptedIsTrue DEF AcceptRuntime
    <3>3. Happened(accepted)' <=> Happened(accepted')
      BY <3>1, AcceptedStays DEF Happened
    <3> QED BY <2>1, <2>3, <3>2, <3>3
  <2>5. CASE Next /\ UNCHANGED programVars
    <3>1. phase' \notin {"accepted", "interrupted"}
      BY <2>5, CollectorRuns
    <3> QED BY <2>1, <2>3, <3>1
  <2>6. CASE UNCHANGED <<vars, programVars>>
    <3>1. UNCHANGED <<files, happened, phase, accepted>>
      BY <2>6 DEF vars, programVars
    <3>2. Happened(accepted)' <=> Happened(accepted)
      BY <3>1, AcceptedStays DEF Happened
    <3> QED BY <2>1, <2>2, <2>3, <3>1, <3>2
  <2>7. ASSUME NEW t \in Threads, ProgramStep(t),
               UNCHANGED <<phase, file, line, provenance, collector, accepted>>
        PROVE  Inv'
    <3>1. phase' = "running"
      BY <2>7, ProgramRuns
    <3> QED BY <2>1, <2>3, <3>1
  <2>8. CASE EndOfRun
    BY <2>1, <2>3, <2>8 DEF EndOfRun
  <2> QED BY <2>4, <2>5, <2>6, <2>7, <2>8 DEF SwitchesNext
<1> QED BY <1>1, <1>2, PTL DEF SwitchesSpec

(* What is accepted of a run whose losses show.                            *)
LEMMA AcceptedIsExact ==
  ASSUME CInv, HInv, FoundInv, ExactInv, WrittenInv, phase = "collected",
         ~collector.integrity, HasStates
  PROVE  LET a == Accepted(ProcessesFound, collector)
         IN  /\ ~ProducerError(a, "ast") =>
                  /\ a.evaluations = RanKeys /\ a.skipped = RanSkips
                  /\ OfProducer(a.clauses, "ast") = OfProducer(happened.clauses, "ast")
             /\ ~ProducerError(a, "compiler") =>
                  OfProducer(a.clauses, "compiler") = OfProducer(happened.clauses, "compiler")
             /\ intact => a.issues = {}
<1> DEFINE a == Accepted(ProcessesFound, collector)
<1>1. a.issues = Issues(ProcessesFound, collector)
  BY DEF Accepted
<1>2. ASSUME NEW producer \in Producers, producer \notin a.issues
      PROVE  OfProducer(a.clauses, producer) = OfProducer(happened.clauses, producer)
  BY <1>1, <1>2, NothingLost, ClausesAreExact
<1>3. "ast" \notin a.issues => a.evaluations = RanKeys /\ a.skipped = RanSkips
  BY <1>1, AstIsExact
<1>4. intact => a.issues = {}
  BY <1>1, IntactHasNoIssues
<1> HIDE DEF a
<1>5. \A producer : ~ProducerError(a, producer) => producer \notin a.issues
  BY DEF ProducerError
<1> QED BY <1>2, <1>3, <1>4, <1>5 DEF Producers, a

(***************************************************************************)
(* If every loss shows, a producer without an error has reported all that  *)
(* ran, and a directory as the processes left it gives no error.           *)
(***************************************************************************)
THEOREM SwitchesErrorFreeIsExact ==
  ASSUME HasStates
  PROVE  SwitchesSpec /\ []OnlyWrittenIsFound /\ []EveryLossShows => []ErrorFreeIsExact
<1> DEFINE Reads == phase \in {"reading", "aborting", "collected", "cancelled"} =>
                      ExactInv /\ WrittenInv
           Inv == SwInv /\ Reads /\ ErrorFreeIsExact
<1>1. SwitchesInit => Inv
  <2>1. SwitchesInit => phase = "running"
    BY DEF SwitchesInit
  <2> QED BY <2>1, SwStarts DEF ErrorFreeIsExact
<1>2. OnlyWrittenIsFound /\ EveryLossShows /\ Inv /\ [SwitchesNext]_<<vars, programVars>>
        => Inv'
  <2> SUFFICES ASSUME OnlyWrittenIsFound, EveryLossShows, Inv,
                      [SwitchesNext]_<<vars, programVars>>
               PROVE  Inv'
    OBVIOUS
  <2>1. SwInv'
    BY SwStep
  <2>2. CASE AcceptRuntime
    <3>1. /\ CInv /\ HInv /\ FoundInv /\ ExactInv /\ WrittenInv /\ phase = "collected"
          /\ phase' \in {"accepted", "interrupted"}
          /\ UNCHANGED <<files, happened, intact, collector>>
      BY <2>2, AcceptanceEnds DEF SwInv, WhileRead
    <3> DEFINE a == accepted'
    <3>2. ASSUME phase' = "accepted", ~collector.integrity
          PROVE  /\ ~ProducerError(a, "ast") =>
                      /\ a.evaluations = RanKeys /\ a.skipped = RanSkips
                      /\ OfProducer(a.clauses, "ast") = OfProducer(happened.clauses, "ast")
                 /\ ~ProducerError(a, "compiler") =>
                      OfProducer(a.clauses, "compiler")
                        = OfProducer(happened.clauses, "compiler")
                 /\ intact => a.issues = {}
      <4>1. accepted' = Accepted(ProcessesFound, collector)
        BY <2>2, <3>2 DEF AcceptRuntime
      <4> QED BY <3>1, <3>2, <4>1, AcceptedIsExact
    <3>3. RanKeys' = RanKeys /\ RanSkips' = RanSkips
      BY <3>1, AcceptedStays
    <3>4. ErrorFreeIsExact'
      BY <3>1, <3>2, <3>3 DEF ErrorFreeIsExact, OfProducer, ProducerError
    <3> QED BY <2>1, <3>1, <3>4
  <2>3. CASE Next /\ UNCHANGED programVars
    <3>1. /\ phase \in {"reading", "aborting"} /\ phase' # "accepted"
          /\ UNCHANGED <<files, happened, intact>>
      BY <2>3, CollectorRuns
    <3>2. ExactInv' /\ WrittenInv'
      BY <3>1, FoundStays
    <3> QED BY <2>1, <3>1, <3>2 DEF ErrorFreeIsExact
  <2>4. CASE UNCHANGED <<vars, programVars>>
    <3>1. UNCHANGED <<files, happened, phase, accepted, collector, intact>>
      BY <2>4 DEF vars, programVars
    <3>2. /\ RanKeys' = RanKeys /\ RanSkips' = RanSkips
          /\ ExactInv /\ WrittenInv => ExactInv' /\ WrittenInv'
      BY <3>1, AcceptedStays, FoundStays
    <3>3. ErrorFreeIsExact'
      BY <3>1, <3>2 DEF ErrorFreeIsExact, OfProducer, ProducerError
    <3> QED BY <2>1, <3>1, <3>2, <3>3
  <2>5. ASSUME NEW t \in Threads, ProgramStep(t),
               UNCHANGED <<phase, file, line, provenance, collector, accepted>>
        PROVE  Inv'
    <3>1. phase' = "running"
      BY <2>5, ProgramRuns
    <3> QED BY <2>1, <3>1 DEF ErrorFreeIsExact
  <2>6. ASSUME EndOfRun, UNCHANGED <<file, line, provenance, collector, accepted>>
        PROVE  Inv'
    <3>1. ExactInv' /\ WrittenInv' /\ phase' = "reading"
      BY <2>6, RunEnds DEF EndOfRun
    <3> QED BY <2>1, <3>1 DEF ErrorFreeIsExact
  <2> QED BY <2>2, <2>3, <2>4, <2>5, <2>6 DEF SwitchesNext
<1> QED BY <1>1, <1>2, PTL DEF SwitchesSpec
=============================================================================
