----------------------------- MODULE ProgramHistory -----------------------------
(***************************************************************************)
(* program_rollup.py makes one score of the teams' score documents under   *)
(* the published weights; program_history.py keeps roll-ups in a file that *)
(* is hash-chained and not locked, and names what moved between two of     *)
(* them.  Scores are percentages, and a digest is what it was taken of.    *)
(* Rounding to four places is left out.                                    *)
(***************************************************************************)
EXTENDS Integers, Sequences, FiniteSets

CONSTANTS Teams,
          Cards,        \* what the scorecards may publish: a weight per team
          Unit,         \* what weights must sum to
          Documents,    \* score documents: score, failed, scored, components
          Procs,        \* processes that run the record command
          MaxHistory,   \* bound
          None

HistoryAssumption ==
    /\ IsFiniteSet(Teams) /\ None \notin Documents
    /\ Cards \subseteq [Teams -> Nat]
    /\ Documents \subseteq [score : 0 .. 100, failed : BOOLEAN, scored : Nat, components : Nat]

VARIABLES history,   \* the lines of the history file
          proc       \* what each process read of it, None before it did

vars == <<history, proc>>

Init == history = <<>> /\ proc = [p \in Procs |-> None]
---------------------------------------------------------------------------
(* The roll-up                                                             *)

(* The units of weight of the teams in S, and the points they make of them *)
(* in their documents: a sum of naturals is the size of a disjoint union.  *)
Units(card, S) == UNION {{t} \X (1 .. card[t]) : t \in S}
Points(card, docs, S) == UNION {({t} \X (1 .. card[t])) \X (1 .. docs[t].score) : t \in S}

Weight(card, S) == Cardinality(Units(card, S))

Consistent(card) == Weight(card, Teams) = Unit

Assessed(docs) == {t \in Teams : docs[t] # None}

(* Half of the components must be demonstrated; a document without any     *)
(* component has demonstrated nothing.                                     *)
Complete(doc) == doc.components > 0 /\ 2 * doc.scored >= doc.components

Counted(docs) == {t \in Assessed(docs) : Complete(docs[t])}

(* Slip: a team covers its weight with any document.                       *)
CoverageOfAssessed(card, docs) == Weight(card, Assessed(docs))

Coverage(card, docs) == Weight(card, Counted(docs))

(* The weighted mean, its weights renormalized to the teams that count.    *)
Score(card, docs) ==
    LET weight == Weight(card, Counted(docs))
    IN IF weight = 0 THEN [sum |-> 0, weight |-> 1]
       ELSE [sum |-> Cardinality(Points(card, docs, Counted(docs))), weight |-> weight]

(* Automatic failures come before everything else, and count whatever the  *)
(* evidence; then evidence; and a score of 95 or more is to be challenged. *)
Status(card, docs) ==
    LET mean == Score(card, docs)
    IN  IF \E t \in Assessed(docs) : docs[t].failed THEN "FAILED"
        ELSE IF Counted(docs) # Assessed(docs) \/ Coverage(card, docs) = 0 THEN "INSUFFICIENT_EVIDENCE"
        ELSE IF mean.sum >= 95 * mean.weight THEN "CHALLENGE_REVIEW_REQUIRED"
        ELSE "SCORED"

(* What a history entry keeps of a roll-up: each team's score is kept, and *)
(* whether it counted.                                                     *)
Rollup(card, docs) ==
    [weights |-> card, status |-> Status(card, docs), score |-> Score(card, docs),
     coverage |-> Coverage(card, docs),
     teams |-> [t \in Assessed(docs) |-> [score |-> docs[t].score, counted |-> Complete(docs[t])]]]

Rollups ==
    {Rollup(card, docs) : card \in {c \in Cards : Consistent(c)},
                          docs \in {d \in [Teams -> Documents \cup {None}] : Assessed(d) # {}}}
---------------------------------------------------------------------------
(* The history                                                             *)

EntryHash(entry) == Append(entry.prev, entry.payload)

Verifies(entries) ==
    \A i \in DOMAIN entries :
        /\ entries[i].sequence = i - 1
        /\ entries[i].prev = IF i = 1 THEN <<>> ELSE EntryHash(entries[i - 1])

(* record reads the file, verifies it, and appends to it; the roll-up is a *)
(* file somebody made at any time before.                                  *)
ReadHistory(p) ==
    /\ proc[p] = None
    /\ Verifies(history)
    /\ proc' = [proc EXCEPT ![p] =
          [sequence |-> Len(history),
           prev |-> IF history = <<>> THEN <<>> ELSE EntryHash(history[Len(history)])]]
    /\ UNCHANGED history

Record(p) ==
    /\ proc[p] # None
    /\ Len(history) < MaxHistory
    /\ \E payload \in Rollups :
          history' = Append(history, [sequence |-> proc[p].sequence, prev |-> proc[p].prev, payload |-> payload])
    /\ proc' = [proc EXCEPT ![p] = None]

Kill(p) ==
    /\ proc[p] # None
    /\ proc' = [proc EXCEPT ![p] = None]
    /\ UNCHANGED history

Next == \E p \in Procs : ReadHistory(p) \/ Record(p) \/ Kill(p)

Spec == Init /\ [][Next]_vars
---------------------------------------------------------------------------
(* What trend says of two entries in a row                                 *)

Comparable(before, after) == before.weights = after.weights

Rose(before, after) ==
    after.score.sum * before.score.weight > before.score.sum * after.score.weight

(* The note "a narrower assessment, not an improvement".                   *)
Narrower(before, after) == Rose(before, after) /\ after.coverage < before.coverage

(* Trend reports an improvement: a comparable score that rose, with no     *)
(* note on it.                                                             *)
Improvement(before, after) ==
    Comparable(before, after) /\ Rose(before, after) /\ ~Narrower(before, after)

(* When trend reports an improvement of the program, some team improved,   *)
(* or one was assessed that had not been: the number never rises without a *)
(* note only because weak teams were left out, lost their evidence, or     *)
(* because the weights moved (trend of program_history.py over rollup of   *)
(* program_rollup.py), also when two processes record at once.             *)
ImprovementIsReal ==
    Verifies(history) =>
        \A i \in 1 .. Len(history) - 1 :
            LET before == history[i].payload
                after == history[i + 1].payload
            IN Improvement(before, after) =>
                 \E t \in DOMAIN after.teams :
                    /\ after.teams[t].counted
                    /\ \/ t \notin DOMAIN before.teams
                       \/ ~before.teams[t].counted
                       \/ after.teams[t].score > before.teams[t].score
=============================================================================
