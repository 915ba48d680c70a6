---------------------------- MODULE FindingsHandoff ----------------------------
(***************************************************************************)
(* Findings on their way from the red team's report to the yellow team's   *)
(* register: from_red names them, to_yellow opens the ones the register    *)
(* does not know, and they are remediated, accepted and scored there.      *)
(* Commands are separate processes on one hash-chained file without a      *)
(* lock: each reads the findings, then the head, then appends, and may be  *)
(* killed in between.                                                      *)
(***************************************************************************)
EXTENDS Integers, Sequences, FiniteSets

CONSTANTS Defects,     \* sequence: every finding red can report, in report order
          Place,       \* Place[d]: its rule and the digest of its location
          Severity,    \* "critical", "high" or "low"
          Criteria,    \* whether red gave a remediation
          Procs,       \* processes that run commands
          MaxReports, MaxLedger,   \* bounds
          None

Reported == {Defects[i] : i \in DOMAIN Defects}

HandoffAssumption == Severity \in [Reported -> {"critical", "high", "low"}] /\ Criteria \in [Reported -> BOOLEAN]

VARIABLES present,   \* defects the next scan will report
          reports,   \* scans so far
          proc,      \* what each process is doing
          ledger,    \* records: event, id, severity, evidence, seq, previous line
          score      \* the last score: whether it passed, and how much was read for it

vars == <<present, reports, proc, ledger, score>>

Serious == {"critical", "high"}
Ids == {Place[d] : d \in Reported} \X (1 .. Len(Defects))
Rest == [pc |-> "rest", items |-> <<>>, record |-> None, head |-> 0]

Init ==
    /\ present \in SUBSET Reported /\ reports = 0
    /\ proc = [p \in Procs |-> Rest]
    /\ ledger = <<>>
    /\ score = [pass |-> FALSE, read |-> 0]
---------------------------------------------------------------------------
(* FindingsRegister.findings: the last opening of an id gives its severity *)
(* and what follows closes it; an id that is opened again is open.         *)
Findings(lines) ==
    LET last(id, events) == CHOOSE i \in DOMAIN lines :
            /\ lines[i].id = id /\ lines[i].event \in events
            /\ \A j \in i + 1 .. Len(lines) : lines[j].id = id => lines[j].event \notin events
        every == {"opened", "remediated", "accepted"}
    IN [id \in {lines[i].id : i \in DOMAIN lines} |->
          [lines[last(id, every)] EXCEPT !.severity = lines[last(id, {"opened"})].severity]]

Registered(id) == id \in DOMAIN Findings(ledger)
IsOpen(id) == Registered(id) /\ Findings(ledger)[id].event = "opened"

(* from_red: a second finding at the same place gets a number.             *)
IdOf(d, doc) ==
    LET place(i) == Defects[i] \in doc /\ Place[Defects[i]] = Place[d]
        upto == CHOOSE i \in DOMAIN Defects : Defects[i] = d
    IN <<Place[d], Cardinality({i \in 1 .. upto : place(i)})>>

Envelopes(doc) ==
    LET reported == SelectSeq(Defects, LAMBDA d : d \in doc)
    IN [i \in DOMAIN reported |-> [id |-> IdOf(reported[i], doc), severity |-> Severity[reported[i]],
                                   criteria |-> Criteria[reported[i]]]]

(* Defects are fixed and introduced between two scans.                     *)
Develop(doc) == present' = doc /\ doc # present /\ UNCHANGED <<reports, proc, ledger, score>>

(* from-red, then to-yellow up to what it keeps of the register: an id     *)
(* that is known, even a closed one, is skipped, and so is a serious       *)
(* finding without acceptance criteria.                                    *)
Transfer(p) ==
    /\ proc[p] = Rest /\ reports < MaxReports /\ reports' = reports + 1
    /\ LET wanted(e) == ~Registered(e.id) /\ (e.severity \in Serious => e.criteria)
       IN proc' = [proc EXCEPT ![p].pc = "open", ![p].items = SelectSeq(Envelopes(present), wanted)]
    /\ UNCHANGED <<present, ledger, score>>

(* open_finding reads the register again; an id that came meanwhile ends   *)
(* the whole transfer with an error.                                       *)
Open(p) ==
    /\ proc[p].pc = "open"
    /\ IF proc[p].items = <<>> \/ Registered(Head(proc[p].items).id)
       THEN proc' = [proc EXCEPT ![p] = Rest]
       ELSE proc' = [proc EXCEPT ![p].pc = "head",
                       ![p].record = [event |-> "opened", id |-> Head(proc[p].items).id,
                                      severity |-> Head(proc[p].items).severity, evidence |-> FALSE],
                       ![p].items = Tail(proc[p].items)]
    /\ UNCHANGED <<present, reports, ledger, score>>

(* Slip: whoever owns the risk may accept a critical one too.              *)
ClosableByOwner(event, severity, evidence) == severity \in Serious \/ event = "accepted" => evidence

(* remediate and accept_risk: a serious finding is closed with a test or a *)
(* control, a critical one is never accepted, and acceptance names both.   *)
Closable(event, severity, evidence) ==
    /\ severity \in Serious => evidence
    /\ event = "accepted" => severity # "critical" /\ evidence

Close(p, id, event, evidence) ==
    /\ proc[p] = Rest
    /\ IsOpen(id)
    /\ LET severity == Findings(ledger)[id].severity
       IN /\ Closable(event, severity, evidence)
          /\ proc' = [proc EXCEPT ![p].pc = "head",
                        ![p].record = [event |-> event, id |-> id, severity |-> severity, evidence |-> evidence]]
    /\ UNCHANGED <<present, reports, ledger, score>>

(* Ledger.append: the head is read ...                                     *)
ReadHead(p) ==
    /\ proc[p].pc = "head" /\ Len(ledger) < MaxLedger
    /\ proc' = [proc EXCEPT ![p].pc = "write", ![p].head = Len(ledger)]
    /\ UNCHANGED <<present, reports, ledger, score>>

SeqOf(line) == IF line = 0 THEN -1 ELSE ledger[line].seq

(* ... and the record is written behind whatever is the end by then.       *)
Write(p) ==
    /\ proc[p].pc = "write" /\ Len(ledger) < MaxLedger
    /\ ledger' = Append(ledger, [event |-> proc[p].record.event, id |-> proc[p].record.id,
                                 severity |-> proc[p].record.severity, evidence |-> proc[p].record.evidence,
                                 seq |-> SeqOf(proc[p].head) + 1, previous |-> proc[p].head])
    /\ proc' = [proc EXCEPT ![p] = IF proc[p].record.event = "opened"
                                   THEN [Rest EXCEPT !.pc = "open", !.items = proc[p].items] ELSE Rest]
    /\ UNCHANGED <<present, reports, score>>

(* A command is killed.                                                    *)
Kill(p) ==
    /\ proc[p] # Rest
    /\ proc' = [proc EXCEPT ![p] = Rest]
    /\ UNCHANGED <<present, reports, ledger, score>>

(* automatic_failures: a critical finding is open, or a high one was       *)
(* closed without evidence.                                                *)
AutoFailed(lines) ==
    \E id \in DOMAIN Findings(lines) :
        LET f == Findings(lines)[id]
        IN \/ f.severity = "critical" /\ f.event = "opened"
           \/ f.severity = "high" /\ f.event # "opened" /\ ~f.evidence

(* Ledger.verify: sequence numbers and predecessors without a gap.         *)
Verifies(lines) == \A i \in DOMAIN lines : lines[i].seq = i - 1 /\ lines[i].previous = i - 1

(* score_delivery: the failures from one reading of the file ...           *)
ScoreRead(p) ==
    /\ proc[p] = Rest /\ ledger # <<>>
    /\ proc' = [proc EXCEPT ![p].pc = "score", ![p].head = Len(ledger)]
    /\ UNCHANGED <<present, reports, ledger, score>>

(* ... and its integrity from a later one.  The weighted components may    *)
(* reach the threshold or not.                                             *)
Score(p, reached) ==
    /\ proc[p].pc = "score"
    /\ score' = [pass |-> /\ reached /\ Verifies(ledger)
                          /\ ~AutoFailed(SubSeq(ledger, 1, proc[p].head)),
                 read |-> proc[p].head]
    /\ proc' = [proc EXCEPT ![p] = Rest]
    /\ UNCHANGED <<present, reports, ledger>>

Next ==
    \/ \E doc \in SUBSET Reported : Develop(doc)
    \/ \E p \in Procs : \/ Transfer(p) \/ Open(p) \/ ReadHead(p) \/ Write(p) \/ Kill(p) \/ ScoreRead(p)
                        \/ \E reached \in BOOLEAN : Score(p, reached)
                        \/ \E id \in Ids, event \in {"remediated", "accepted"}, e \in BOOLEAN : Close(p, id, event, e)

Spec == Init /\ [][Next]_vars
---------------------------------------------------------------------------
(* The opening at line i is the only one of its id in the first n lines.   *)
OpenedOnce(i, n) ==
    \A j \in 1 .. n : j # i /\ ledger[j].event = "opened" => ledger[j].id # ledger[i].id

Remediated(i, n) ==
    \E j \in i + 1 .. n : /\ ledger[j].id = ledger[i].id /\ ledger[j].event = "remediated"
                          /\ ledger[j].evidence

(* Behind a passing score every critical finding that was read, and whose  *)
(* id nobody opened a second time, was remediated with a test or a control *)
(* although processes read the register and append to it without a lock    *)
(* (open_finding, remediate, accept_risk, append, score_delivery).         *)
PassIsClean ==
    score.pass =>
        \A i \in 1 .. score.read :
            ledger[i].event = "opened" /\ ledger[i].severity = "critical" /\ OpenedOnce(i, score.read)
                => Remediated(i, score.read)

(* An open critical finding is an automatic failure, whatever else was     *)
(* recorded under its id.                                                  *)
CriticalSettled ==
    score.pass =>
        \A i \in 1 .. score.read :
            ledger[i].event = "opened" /\ ledger[i].severity = "critical" => Remediated(i, score.read)
=============================================================================
