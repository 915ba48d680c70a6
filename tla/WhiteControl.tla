---------------------------- MODULE WhiteControl ----------------------------
(***************************************************************************)
(* The White Team's exercise control and its evidence ledger.              *)
(*                                                                         *)
(* The whole state of an exercise is one JSON-lines file.  Every command   *)
(* (authorize, start, activity, stop, ack-stop, decision, complete) is a   *)
(* process of its own: it replays the file to learn the state, decides,    *)
(* reads the head of the file again and appends one record to it.  Nothing *)
(* locks the file between those steps, so commands of several controllers  *)
(* interleave.  Timestamps are given by the caller, in any order.          *)
(*                                                                         *)
(* A record's hash is collision-free over (previous hash, sequence,        *)
(* payload).  It is represented by the sequence of payloads it commits to, *)
(* whose length is the sequence number.                                    *)
(***************************************************************************)
EXTENDS Integers, Sequences, FiniteSets

CONSTANTS
  Controllers,   \* the processes that run commands on the ledger
  Requests,      \* (target, activity) pairs an activity command may name
  MaxInstant,    \* bound: the instants a caller supplies are 0..MaxInstant
  Severities,    \* the severities stops are declared with
  MaxRecords     \* bound: no command starts on a ledger of this length

ASSUME SeveritiesAssumption == Severities \subseteq {"advisory", "mandatory"}
ASSUME InstantAssumption == MaxInstant \in Nat
ASSUME RecordsAssumption == MaxRecords \in Nat

VARIABLES
  ledger,    \* the lines of the ledger file
  pc,        \* where each controller's command is
  payload,   \* the payload it has decided to append
  head,      \* the head of the ledger it has read for that append
  overlapped \* history: two commands have been under way at once

vars == <<ledger, pc, payload, head, overlapped>>

Instants == 0..MaxInstant

\* A scope lists at least one target and one activity.
Scopes == SUBSET Requests \ {{}}

Authorizations == [event : {"authorized"}, scope : Scopes, expires : Instants]
Milestones == [event : {"started", "decision", "completed"}]
Activities ==
  [event : {"activity"}, request : Requests, at : Instants, accepted : BOOLEAN,
   in_scope : BOOLEAN, after_stop : BOOLEAN, observed : BOOLEAN]
StopRecords == [event : {"stop"}, severity : Severities, at : Instants]
Acknowledgements == [event : {"acknowledged"}, at : Instants]
Payloads ==
  Authorizations \cup Milestones \cup Activities \cup StopRecords \cup Acknowledgements

LedgerRecord == [sequence : Nat, prev : Seq(Payloads), payload : Payloads]

GenesisPrev == << >>
NoHead == [sequence |-> -1, digest |-> GenesisPrev]
RecordHash(record) == Append(record.prev, record.payload)

-----------------------------------------------------------------------------
(* What a replay of the file tells *)

Events(file, event) == {i \in DOMAIN file : file[i].payload.event = event}

\* The last of a set of line numbers, as a set: empty when there is none.
Latest(lines) == {i \in lines : \A j \in lines : j <= i}

\* Each authorization starts a fresh projection, so a replay only remembers
\* the lines since the last one.
SinceAuthorized(file, event) ==
  {i \in Events(file, event) : \A a \in Events(file, "authorized") : a <= i}

Authorization(file) == Latest(Events(file, "authorized"))
StopsOf(file) == SinceAuthorized(file, "stop")

InScope(file, request) ==
  \E i \in Authorization(file) : request \in file[i].payload.scope

IsValidAt(file, at) ==
  \E i \in Authorization(file) : at <= file[i].payload.expires

\* Slip: an acknowledged stop no longer holds.
AfterUnacknowledgedStop(file) ==
  \E i \in Latest(StopsOf(file)) :
    /\ file[i].payload.severity = "mandatory"
    /\ \A a \in SinceAuthorized(file, "acknowledged") : a < i

\* The projection keeps the severity of the last stop only.
AfterStop(file) ==
  \E i \in Latest(StopsOf(file)) : file[i].payload.severity = "mandatory"

AcceptedActivities(file) ==
  {i \in SinceAuthorized(file, "activity") : file[i].payload.accepted}
PostStopActivity(file) ==
  {i \in AcceptedActivities(file) : file[i].payload.after_stop}
\* Slip: observed activities are not counted as scope expansion.
OutOfScopePermitted(file) ==
  {i \in AcceptedActivities(file) :
     ~file[i].payload.in_scope /\ ~file[i].payload.observed}
OutOfScopeAccepted(file) ==
  {i \in AcceptedActivities(file) : ~file[i].payload.in_scope}

\* The last line's sequence and hash, without validating the chain.
LedgerHead(file) ==
  IF file = << >>
    THEN NoHead
    ELSE [sequence |-> file[Len(file)].sequence,
          digest |-> RecordHash(file[Len(file)])]

\* Line i commits to the line before it.
Commits(file, i) ==
  /\ file[i].sequence = i - 1
  /\ file[i].prev = IF i = 1 THEN GenesisPrev ELSE RecordHash(file[i - 1])

\* Slip: only the link of the last line is verified.
VerifyTail(file) ==
  Len(file) > 1 => file[Len(file)].prev = RecordHash(file[Len(file) - 1])

Verify(file) == \A i \in DOMAIN file : Commits(file, i)

\* The automatic failures of the scorecard.
AutoFailed(file) ==
  \/ PostStopActivity(file) # {}
  \/ OutOfScopeAccepted(file) # {}
  \/ ~Verify(file)

-----------------------------------------------------------------------------
(* The commands *)

\* What a process that has exited, or has not read yet, holds.
NoPayload == [event |-> "completed"]
Exit(c) ==
  /\ pc' = [pc EXCEPT ![c] = "idle"]
  /\ payload' = [payload EXCEPT ![c] = NoPayload]
  /\ head' = [head EXCEPT ![c] = NoHead]
  /\ UNCHANGED overlapped

Init ==
  /\ ledger = << >>
  /\ pc = [c \in Controllers |-> "idle"]
  /\ payload = [c \in Controllers |-> NoPayload]
  /\ head = [c \in Controllers |-> NoHead]
  /\ overlapped = FALSE

\* The replay is done and the command has made up its mind.
Decide(c, decided) ==
  /\ pc[c] = "idle"
  /\ Len(ledger) < MaxRecords
  /\ pc' = [pc EXCEPT ![c] = "decided"]
  /\ payload' = [payload EXCEPT ![c] = decided]
  /\ overlapped' = (overlapped \/ \E d \in Controllers : pc[d] # "idle")
  /\ UNCHANGED <<ledger, head>>

\* A replay fails on a ledger without an exercise.
RequireState == ledger # << >>

Authorize(c) ==
  /\ ledger = << >>
  /\ \E scope \in Scopes, expires \in Instants :
       Decide(c, [event |-> "authorized", scope |-> scope, expires |-> expires])

Start(c) ==
  /\ RequireState
  /\ StopsOf(ledger) = {}
  /\ Decide(c, [event |-> "started"])

\* The verdict on one proposed activity; an observed one is recorded as
\* accepted whatever the verdict, and a refusal is recorded too.
Adjudicate(file, request, at, observed) ==
  LET permitted == /\ InScope(file, request)
                   /\ IsValidAt(file, at)
                   /\ ~AfterStop(file)
  IN [event |-> "activity", request |-> request, at |-> at,
      accepted |-> permitted \/ observed, in_scope |-> InScope(file, request),
      after_stop |-> AfterStop(file), observed |-> observed]

RequestActivity(c) ==
  /\ RequireState
  /\ \E request \in Requests, at \in Instants, observed \in BOOLEAN :
       Decide(c, Adjudicate(ledger, request, at, observed))

DeclareStop(c) ==
  /\ RequireState
  /\ \E severity \in Severities, at \in Instants :
       Decide(c, [event |-> "stop", severity |-> severity, at |-> at])

AcknowledgeStop(c) ==
  /\ RequireState
  /\ StopsOf(ledger) # {}
  /\ \E at \in Instants :
       /\ \A s \in Latest(StopsOf(ledger)) : at >= ledger[s].payload.at
       /\ Decide(c, [event |-> "acknowledged", at |-> at])

RecordDecision(c) == RequireState /\ Decide(c, [event |-> "decision"])

Complete(c) == RequireState /\ Decide(c, [event |-> "completed"])

\* Ledger.append: the head is read again, then the line is written.
ReadHead(c) ==
  /\ pc[c] = "decided"
  /\ pc' = [pc EXCEPT ![c] = "headed"]
  /\ head' = [head EXCEPT ![c] = LedgerHead(ledger)]
  /\ UNCHANGED <<ledger, payload, overlapped>>

AppendRecord(c) ==
  /\ pc[c] = "headed"
  /\ ledger' = Append(ledger, [sequence |-> head[c].sequence + 1,
                               prev |-> head[c].digest,
                               payload |-> payload[c]])
  /\ Exit(c)

\* The process is killed before its line reaches the file.
Kill(c) ==
  /\ pc[c] # "idle"
  /\ Exit(c)
  /\ UNCHANGED ledger

Next ==
  \E c \in Controllers :
    \/ Authorize(c)
    \/ Start(c)
    \/ RequestActivity(c)
    \/ DeclareStop(c)
    \/ AcknowledgeStop(c)
    \/ RecordDecision(c)
    \/ Complete(c)
    \/ ReadHead(c)
    \/ AppendRecord(c)
    \/ Kill(c)

Spec == Init /\ [][Next]_vars

-----------------------------------------------------------------------------
(* Properties *)

\* Every variable has its type.
TypeOK ==
  /\ ledger \in Seq(LedgerRecord)
  /\ pc \in [Controllers -> {"idle", "decided", "headed"}]
  /\ payload \in [Controllers -> Payloads]
  /\ head \in [Controllers -> [sequence : Nat \cup {-1}, digest : Seq(Payloads)]]
  /\ overlapped \in BOOLEAN

\* However commands interleave, the file is a tree of records: each line
\* commits to the genesis value or to an earlier line, and its sequence
\* number counts the lines it commits to (ledger.py, append).
ChainIsTree ==
  \A i \in DOMAIN ledger :
    /\ ledger[i].sequence = Len(ledger[i].prev)
    /\ \/ ledger[i].prev = GenesisPrev
       \/ \E j \in 1..(i - 1) : ledger[i].prev = RecordHash(ledger[j])

\* Verification reports exactly the ledgers in which two lines commit to the
\* same predecessor, that is, the ones two commands have forked (ledger.py,
\* verify).
ForkDetected ==
  Verify(ledger) <=>
    \A i, j \in DOMAIN ledger : i # j => ledger[i].prev # ledger[j].prev

\* Each record commits to the hash of the record before it (the header of
\* ledger.py).  Two commands at once break it.
CommitsToPrevious == Verify(ledger)

\* As long as no two commands overlap it holds, whichever are killed.
ChainVerifies == ~overlapped => CommitsToPrevious

\* As long as no two commands overlap a ledger holds one exercise: authorize
\* refuses a file that has a line (control.py, authorize).
OneExercise == ~overlapped => Events(ledger, "authorized") \subseteq {1}

\* As long as no two commands overlap White permits nothing after a mandatory
\* stop, unless an advisory stop has been declared in between (control.py,
\* request_activity).
StopHoldsUntilAdvisory ==
  ~overlapped =>
    \A s \in Events(ledger, "stop"), i \in Events(ledger, "activity") :
      /\ ledger[s].payload.severity = "mandatory"
      /\ s < i
      /\ ledger[i].payload.accepted
      /\ ~ledger[i].payload.observed
      => \E k \in Events(ledger, "stop") :
           s < k /\ k < i /\ ledger[k].payload.severity = "advisory"

\* A mandatory stop is unconditional: nothing White permits follows it
\* (models.py, STOP_SEVERITIES).  An advisory stop declared later lifts it,
\* and so does a verdict reached before the stop was written.
MandatoryStopHolds ==
  \A s \in Events(ledger, "stop"), i \in Events(ledger, "activity") :
    /\ ledger[s].payload.severity = "mandatory"
    /\ s < i
    => ~ledger[i].payload.accepted \/ ledger[i].payload.observed

\* As long as no two commands overlap, a scorecard without automatic failures
\* means that every accepted activity was in scope, and none came after a
\* mandatory stop that no later stop had replaced (scoring.py, score_exercise).
CleanScoreIsClean ==
  ~overlapped /\ ~AutoFailed(ledger) =>
    \A i \in Events(ledger, "activity") :
      ledger[i].payload.accepted =>
        /\ \A a \in Events(ledger, "authorized") :
             ledger[i].payload.request \in ledger[a].payload.scope
        /\ \A s \in Events(ledger, "stop") :
             /\ s < i
             /\ ledger[s].payload.severity = "mandatory"
             => \E k \in Events(ledger, "stop") : s < k /\ k < i

=============================================================================
