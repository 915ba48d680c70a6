------------------------ MODULE WhiteControl_proofs ------------------------
(***************************************************************************)
(* What the exercise control and its ledger guarantee, for every set of    *)
(* controllers, requests, instants and severities and every bound.         *)
(*                                                                         *)
(* The type invariant and the tree of records hold however commands        *)
(* interleave.  The rest holds as long as no two commands have overlapped, *)
(* which the code needs and does not enforce: then no line is written      *)
(* between the replay a command decides on and the line it appends.        *)
(***************************************************************************)
EXTENDS WhiteControl, TLAPS

-----------------------------------------------------------------------------
(* Files, lines and events *)

LEMMA AppendedFile ==
  ASSUME NEW file \in Seq(LedgerRecord), NEW record \in LedgerRecord
  PROVE  LET longer == Append(file, record)
         IN /\ longer \in Seq(LedgerRecord)
            /\ DOMAIN file = 1..Len(file)
            /\ DOMAIN longer = 1..(Len(file) + 1)
            /\ Len(longer) = Len(file) + 1
            /\ Len(file) \in Nat
            /\ longer[Len(file) + 1] = record
            /\ \A i \in 1..Len(file) : longer[i] = file[i]
  OBVIOUS

LEMMA EventsAppended ==
  ASSUME NEW file \in Seq(LedgerRecord), NEW record \in LedgerRecord, NEW event
  PROVE  /\ Events(file, event) \subseteq 1..Len(file)
         /\ record.payload.event = event =>
              Events(Append(file, record), event) = Events(file, event) \cup {Len(file) + 1}
         /\ record.payload.event # event =>
              Events(Append(file, record), event) = Events(file, event)
<1> DEFINE longer == Append(file, record)
<1>1. /\ DOMAIN file = 1..Len(file)
      /\ DOMAIN longer = 1..(Len(file) + 1)
      /\ Len(file) \in Nat
      /\ longer[Len(file) + 1] = record
      /\ \A i \in 1..Len(file) : longer[i] = file[i]
  BY AppendedFile
<1>2. 1..(Len(file) + 1) = 1..Len(file) \cup {Len(file) + 1}
  BY <1>1
<1> HIDE DEF longer
<1>3. Events(file, event) \subseteq 1..Len(file)
  BY <1>1 DEF Events
<1>4. record.payload.event = event =>
        Events(longer, event) = Events(file, event) \cup {Len(file) + 1}
  BY <1>1, <1>2 DEF Events
<1>5. record.payload.event # event => Events(longer, event) = Events(file, event)
  BY <1>1, <1>2 DEF Events
<1> QED BY <1>3, <1>4, <1>5 DEF longer

LEMMA LatestAppended ==
  ASSUME NEW n \in Nat, NEW lines \in SUBSET (1..n)
  PROVE  Latest(lines \cup {n + 1}) = {n + 1}
<1> DEFINE all == lines \cup {n + 1}
<1>1. \A i \in lines : i \in 1..n
  OBVIOUS
<1>2. \A i \in lines : i \in Nat /\ i <= n /\ ~(n + 1 <= i)
  BY <1>1
<1>3. \A i \in all : i = n + 1 \/ i \in lines
  OBVIOUS
<1>4. ASSUME NEW i \in Latest(all) PROVE i = n + 1
  BY <1>2, <1>3, <1>4 DEF Latest
<1>5. \A j \in all : j <= n + 1
  BY <1>2, <1>3
<1>6. n + 1 \in Latest(all)
  BY <1>5 DEF Latest
<1> QED BY <1>4, <1>6

\* The fields of the payloads that are told apart by their event.
LEMMA PayloadShapes ==
  ASSUME NEW p \in Payloads
  PROVE  /\ p.event = "authorized" => p \in Authorizations
         /\ p.event = "activity" => p \in Activities
         /\ p.event = "stop" => p \in StopRecords
         /\ p.event = "acknowledged" => p \in Acknowledgements
  BY DEF Payloads, Authorizations, Milestones, Activities, StopRecords, Acknowledgements

LEMMA HeadType ==
  ASSUME NEW file \in Seq(LedgerRecord)
  PROVE  /\ LedgerHead(file).sequence \in Nat \cup {-1}
         /\ LedgerHead(file).digest \in Seq(Payloads)
         /\ LedgerHead(file) \in [sequence : Nat \cup {-1}, digest : Seq(Payloads)]
<1>1. CASE file = << >>
  BY <1>1 DEF LedgerHead, NoHead, GenesisPrev
<1>2. CASE file # << >>
  <2>1. Len(file) \in 1..Len(file) /\ file[Len(file)] \in LedgerRecord
    BY <1>2
  <2> QED BY <1>2, <2>1 DEF LedgerHead, RecordHash, LedgerRecord
<1> QED BY <1>1, <1>2

-----------------------------------------------------------------------------
(* Types *)

\* A step either lets a command decide, or reads the head, or appends, or dies.
LEMMA DecideType ==
  ASSUME TypeOK, NEW c \in Controllers, NEW p \in Payloads, Decide(c, p)
  PROVE  TypeOK'
  BY DEF TypeOK, Decide

LEMMA ExitType ==
  ASSUME TypeOK, NEW c \in Controllers, Exit(c)
  PROVE  /\ pc' \in [Controllers -> {"idle", "decided", "headed"}]
         /\ payload' \in [Controllers -> Payloads]
         /\ head' \in [Controllers -> [sequence : Nat \cup {-1}, digest : Seq(Payloads)]]
         /\ overlapped' \in BOOLEAN
<1>1. NoPayload \in Payloads /\ NoHead \in [sequence : Nat \cup {-1}, digest : Seq(Payloads)]
  BY DEF NoPayload, NoHead, GenesisPrev, Payloads, Milestones
<1> QED BY <1>1 DEF TypeOK, Exit

LEMMA VerdictType ==
  ASSUME NEW file, NEW request \in Requests, NEW at \in Instants, NEW observed \in BOOLEAN
  PROVE  Adjudicate(file, request, at, observed) \in Payloads
<1>1. InScope(file, request) \in BOOLEAN /\ AfterStop(file) \in BOOLEAN
  BY DEF InScope, AfterStop
<1> QED BY <1>1 DEF Adjudicate, Payloads, Activities

\* Every variable keeps its type.
THEOREM TypeCorrect == Spec => []TypeOK
<1>1. Init => TypeOK
  <2>1. NoPayload \in Payloads /\ NoHead \in [sequence : Nat \cup {-1}, digest : Seq(Payloads)]
    BY DEF NoPayload, NoHead, GenesisPrev, Payloads, Milestones
  <2>2. << >> \in Seq(LedgerRecord)
    OBVIOUS
  <2> QED BY <2>1, <2>2 DEF Init, TypeOK
<1>2. TypeOK /\ [Next]_vars => TypeOK'
  <2> SUFFICES ASSUME TypeOK, [Next]_vars PROVE TypeOK'
    OBVIOUS
  <2>1. CASE UNCHANGED vars
    BY <2>1 DEF vars, TypeOK
  <2>2. ASSUME NEW c \in Controllers, Authorize(c) PROVE TypeOK'
    <3>1. PICK scope \in Scopes, expires \in Instants :
            Decide(c, [event |-> "authorized", scope |-> scope, expires |-> expires])
      BY <2>2 DEF Authorize
    <3>2. [event |-> "authorized", scope |-> scope, expires |-> expires] \in Payloads
      BY DEF Payloads, Authorizations
    <3> QED BY <3>1, <3>2, DecideType
  <2>3. ASSUME NEW c \in Controllers, Start(c) \/ RecordDecision(c) \/ Complete(c)
        PROVE  TypeOK'
    <3>1. \E event \in {"started", "decision", "completed"} : Decide(c, [event |-> event])
      BY <2>3 DEF Start, RecordDecision, Complete
    <3>2. \A event \in {"started", "decision", "completed"} : [event |-> event] \in Payloads
      BY DEF Payloads, Milestones
    <3> QED BY <3>1, <3>2, DecideType
  <2>4. ASSUME NEW c \in Controllers, RequestActivity(c) PROVE TypeOK'
    BY <2>4, VerdictType, DecideType DEF RequestActivity
  <2>5. ASSUME NEW c \in Controllers, DeclareStop(c) PROVE TypeOK'
    <3>1. PICK severity \in Severities, at \in Instants :
            Decide(c, [event |-> "stop", severity |-> severity, at |-> at])
      BY <2>5 DEF DeclareStop
    <3>2. [event |-> "stop", severity |-> severity, at |-> at] \in Payloads
      BY DEF Payloads, StopRecords
    <3> QED BY <3>1, <3>2, DecideType
  <2>6. ASSUME NEW c \in Controllers, AcknowledgeStop(c) PROVE TypeOK'
    <3>1. PICK at \in Instants : Decide(c, [event |-> "acknowledged", at |-> at])
      BY <2>6 DEF AcknowledgeStop
    <3>2. [event |-> "acknowledged", at |-> at] \in Payloads
      BY DEF Payloads, Acknowledgements
    <3> QED BY <3>1, <3>2, DecideType
  <2>7. ASSUME NEW c \in Controllers, ReadHead(c) PROVE TypeOK'
    <3>1. ledger \in Seq(LedgerRecord)
      BY DEF TypeOK
    <3>2. LedgerHead(ledger) \in [sequence : Nat \cup {-1}, digest : Seq(Payloads)]
      BY <3>1, HeadType
    <3> QED BY <2>7, <3>2 DEF TypeOK, ReadHead
  <2>8. ASSUME NEW c \in Controllers, AppendRecord(c) PROVE TypeOK'
    <3> DEFINE record == [sequence |-> head[c].sequence + 1, prev |-> head[c].digest,
                          payload |-> payload[c]]
    <3>0. /\ head[c] \in [sequence : Nat \cup {-1}, digest : Seq(Payloads)]
          /\ payload[c] \in Payloads
      BY DEF TypeOK
    <3>1. record \in LedgerRecord
      <4>1. head[c].sequence + 1 \in Nat /\ head[c].digest \in Seq(Payloads)
        BY <3>0
      <4> QED BY <3>0, <4>1 DEF LedgerRecord
    <3>2. ledger' = Append(ledger, record)
      BY <2>8 DEF AppendRecord
    <3>3. ledger' \in Seq(LedgerRecord)
      BY <3>1, <3>2 DEF TypeOK
    <3> QED BY <2>8, <3>3, ExitType DEF TypeOK, AppendRecord
  <2>9. ASSUME NEW c \in Controllers, Kill(c) PROVE TypeOK'
    BY <2>9, ExitType DEF TypeOK, Kill
  <2> QED BY <2>1, <2>2, <2>3, <2>4, <2>5, <2>6, <2>7, <2>8, <2>9 DEF Next
<1> QED BY <1>1, <1>2, PTL DEF Spec

-----------------------------------------------------------------------------
(* The tree of records *)

\* A command that decides leaves the file and the heads read alone.
LEMMA DecisionSteps ==
  ASSUME NEW c \in Controllers,
         \/ Authorize(c) \/ Start(c) \/ RequestActivity(c) \/ DeclareStop(c)
         \/ AcknowledgeStop(c) \/ RecordDecision(c) \/ Complete(c)
  PROVE  \E p : Decide(c, p)
  BY DEF Authorize, Start, RequestActivity, DeclareStop, AcknowledgeStop,
         RecordDecision, Complete

\* A controller about to append holds the head of some line of the file.
HeadInTree ==
  \A c \in Controllers :
    pc[c] = "headed" =>
      /\ head[c].sequence + 1 = Len(head[c].digest)
      /\ \/ head[c].digest = GenesisPrev
         \/ \E j \in DOMAIN ledger : head[c].digest = RecordHash(ledger[j])

\* Each line commits to the genesis value or to an earlier line, and its
\* sequence number counts the lines it commits to.
THEOREM TreeOfRecords == Spec => []ChainIsTree
<1>1. Init => ChainIsTree /\ HeadInTree
  BY DEF Init, ChainIsTree, HeadInTree
<1>2. TypeOK /\ ChainIsTree /\ HeadInTree /\ [Next]_vars => ChainIsTree' /\ HeadInTree'
  <2> SUFFICES ASSUME TypeOK, ChainIsTree, HeadInTree, [Next]_vars
               PROVE  ChainIsTree' /\ HeadInTree'
    OBVIOUS
  <2>0. ledger \in Seq(LedgerRecord)
    BY DEF TypeOK
  <2>1. CASE UNCHANGED vars
    BY <2>1 DEF vars, ChainIsTree, HeadInTree
  <2>2. ASSUME NEW c \in Controllers, NEW p, Decide(c, p)
        PROVE  ChainIsTree' /\ HeadInTree'
    BY <2>2 DEF Decide, ChainIsTree, HeadInTree, TypeOK
  <2>3. ASSUME NEW c \in Controllers, ReadHead(c) PROVE ChainIsTree' /\ HeadInTree'
    <3>1. UNCHANGED ledger /\ head'[c] = LedgerHead(ledger)
      BY <2>3 DEF ReadHead, TypeOK
    <3>2. \A d \in Controllers : d # c => head'[d] = head[d] /\ pc'[d] = pc[d]
      BY <2>3 DEF ReadHead, TypeOK
    <3>3. /\ LedgerHead(ledger).sequence + 1 = Len(LedgerHead(ledger).digest)
          /\ \/ LedgerHead(ledger).digest = GenesisPrev
             \/ \E j \in DOMAIN ledger : LedgerHead(ledger).digest = RecordHash(ledger[j])
      <4>1. CASE ledger = << >>
        BY <4>1 DEF LedgerHead, NoHead, GenesisPrev
      <4>2. CASE ledger # << >>
        <5>1. Len(ledger) \in DOMAIN ledger /\ ledger[Len(ledger)] \in LedgerRecord
          BY <2>0, <4>2
        <5>2. ledger[Len(ledger)].sequence = Len(ledger[Len(ledger)].prev)
          BY <5>1 DEF ChainIsTree
        <5>3. Len(RecordHash(ledger[Len(ledger)])) = Len(ledger[Len(ledger)].prev) + 1
          BY <5>1 DEF RecordHash, LedgerRecord
        <5> QED BY <4>2, <5>1, <5>2, <5>3 DEF LedgerHead
      <4> QED BY <4>1, <4>2
    <3> QED BY <3>1, <3>2, <3>3 DEF ChainIsTree, HeadInTree
  <2>4. ASSUME NEW c \in Controllers, AppendRecord(c) PROVE ChainIsTree' /\ HeadInTree'
    <3> DEFINE record == [sequence |-> head[c].sequence + 1, prev |-> head[c].digest,
                          payload |-> payload[c]]
    <3>1. pc[c] = "headed" /\ ledger' = Append(ledger, record)
      BY <2>4 DEF AppendRecord
    <3>2. \A d \in Controllers : pc'[d] = "headed" => pc[d] = "headed" /\ head'[d] = head[d]
      BY <2>4 DEF AppendRecord, Exit, TypeOK
    <3>3. record \in LedgerRecord
      <4>1. head[c] \in [sequence : Nat \cup {-1}, digest : Seq(Payloads)]
            /\ payload[c] \in Payloads
        BY DEF TypeOK
      <4>2. head[c].sequence + 1 \in Nat
        BY <4>1
      <4> QED BY <4>1, <4>2 DEF LedgerRecord
    <3>4. /\ DOMAIN ledger = 1..Len(ledger)
          /\ DOMAIN ledger' = 1..(Len(ledger) + 1)
          /\ Len(ledger) \in Nat
          /\ ledger'[Len(ledger) + 1] = record
          /\ \A i \in 1..Len(ledger) : ledger'[i] = ledger[i]
      BY <2>0, <3>1, <3>3, AppendedFile
    <3>5. /\ record.sequence = Len(record.prev)
          /\ \/ record.prev = GenesisPrev
             \/ \E j \in DOMAIN ledger : record.prev = RecordHash(ledger[j])
      BY <3>1 DEF HeadInTree
    <3> HIDE DEF record
    <3>6. ChainIsTree'
      <4> SUFFICES ASSUME NEW i \in DOMAIN ledger'
                   PROVE  /\ ledger'[i].sequence = Len(ledger'[i].prev)
                          /\ \/ ledger'[i].prev = GenesisPrev
                             \/ \E j \in 1..(i - 1) : ledger'[i].prev = RecordHash(ledger'[j])
        BY DEF ChainIsTree
      <4>1. CASE i \in 1..Len(ledger)
        <5>1. \A j \in 1..(i - 1) : ledger'[j] = ledger[j]
          BY <3>4, <4>1
        <5> QED BY <3>4, <4>1, <5>1 DEF ChainIsTree
      <4>2. CASE i = Len(ledger) + 1
        <5>1. 1..(i - 1) = DOMAIN ledger
          BY <3>4, <4>2
        <5> QED BY <3>4, <3>5, <4>2, <5>1
      <4> QED BY <3>4, <4>1, <4>2
    <3>7. HeadInTree'
      <4>1. \A j \in DOMAIN ledger : j \in DOMAIN ledger' /\ ledger'[j] = ledger[j]
        BY <3>4
      <4> QED BY <3>1, <3>2, <4>1 DEF HeadInTree
    <3> QED BY <3>6, <3>7
  <2>5. ASSUME NEW c \in Controllers, Kill(c) PROVE ChainIsTree' /\ HeadInTree'
    BY <2>5 DEF Kill, Exit, ChainIsTree, HeadInTree, TypeOK
  <2> QED BY <2>1, <2>2, <2>3, <2>4, <2>5, DecisionSteps DEF Next
<1> QED BY <1>1, <1>2, TypeCorrect, PTL DEF Spec

\* A line that commits to something no other line commits to follows the last
\* one of a chain.
LEMMA OnlyTheLastIsFree ==
  ASSUME NEW file \in Seq(LedgerRecord), NEW record \in LedgerRecord, Verify(file),
         record.sequence = Len(record.prev),
         \/ record.prev = GenesisPrev
         \/ \E j \in DOMAIN file : record.prev = RecordHash(file[j]),
         \A i \in DOMAIN file : file[i].sequence = Len(file[i].prev),
         \A i \in DOMAIN file : file[i].prev # record.prev
  PROVE  Commits(Append(file, record), Len(file) + 1)
<1> DEFINE n == Len(file)
           longer == Append(file, record)
<1>1. /\ n \in Nat
      /\ DOMAIN file = 1..n
      /\ longer[n + 1] = record
      /\ \A i \in 1..n : longer[i] = file[i]
  BY AppendedFile
<1> HIDE DEF n, longer
<1>2. \A i \in 1..n : file[i].sequence = i - 1
  BY <1>1 DEF Verify, Commits
<1>3. CASE record.prev = GenesisPrev
  <2>1. n = 0
    <3>1. 1 \in 1..n => file[1].prev = GenesisPrev
      BY <1>1 DEF Verify, Commits
    <3> QED BY <1>1, <1>3, <3>1
  <2>2. record.sequence = 0
    BY <1>3 DEF GenesisPrev
  <2> QED BY <1>1, <1>3, <2>1, <2>2 DEF Commits, n, longer
<1>4. ASSUME NEW j \in 1..n, record.prev = RecordHash(file[j])
      PROVE  Commits(longer, n + 1)
  <2>1. j = n
    <3>1. ASSUME j # n PROVE FALSE
      <4>1. j + 1 \in 1..n /\ j + 1 # 1 /\ (j + 1) - 1 = j
        BY <1>1, <1>4, <3>1
      <4>2. file[j + 1].prev = RecordHash(file[(j + 1) - 1])
        BY <1>1, <4>1 DEF Verify, Commits
      <4> QED BY <1>1, <1>4, <4>1, <4>2
    <3> QED BY <3>1
  <2>2. file[n].prev \in Seq(Payloads)
    <3>1. \A i \in DOMAIN file : file[i] \in LedgerRecord
      OBVIOUS
    <3>2. file[n] \in LedgerRecord
      BY <1>1, <2>1, <3>1
    <3> QED BY <3>2 DEF LedgerRecord
  <2>3. Len(record.prev) = Len(file[n].prev) + 1
    BY <1>4, <2>1, <2>2 DEF RecordHash
  <2>4. Len(file[n].prev) = n - 1
    BY <1>1, <1>2, <1>4, <2>1
  <2>5. record.sequence = (n + 1) - 1
    BY <1>1, <2>3, <2>4
  <2>6. n + 1 # 1 /\ (n + 1) - 1 = n
    BY <1>1, <1>4
  <2> QED BY <1>1, <1>4, <2>1, <2>5, <2>6 DEF Commits
<1> QED BY <1>1, <1>3, <1>4 DEF n, longer

\* Verification reports exactly the ledgers in which two lines commit to the
\* same predecessor.
THEOREM ForksDetected == Spec => []ForkDetected
<1> DEFINE Apart(file) == \A i, j \in DOMAIN file : i # j => file[i].prev # file[j].prev
           Inv == Apart(ledger) => Verify(ledger)
<1>1. Init => Inv
  BY DEF Init, Verify
<1>2. TypeOK /\ ChainIsTree /\ ChainIsTree' /\ Inv /\ [Next]_vars => Inv'
  <2> SUFFICES ASSUME TypeOK, ChainIsTree, ChainIsTree', Inv, [Next]_vars, Apart(ledger')
               PROVE  Verify(ledger')
    OBVIOUS
  <2>0. ledger \in Seq(LedgerRecord)
    BY DEF TypeOK
  <2>1. CASE UNCHANGED ledger
    BY <2>1
  <2>2. ASSUME NEW c \in Controllers, AppendRecord(c) PROVE Verify(ledger')
    <3> DEFINE record == [sequence |-> head[c].sequence + 1, prev |-> head[c].digest,
                          payload |-> payload[c]]
               n == Len(ledger)
    <3>1. ledger' = Append(ledger, record)
      BY <2>2 DEF AppendRecord
    <3>2. record \in LedgerRecord
      <4>1. head[c] \in [sequence : Nat \cup {-1}, digest : Seq(Payloads)]
            /\ payload[c] \in Payloads
        BY DEF TypeOK
      <4>2. head[c].sequence + 1 \in Nat
        BY <4>1
      <4> QED BY <4>1, <4>2 DEF LedgerRecord
    <3> HIDE DEF record
    <3>3. /\ n \in Nat
          /\ DOMAIN ledger = 1..n
          /\ DOMAIN ledger' = 1..(n + 1)
          /\ ledger'[n + 1] = record
          /\ \A i \in 1..n : ledger'[i] = ledger[i]
      BY <2>0, <3>1, <3>2, AppendedFile
    <3>4. Verify(ledger)
      <4>1. \A i, j \in 1..n : i # j => ledger[i].prev # ledger[j].prev
        BY <3>3
      <4> QED BY <3>3, <4>1
    <3>5. \A i \in 1..n : ledger[i].prev # record.prev
      BY <3>3
    <3>6. /\ record.sequence = Len(record.prev)
          /\ \/ record.prev = GenesisPrev
             \/ \E j \in DOMAIN ledger : record.prev = RecordHash(ledger[j])
      <4>1. n + 1 \in DOMAIN ledger' /\ (n + 1) - 1 = n
        BY <3>3
      <4>2. /\ record.sequence = Len(record.prev)
            /\ \/ record.prev = GenesisPrev
               \/ \E j \in 1..n : record.prev = RecordHash(ledger'[j])
        BY <3>3, <4>1 DEF ChainIsTree
      <4> QED BY <3>3, <4>2
    <3>7. Commits(ledger', n + 1)
      <4>1. \A i \in DOMAIN ledger : ledger[i].sequence = Len(ledger[i].prev)
        BY DEF ChainIsTree
      <4> QED BY <2>0, <3>1, <3>2, <3>3, <3>4, <3>5, <3>6, <4>1, OnlyTheLastIsFree
    <3>8. ASSUME NEW i \in 1..n PROVE Commits(ledger', i)
      <4>1. Commits(ledger, i) /\ ledger'[i] = ledger[i]
        BY <3>3, <3>4 DEF Verify
      <4>2. i # 1 => ledger'[i - 1] = ledger[i - 1]
        BY <3>3
      <4> QED BY <4>1, <4>2 DEF Commits
    <3>9. \A i \in 1..(n + 1) : i \in 1..n \/ i = n + 1
      BY <3>3
    <3> QED BY <3>3, <3>7, <3>8, <3>9 DEF Verify
  <2>3. ASSUME NEW c \in Controllers, ReadHead(c) \/ Kill(c) PROVE UNCHANGED ledger
    BY <2>3 DEF ReadHead, Kill
  <2>4. ASSUME NEW c \in Controllers, NEW p, Decide(c, p) PROVE UNCHANGED ledger
    BY <2>4 DEF Decide
  <2>5. UNCHANGED vars => UNCHANGED ledger
    BY DEF vars
  <2> QED BY <2>1, <2>2, <2>3, <2>4, <2>5, DecisionSteps DEF Next
<1>3. TypeOK /\ ChainIsTree /\ Inv => ForkDetected
  <2> SUFFICES ASSUME TypeOK, ChainIsTree, Verify(ledger),
                      NEW i \in DOMAIN ledger, NEW j \in DOMAIN ledger, i # j
               PROVE  ledger[i].prev # ledger[j].prev
    BY DEF ForkDetected
  <2>1. i \in Nat /\ j \in Nat
    BY DEF TypeOK
  <2>2. Len(ledger[i].prev) = i - 1 /\ Len(ledger[j].prev) = j - 1
    BY DEF ChainIsTree, Verify, Commits
  <2> QED BY <2>1, <2>2
<1> HIDE DEF Inv
<1> QED BY <1>1, <1>2, <1>3, TypeCorrect, TreeOfRecords, PTL DEF Spec

-----------------------------------------------------------------------------
(* Commands that do not overlap *)

\* As long as no two commands have overlapped, one at most is under way.
Alone ==
  ~overlapped =>
    \A c, d \in Controllers : pc[c] # "idle" /\ pc[d] # "idle" => c = d

LEMMA AloneInvariant == Spec => []Alone
<1>1. Init => Alone
  BY DEF Init, Alone
<1>2. TypeOK /\ Alone /\ [Next]_vars => Alone'
  <2> SUFFICES ASSUME TypeOK, Alone, [Next]_vars PROVE Alone'
    OBVIOUS
  <2>1. CASE UNCHANGED vars
    BY <2>1 DEF vars, Alone
  <2>2. ASSUME NEW c \in Controllers, NEW p, Decide(c, p) PROVE Alone'
    BY <2>2 DEF Decide, Alone, TypeOK
  <2>3. ASSUME NEW c \in Controllers, ReadHead(c) PROVE Alone'
    BY <2>3 DEF ReadHead, Alone, TypeOK
  <2>4. ASSUME NEW c \in Controllers, AppendRecord(c) \/ Kill(c) PROVE Alone'
    BY <2>4 DEF AppendRecord, Kill, Exit, Alone, TypeOK
  <2> QED BY <2>1, <2>2, <2>3, <2>4, DecisionSteps DEF Next
<1> QED BY <1>1, <1>2, TypeCorrect, PTL DEF Spec

\* Once commands have overlapped, they have; and while they have not, a step
\* of one finds every other idle and leaves it so.
LEMMA OverlapStays ==
  ASSUME [Next]_vars, ~overlapped'
  PROVE  ~overlapped
<1>1. CASE UNCHANGED vars
  BY <1>1 DEF vars
<1>2. ASSUME NEW c \in Controllers, NEW p, Decide(c, p) PROVE ~overlapped
  BY <1>2 DEF Decide
<1>3. ASSUME NEW c \in Controllers, ReadHead(c) \/ AppendRecord(c) \/ Kill(c)
      PROVE  ~overlapped
  BY <1>3 DEF ReadHead, AppendRecord, Kill, Exit
<1> QED BY <1>1, <1>2, <1>3, DecisionSteps DEF Next

LEMMA OthersIdle ==
  ASSUME TypeOK, Alone, ~overlapped', NEW c \in Controllers,
         \/ AppendRecord(c) \/ \E p : Decide(c, p)
  PROVE  \A d \in Controllers : pc'[d] # "idle" => d = c
<1>1. CASE AppendRecord(c)
  BY <1>1 DEF AppendRecord, Exit, Alone, TypeOK
<1>2. ASSUME NEW p, Decide(c, p) PROVE \A d \in Controllers : pc'[d] # "idle" => d = c
  BY <1>2 DEF Decide, Alone, TypeOK
<1> QED BY <1>1, <1>2

-----------------------------------------------------------------------------
(* The chain *)

\* The head a controller is about to append to is still the file's head.
HeadCurrent ==
  \A c \in Controllers : pc[c] = "headed" => head[c] = LedgerHead(ledger)

\* As long as no two commands overlap the ledger verifies, whichever are killed.
THEOREM Chained == Spec => []ChainVerifies
<1> DEFINE Inv == ~overlapped => CommitsToPrevious /\ HeadCurrent
<1>1. Init => Inv
  BY DEF Init, CommitsToPrevious, Verify, HeadCurrent
<1>2. TypeOK /\ Alone /\ Inv /\ [Next]_vars => Inv'
  <2> SUFFICES ASSUME TypeOK, Alone, [Next]_vars, ~overlapped', Inv
               PROVE  CommitsToPrevious' /\ HeadCurrent'
    OBVIOUS
  <2> USE OverlapStays
  <2>0. ledger \in Seq(LedgerRecord) /\ CommitsToPrevious /\ HeadCurrent
    BY DEF TypeOK
  <2>1. CASE UNCHANGED vars
    BY <2>0, <2>1 DEF vars, CommitsToPrevious, HeadCurrent
  <2>2. ASSUME NEW c \in Controllers, NEW p, Decide(c, p)
        PROVE  CommitsToPrevious' /\ HeadCurrent'
    BY <2>0, <2>2 DEF Decide, CommitsToPrevious, HeadCurrent, TypeOK
  <2>3. ASSUME NEW c \in Controllers, ReadHead(c)
        PROVE  CommitsToPrevious' /\ HeadCurrent'
    <3>1. UNCHANGED ledger /\ head'[c] = LedgerHead(ledger)
      BY <2>3 DEF ReadHead, TypeOK
    <3>2. \A d \in Controllers : d # c => head'[d] = head[d] /\ pc'[d] = pc[d]
      BY <2>3 DEF ReadHead, TypeOK
    <3> QED BY <2>0, <3>1, <3>2 DEF CommitsToPrevious, HeadCurrent
  <2>4. ASSUME NEW c \in Controllers, AppendRecord(c)
        PROVE  CommitsToPrevious' /\ HeadCurrent'
    <3> DEFINE record == [sequence |-> head[c].sequence + 1, prev |-> head[c].digest,
                          payload |-> payload[c]]
    <3>1. pc[c] = "headed" /\ ledger' = Append(ledger, record) /\ pc'[c] = "idle"
      BY <2>4 DEF AppendRecord, Exit, TypeOK
    <3>2. record.sequence = LedgerHead(ledger).sequence + 1
          /\ record.prev = LedgerHead(ledger).digest
      BY <2>0, <3>1 DEF HeadCurrent
    <3> HIDE DEF record
    <3>3. /\ DOMAIN ledger = 1..Len(ledger)
          /\ DOMAIN ledger' = 1..(Len(ledger) + 1)
          /\ Len(ledger) \in Nat
          /\ ledger'[Len(ledger) + 1] = record
          /\ \A i \in 1..Len(ledger) : ledger'[i] = ledger[i]
      BY <2>0, <3>1
    <3>4. /\ record.sequence = Len(ledger)
          /\ record.prev = IF Len(ledger) = 0 THEN GenesisPrev
                           ELSE RecordHash(ledger[Len(ledger)])
      <4>1. CASE ledger = << >>
        BY <3>2, <4>1 DEF LedgerHead, NoHead
      <4>2. CASE ledger # << >>
        <5>1. Len(ledger) \in DOMAIN ledger /\ Len(ledger) # 0
          BY <2>0, <4>2
        <5>2. ledger[Len(ledger)].sequence = Len(ledger) - 1
          BY <2>0, <5>1 DEF CommitsToPrevious, Verify, Commits
        <5> QED BY <3>2, <3>3, <4>2, <5>1, <5>2 DEF LedgerHead
      <4> QED BY <4>1, <4>2
    <3>5. CommitsToPrevious'
      <4> SUFFICES ASSUME NEW i \in DOMAIN ledger'
                   PROVE  Commits(ledger', i)
        BY DEF CommitsToPrevious, Verify
      <4>1. CASE i \in 1..Len(ledger)
        <5>1. Commits(ledger, i)
          BY <2>0, <3>3, <4>1 DEF CommitsToPrevious, Verify
        <5>2. i # 1 => ledger'[i - 1] = ledger[i - 1]
          BY <3>3, <4>1
        <5> QED BY <3>3, <4>1, <5>1, <5>2 DEF Commits
      <4>2. CASE i = Len(ledger) + 1
        <5>1. i # 1 => ledger'[i - 1] = ledger[Len(ledger)]
          BY <3>3, <4>2
        <5>2. i = 1 <=> Len(ledger) = 0
          BY <3>3, <4>2
        <5> QED BY <3>3, <3>4, <4>2, <5>1, <5>2 DEF Commits
      <4> QED BY <3>3, <4>1, <4>2
    <3>6. HeadCurrent'
      BY <2>4, <3>1, OthersIdle DEF HeadCurrent
    <3> QED BY <3>5, <3>6
  <2>5. ASSUME NEW c \in Controllers, Kill(c) PROVE CommitsToPrevious' /\ HeadCurrent'
    BY <2>0, <2>5 DEF Kill, Exit, CommitsToPrevious, HeadCurrent, TypeOK
  <2> QED BY <2>1, <2>2, <2>3, <2>4, <2>5, DecisionSteps DEF Next
<1>3. Inv => ChainVerifies
  BY DEF ChainVerifies
<1> QED BY <1>1, <1>2, <1>3, TypeCorrect, AloneInvariant, PTL DEF Spec

-----------------------------------------------------------------------------
(* The stop authority *)

\* A command that is under way has decided on the file as it still is.
VerdictCurrent ==
  \A c \in Controllers :
    pc[c] # "idle" =>
      /\ payload[c].event = "authorized" => ledger = << >>
      /\ /\ payload[c].event = "activity"
         /\ payload[c].accepted
         /\ ~payload[c].observed
         => ~AfterStop(ledger)

\* Of the stops declared, one is the last.
LastStop ==
  Events(ledger, "stop") # {} => Latest(Events(ledger, "stop")) # {}

StopInv ==
  /\ OneExercise
  /\ StopHoldsUntilAdvisory
  /\ LastStop

\* In a ledger with one exercise a replay remembers every stop.
LEMMA EveryStopCounts ==
  ASSUME TypeOK, OneExercise, ~overlapped
  PROVE  StopsOf(ledger) = Events(ledger, "stop")
<1>1. ledger \in Seq(LedgerRecord)
  BY DEF TypeOK
<1>2. \A i \in Events(ledger, "stop") : i \in Nat /\ 1 <= i
  BY <1>1 DEF Events
<1> QED BY <1>2 DEF StopsOf, SinceAuthorized, OneExercise

\* What each command decides on.
LEMMA DecisionIsCurrent ==
  ASSUME TypeOK, Alone, OneExercise, ~overlapped, ~overlapped', NEW c \in Controllers,
         \/ Authorize(c) \/ Start(c) \/ RequestActivity(c) \/ DeclareStop(c)
         \/ AcknowledgeStop(c) \/ RecordDecision(c) \/ Complete(c)
  PROVE  UNCHANGED ledger /\ VerdictCurrent'
<1>1. ASSUME NEW p, Decide(c, p)
      PROVE  UNCHANGED ledger /\ \A d \in Controllers : pc'[d] # "idle" => payload'[d] = p
  <2>1. \A d \in Controllers : pc'[d] # "idle" => d = c
    BY <1>1, OthersIdle
  <2> QED BY <1>1, <2>1 DEF Decide, TypeOK
<1>2. CASE Authorize(c)
  <2>1. PICK p : Decide(c, p) /\ p.event = "authorized" /\ ledger = << >>
    BY <1>2 DEF Authorize
  <2> QED BY <1>1, <2>1 DEF VerdictCurrent
<1>3. CASE Start(c)
  <2>1. PICK p : Decide(c, p) /\ p.event = "started"
    BY <1>3 DEF Start
  <2> QED BY <1>1, <2>1 DEF VerdictCurrent
<1>4. CASE RequestActivity(c)
  <2>1. PICK p : /\ Decide(c, p) /\ p.event = "activity"
                 /\ p.accepted /\ ~p.observed => ~AfterStop(ledger)
    BY <1>4 DEF RequestActivity, Adjudicate
  <2>2. UNCHANGED AfterStop(ledger)
    BY <1>1, <2>1 DEF AfterStop, StopsOf, SinceAuthorized, Events, Latest
  <2> QED BY <1>1, <2>1, <2>2 DEF VerdictCurrent
<1>5. CASE DeclareStop(c)
  <2>1. PICK p : Decide(c, p) /\ p.event = "stop"
    BY <1>5 DEF DeclareStop
  <2> QED BY <1>1, <2>1 DEF VerdictCurrent
<1>6. CASE AcknowledgeStop(c)
  <2>1. PICK p : Decide(c, p) /\ p.event = "acknowledged"
    BY <1>6 DEF AcknowledgeStop
  <2> QED BY <1>1, <2>1 DEF VerdictCurrent
<1>7. CASE RecordDecision(c) \/ Complete(c)
  <2>1. PICK p : Decide(c, p) /\ p.event \in {"decision", "completed"}
    BY <1>7 DEF RecordDecision, Complete
  <2> QED BY <1>1, <2>1 DEF VerdictCurrent
<1> QED BY <1>2, <1>3, <1>4, <1>5, <1>6, <1>7

\* The line a command appends keeps the history of stops in order.
LEMMA AppendKeepsStops ==
  ASSUME TypeOK, StopInv, VerdictCurrent, ~overlapped,
         NEW c \in Controllers, AppendRecord(c)
  PROVE  StopInv'
<1> DEFINE record == [sequence |-> head[c].sequence + 1, prev |-> head[c].digest,
                      payload |-> payload[c]]
           n == Len(ledger)
<1>1. pc[c] = "headed" /\ ledger' = Append(ledger, record) /\ record.payload = payload[c]
  BY DEF AppendRecord
<1>2. ledger \in Seq(LedgerRecord) /\ payload[c] \in Payloads
  BY DEF TypeOK
<1> HIDE DEF record
<1>3. /\ n \in Nat
      /\ DOMAIN ledger = 1..n
      /\ DOMAIN ledger' = 1..(n + 1)
      /\ ledger'[n + 1] = record
      /\ \A i \in 1..n : ledger'[i] = ledger[i]
  BY <1>1, <1>2
<1>4. \A e : /\ \A i \in Events(ledger, e) : i \in 1..n /\ i \in Nat /\ i < n + 1
             /\ \A i \in Events(ledger, e) :
                  i \in Events(ledger', e) /\ ledger'[i] = ledger[i]
             /\ \A i \in Events(ledger', e) :
                  \/ i \in Events(ledger, e)
                  \/ i = n + 1 /\ payload[c].event = e
             /\ payload[c].event = e => n + 1 \in Events(ledger', e)
  BY <1>1, <1>3 DEF Events
<1>5. /\ payload[c].event = "authorized" => n = 0
      /\ payload[c].event = "activity" /\ payload[c].accepted /\ ~payload[c].observed
           => ~AfterStop(ledger)
  BY <1>1, <1>2 DEF VerdictCurrent
<1> HIDE DEF n
<1>6. OneExercise'
  BY <1>3, <1>4, <1>5 DEF StopInv, OneExercise
<1>7. StopHoldsUntilAdvisory'
  <2> SUFFICES ASSUME NEW s \in Events(ledger', "stop"), NEW i \in Events(ledger', "activity"),
                      ledger'[s].payload.severity = "mandatory", s < i,
                      ledger'[i].payload.accepted, ~ledger'[i].payload.observed
               PROVE  \E k \in Events(ledger', "stop") :
                        s < k /\ k < i /\ ledger'[k].payload.severity = "advisory"
    BY DEF StopHoldsUntilAdvisory
  <2>0. s \in Events(ledger, "stop")
    BY <1>4, <1>3
  <2>1. CASE i \in Events(ledger, "activity")
    <3>1. PICK k \in Events(ledger, "stop") :
            s < k /\ k < i /\ ledger[k].payload.severity = "advisory"
      BY <1>4, <2>0, <2>1 DEF StopInv, StopHoldsUntilAdvisory
    <3> QED BY <1>4, <3>1
  <2>2. CASE i = n + 1 /\ payload[c].event = "activity"
    <3>1. ~AfterStop(ledger)
      BY <1>1, <1>3, <1>5, <2>2
    <3>2. PICK k : k \in Latest(Events(ledger, "stop"))
      BY <2>0 DEF StopInv, LastStop
    <3>3. k \in Events(ledger, "stop") /\ s <= k
      BY <2>0, <3>2 DEF Latest
    <3>4. ledger[k].payload.severity # "mandatory"
      BY <3>1, <3>2, EveryStopCounts DEF StopInv, AfterStop
    <3>5. ledger[k].payload.severity = "advisory"
      <4>0. k \in 1..Len(ledger) /\ ledger[k].payload.event = "stop"
        BY <1>2, <3>3 DEF Events
      <4>1. ledger[k].payload \in Payloads /\ ledger[k].payload.event = "stop"
        <5>1. ledger[k] \in LedgerRecord
          BY <1>2, <4>0
        <5> QED BY <4>0, <5>1 DEF LedgerRecord
      <4>2. ledger[k].payload.severity \in Severities
        BY <4>1, PayloadShapes DEF StopRecords
      <4> QED BY <3>4, <4>2, SeveritiesAssumption
    <3>6. s # k /\ s \in Nat /\ k \in Nat /\ k < i
      BY <1>4, <2>0, <2>2, <3>3, <3>4
    <3> QED BY <1>4, <3>3, <3>5, <3>6
  <2> QED BY <1>4, <2>1, <2>2
<1>8. LastStop'
  <2>1. CASE payload[c].event = "stop"
    <3>1. n + 1 \in Latest(Events(ledger', "stop"))
      BY <1>3, <1>4, <2>1 DEF Latest
    <3> QED BY <3>1 DEF LastStop
  <2>2. CASE payload[c].event # "stop"
    <3>1. Events(ledger', "stop") = Events(ledger, "stop")
      BY <1>4, <2>2
    <3> QED BY <3>1 DEF StopInv, LastStop
  <2> QED BY <2>1, <2>2
<1> QED BY <1>6, <1>7, <1>8 DEF StopInv

LEMMA StopInvariant == Spec => [](~overlapped => StopInv /\ VerdictCurrent)
<1> DEFINE Inv == ~overlapped => StopInv /\ VerdictCurrent
<1>1. Init => Inv
  BY DEF Init, StopInv, VerdictCurrent, OneExercise, StopHoldsUntilAdvisory,
         LastStop, Events
<1>2. TypeOK /\ Alone /\ Inv /\ [Next]_vars => Inv'
  <2> SUFFICES ASSUME TypeOK, Alone, Inv, [Next]_vars, ~overlapped'
               PROVE  StopInv' /\ VerdictCurrent'
    OBVIOUS
  <2>0. ~overlapped /\ StopInv /\ VerdictCurrent
    BY OverlapStays
  <2>1. UNCHANGED ledger => StopInv'
    BY <2>0 DEF StopInv, OneExercise, StopHoldsUntilAdvisory,
                LastStop, Events, Latest
  <2>2. ASSUME UNCHANGED ledger,
               \A c \in Controllers :
                 pc'[c] # "idle" => pc[c] # "idle" /\ payload'[c] = payload[c]
        PROVE  VerdictCurrent'
    BY <2>0, <2>2 DEF VerdictCurrent, AfterStop, StopsOf, SinceAuthorized, Events, Latest
  <2>3. CASE UNCHANGED vars
    BY <2>1, <2>2, <2>3 DEF vars
  <2>4. ASSUME NEW c \in Controllers,
               \/ Authorize(c) \/ Start(c) \/ RequestActivity(c) \/ DeclareStop(c)
               \/ AcknowledgeStop(c) \/ RecordDecision(c) \/ Complete(c)
        PROVE  StopInv' /\ VerdictCurrent'
    BY <2>0, <2>1, <2>4, DecisionIsCurrent DEF StopInv
  <2>5. ASSUME NEW c \in Controllers, ReadHead(c) \/ Kill(c)
        PROVE  StopInv' /\ VerdictCurrent'
    <3>1. UNCHANGED ledger
      BY <2>5 DEF ReadHead, Kill
    <3>2. \A d \in Controllers :
            pc'[d] # "idle" => pc[d] # "idle" /\ payload'[d] = payload[d]
      BY <2>5 DEF ReadHead, Kill, Exit, TypeOK
    <3> QED BY <2>1, <2>2, <3>1, <3>2
  <2>6. ASSUME NEW c \in Controllers, AppendRecord(c) PROVE StopInv' /\ VerdictCurrent'
    <3>1. \A d \in Controllers : pc'[d] = "idle"
      <4>1. pc'[c] = "idle"
        BY <2>6 DEF AppendRecord, Exit, TypeOK
      <4> QED BY <2>6, <4>1, OthersIdle
    <3> QED BY <2>0, <2>6, <3>1, AppendKeepsStops DEF VerdictCurrent
  <2> QED BY <2>3, <2>4, <2>5, <2>6 DEF Next
<1> QED BY <1>1, <1>2, TypeCorrect, AloneInvariant, PTL DEF Spec

\* As long as no two commands overlap, a ledger holds one exercise, and nothing
\* White permits follows a mandatory stop but after an advisory one.
THEOREM StopAuthority == Spec => [](OneExercise /\ StopHoldsUntilAdvisory)
<1>1. (~overlapped => StopInv /\ VerdictCurrent) => OneExercise /\ StopHoldsUntilAdvisory
  BY DEF StopInv, OneExercise, StopHoldsUntilAdvisory
<1> QED BY <1>1, StopInvariant, PTL

-----------------------------------------------------------------------------
(* The scorecard *)

\* A command about to record an activity has judged it by the file as it is.
FlagsCurrent ==
  \A c \in Controllers :
    pc[c] # "idle" /\ payload[c].event = "activity" =>
      /\ payload[c].in_scope = InScope(ledger, payload[c].request)
      /\ payload[c].after_stop = AfterStop(ledger)

\* The flags of an activity say what the lines around it say.
FlagsTrue ==
  \A i \in Events(ledger, "activity") :
    /\ ledger[i].payload.in_scope =>
         \A a \in Events(ledger, "authorized") :
           ledger[i].payload.request \in ledger[a].payload.scope
    /\ ~ledger[i].payload.after_stop =>
         \A s \in Events(ledger, "stop") :
           /\ s < i
           /\ ledger[s].payload.severity = "mandatory"
           => \E k \in Events(ledger, "stop") : s < k /\ k < i

\* A decision keeps both: it leaves the file alone, and an activity's verdict
\* is made of the two flags.
LEMMA DecisionKeepsFlags ==
  ASSUME TypeOK, Alone, FlagsTrue, ~overlapped, ~overlapped', NEW c \in Controllers,
         \/ Authorize(c) \/ Start(c) \/ RequestActivity(c) \/ DeclareStop(c)
         \/ AcknowledgeStop(c) \/ RecordDecision(c) \/ Complete(c)
  PROVE  FlagsTrue' /\ FlagsCurrent'
<1>1. PICK p : /\ Decide(c, p)
               /\ p.event = "activity" =>
                    /\ p.in_scope = InScope(ledger, p.request)
                    /\ p.after_stop = AfterStop(ledger)
  <2>1. CASE RequestActivity(c)
    BY <2>1 DEF RequestActivity, Adjudicate
  <2>2. CASE Authorize(c)
    BY <2>2 DEF Authorize
  <2>3. CASE Start(c) \/ RecordDecision(c) \/ Complete(c)
    BY <2>3 DEF Start, RecordDecision, Complete
  <2>4. CASE DeclareStop(c)
    BY <2>4 DEF DeclareStop
  <2>5. CASE AcknowledgeStop(c)
    BY <2>5 DEF AcknowledgeStop
  <2> QED BY <2>1, <2>2, <2>3, <2>4, <2>5
<1>2. \A d \in Controllers : pc'[d] # "idle" => d = c
  BY <1>1, OthersIdle
<1>3. UNCHANGED ledger /\ payload'[c] = p
  BY <1>1 DEF Decide, TypeOK
<1>4. \A q : UNCHANGED InScope(ledger, q)
  BY <1>3 DEF InScope, Authorization, Events, Latest
<1>5. UNCHANGED AfterStop(ledger)
  BY <1>3 DEF AfterStop, StopsOf, SinceAuthorized, Events, Latest
<1>6. FlagsTrue'
  BY <1>3 DEF FlagsTrue, Events
<1> QED BY <1>1, <1>2, <1>3, <1>4, <1>5, <1>6 DEF FlagsCurrent

\* The line appended is judged like the others.
LEMMA AppendKeepsFlags ==
  ASSUME TypeOK, StopInv, VerdictCurrent, FlagsTrue, FlagsCurrent, ~overlapped,
         NEW c \in Controllers, AppendRecord(c)
  PROVE  FlagsTrue'
<1> DEFINE record == [sequence |-> head[c].sequence + 1, prev |-> head[c].digest,
                      payload |-> payload[c]]
           n == Len(ledger)
<1>1. pc[c] = "headed" /\ ledger' = Append(ledger, record) /\ record.payload = payload[c]
  BY DEF AppendRecord
<1>2. ledger \in Seq(LedgerRecord) /\ payload[c] \in Payloads
  BY DEF TypeOK
<1> HIDE DEF record
<1>3. /\ n \in Nat
      /\ DOMAIN ledger = 1..n
      /\ DOMAIN ledger' = 1..(n + 1)
      /\ ledger'[n + 1] = record
      /\ \A i \in 1..n : ledger'[i] = ledger[i]
  BY <1>1, <1>2
<1>4. \A e : /\ \A i \in Events(ledger, e) : i \in 1..n /\ i \in Nat /\ i < n + 1
             /\ \A i \in Events(ledger, e) :
                  i \in Events(ledger', e) /\ ledger'[i] = ledger[i]
             /\ \A i \in Events(ledger', e) :
                  \/ i \in Events(ledger, e)
                  \/ i = n + 1 /\ payload[c].event = e
  BY <1>1, <1>3 DEF Events
<1>5. payload[c].event = "authorized" => n = 0
  BY <1>1, <1>2 DEF VerdictCurrent
<1>6. payload[c].event = "activity" =>
        /\ payload[c].in_scope = InScope(ledger, payload[c].request)
        /\ payload[c].after_stop = AfterStop(ledger)
  BY <1>1 DEF FlagsCurrent
<1> HIDE DEF n
<1> SUFFICES ASSUME NEW i \in Events(ledger', "activity")
             PROVE  /\ ledger'[i].payload.in_scope =>
                         \A a \in Events(ledger', "authorized") :
                           ledger'[i].payload.request \in ledger'[a].payload.scope
                    /\ ~ledger'[i].payload.after_stop =>
                         \A s \in Events(ledger', "stop") :
                           /\ s < i
                           /\ ledger'[s].payload.severity = "mandatory"
                           => \E k \in Events(ledger', "stop") : s < k /\ k < i
  BY DEF FlagsTrue
<1>7. CASE i \in Events(ledger, "activity")
  <2>1. ledger'[i] = ledger[i] /\ i < n + 1 /\ i \in 1..n
    BY <1>4, <1>7
  <2>2. \A a \in Events(ledger', "authorized") :
          a \in Events(ledger, "authorized") /\ ledger'[a] = ledger[a]
    <3>1. n # 0
      BY <1>3, <2>1
    <3> QED BY <1>4, <1>5, <3>1
  <2>3. \A s \in Events(ledger', "stop") :
          s < i => s \in Events(ledger, "stop") /\ ledger'[s] = ledger[s]
    BY <1>3, <1>4, <2>1
  <2>4. \A k \in Events(ledger, "stop") : k \in Events(ledger', "stop")
    BY <1>4
  <2> QED BY <1>7, <2>1, <2>2, <2>3, <2>4 DEF FlagsTrue
<1>8. CASE i = n + 1 /\ payload[c].event = "activity"
  <2>1. ledger'[i].payload = payload[c]
    BY <1>1, <1>3, <1>8
  <2>2. \A a \in Events(ledger', "authorized") :
          a \in Events(ledger, "authorized") /\ ledger'[a] = ledger[a]
    BY <1>4, <1>8
  <2>3. ASSUME InScope(ledger, payload[c].request), NEW a \in Events(ledger, "authorized")
        PROVE  payload[c].request \in ledger[a].payload.scope
    <3>1. PICK b \in Latest(Events(ledger, "authorized")) :
            payload[c].request \in ledger[b].payload.scope
      BY <2>3 DEF InScope, Authorization
    <3>2. a = 1 /\ b = 1
      BY <3>1 DEF StopInv, OneExercise, Latest
    <3> QED BY <3>1, <3>2
  <2>4. ASSUME ~AfterStop(ledger), NEW s \in Events(ledger', "stop"), s < i,
               ledger'[s].payload.severity = "mandatory"
        PROVE  \E k \in Events(ledger', "stop") : s < k /\ k < i
    <3>1. s \in Events(ledger, "stop") /\ ledger[s].payload.severity = "mandatory"
      BY <1>4, <1>8, <2>4
    <3>2. PICK k : k \in Latest(Events(ledger, "stop"))
      BY <3>1 DEF StopInv, LastStop
    <3>3. k \in Events(ledger, "stop") /\ s <= k
      BY <3>1, <3>2 DEF Latest
    <3>4. ledger[k].payload.severity # "mandatory"
      BY <2>4, <3>2, EveryStopCounts DEF StopInv, AfterStop
    <3>5. s # k /\ s \in Nat /\ k \in Nat /\ k < i
      BY <1>4, <1>8, <3>1, <3>3, <3>4
    <3> QED BY <1>4, <3>3, <3>5
  <2> QED BY <1>6, <1>8, <2>1, <2>2, <2>3, <2>4
<1> QED BY <1>4, <1>7, <1>8

\* As long as no two commands overlap, a scorecard without automatic failures
\* means that every accepted activity was in scope, and none came after a
\* mandatory stop that no later stop had replaced.
THEOREM CleanScore == Spec => []CleanScoreIsClean
<1> DEFINE Inv == ~overlapped => FlagsTrue /\ FlagsCurrent
           Stops == ~overlapped => StopInv /\ VerdictCurrent
<1>1. Init => Inv
  BY DEF Init, FlagsTrue, FlagsCurrent, Events
<1>2. TypeOK /\ Alone /\ Stops /\ Inv /\ [Next]_vars => Inv'
  <2> SUFFICES ASSUME TypeOK, Alone, Stops, Inv, [Next]_vars, ~overlapped'
               PROVE  FlagsTrue' /\ FlagsCurrent'
    OBVIOUS
  <2>0. ~overlapped /\ StopInv /\ VerdictCurrent /\ FlagsTrue /\ FlagsCurrent
    BY OverlapStays
  <2>1. UNCHANGED ledger => FlagsTrue'
    BY <2>0 DEF FlagsTrue, Events
  <2>2. ASSUME UNCHANGED ledger,
               \A c \in Controllers :
                 pc'[c] # "idle" => pc[c] # "idle" /\ payload'[c] = payload[c]
        PROVE  FlagsCurrent'
    BY <2>0, <2>2 DEF FlagsCurrent, InScope, Authorization, AfterStop, StopsOf,
                      SinceAuthorized, Events, Latest
  <2>3. CASE UNCHANGED vars
    BY <2>1, <2>2, <2>3 DEF vars
  <2>4. ASSUME NEW c \in Controllers,
               \/ Authorize(c) \/ Start(c) \/ RequestActivity(c) \/ DeclareStop(c)
               \/ AcknowledgeStop(c) \/ RecordDecision(c) \/ Complete(c)
        PROVE  FlagsTrue' /\ FlagsCurrent'
    BY <2>0, <2>4, DecisionKeepsFlags
  <2>5. ASSUME NEW c \in Controllers, ReadHead(c) \/ Kill(c)
        PROVE  FlagsTrue' /\ FlagsCurrent'
    <3>1. UNCHANGED ledger
      BY <2>5 DEF ReadHead, Kill
    <3>2. \A d \in Controllers :
            pc'[d] # "idle" => pc[d] # "idle" /\ payload'[d] = payload[d]
      BY <2>5 DEF ReadHead, Kill, Exit, TypeOK
    <3> QED BY <2>1, <2>2, <3>1, <3>2
  <2>6. ASSUME NEW c \in Controllers, AppendRecord(c) PROVE FlagsTrue' /\ FlagsCurrent'
    <3>1. \A d \in Controllers : pc'[d] = "idle"
      <4>1. pc'[c] = "idle"
        BY <2>6 DEF AppendRecord, Exit, TypeOK
      <4> QED BY <2>6, <4>1, OthersIdle
    <3> QED BY <2>0, <2>6, <3>1, AppendKeepsFlags DEF FlagsCurrent
  <2> QED BY <2>3, <2>4, <2>5, <2>6 DEF Next
<1>3. TypeOK /\ Stops /\ Inv => CleanScoreIsClean
  <2> SUFFICES ASSUME TypeOK, Stops, Inv, ~overlapped, ~AutoFailed(ledger),
                      NEW i \in Events(ledger, "activity"), ledger[i].payload.accepted
               PROVE  /\ \A a \in Events(ledger, "authorized") :
                           ledger[i].payload.request \in ledger[a].payload.scope
                      /\ \A s \in Events(ledger, "stop") :
                           /\ s < i
                           /\ ledger[s].payload.severity = "mandatory"
                           => \E k \in Events(ledger, "stop") : s < k /\ k < i
    BY DEF CleanScoreIsClean
  <2>1. ledger \in Seq(LedgerRecord)
    BY DEF TypeOK
  <2>2. i \in Nat /\ 1 <= i
    BY <2>1 DEF Events
  <2>3. i \in AcceptedActivities(ledger)
    BY <2>2 DEF AcceptedActivities, SinceAuthorized, StopInv, OneExercise
  <2>4. ~ledger[i].payload.after_stop /\ ledger[i].payload.in_scope
    BY <2>3 DEF AutoFailed, PostStopActivity, OutOfScopeAccepted
  <2> QED BY <2>4 DEF FlagsTrue
<1> QED BY <1>1, <1>2, <1>3, TypeCorrect, AloneInvariant, StopInvariant, PTL DEF Spec

=============================================================================
