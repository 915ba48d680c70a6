---------------------------- MODULE DetectionStore ----------------------------
(***************************************************************************)
(* The evidence store of the blue team and the detection engine on it.     *)
(* Ingesting an event is several transactions: the event with its sensor's *)
(* row, then for each rule the correlation hit, a read of the suppression  *)
(* and the alert.  Events carry a time of their own and arrive in any      *)
(* order; several commands can ingest into one database, and each can be   *)
(* killed between two transactions.                                        *)
(***************************************************************************)
EXTENDS Integers, Sequences, FiniteSets

CONSTANTS Events,     \* event ids
          Time,       \* Time[e]: the instant the event says it happened
          Second,     \* instants in a second, of which only whole seconds have no fraction
          Host,       \* Host[e]: the sensor, and the group of the correlation
          RuleFiles,  \* bound: the rule files an engine can be started with
          Procs,      \* commands that can run at once
          Named,      \* events an alert names: the newest 100
          MaxTime,    \* bound: the clock stops here
          None

(* A rule as parse_rule leaves it; one without a threshold counts to one.  *)
ParsedRule ==
    [critical : BOOLEAN, allowSuppression : BOOLEAN, suppression : Nat, enabled : BOOLEAN,
     count : Nat \ {0}, within : Nat, matches : SUBSET Events]

DetectionAssumption ==
    /\ IsFiniteSet(Events) /\ Time \in [Events -> Int]
    /\ Second \in Nat \ {0} /\ Named \in Nat \ {0}
    /\ RuleFiles \subseteq Seq(ParsedRule)
    /\ MaxTime \in Nat /\ None \notin Nat \cup Events

VARIABLES now,         \* the clock of the store's host
          rules,       \* the rules that were loaded
          stored,      \* ingested_at of each event, None if it is not in the store
          sensor,      \* sensor_health by host
          hits,        \* correlation_hits: pairs of a rule and an event
          alerts,      \* alerts: rule, events it names, and how many it counted
          suppressed,  \* last_alert_at by rule and host, None before the first alert
          proc,        \* what each command is at
          correlated,  \* history: every hit that was ever recorded
          quiet        \* history: evaluations below their rule's threshold

tables == <<stored, sensor, hits, alerts, suppressed>>
history == <<correlated, quiet>>
vars == <<now, rules, tables, proc, history>>

Hosts == {Host[e] : e \in Events}

(* parse_rule: a threshold has a window, and a critical rule has to turn   *)
(* suppression off.                                                        *)
ValidRule(r) == r.within >= 1 /\ (r.critical => ~r.allowSuppression)

Idle == [pc |-> "rest", event |-> None, rule |-> 0, evidence |-> {}, at |-> 0]

(* load_rules: one rule that is not valid refuses all of them, and there   *)
(* has to be a rule.                                                       *)
Loadable == {f \in RuleFiles : f # <<>> /\ \A i \in DOMAIN f : ValidRule(f[i])}

Init ==
    /\ now = 0
    /\ rules \in Loadable
    /\ stored = [e \in Events |-> None]
    /\ sensor = [h \in Hosts |-> None]
    /\ hits = {} /\ alerts = {}
    /\ suppressed = [i \in DOMAIN rules |-> [h \in Hosts |-> None]]
    /\ proc = [p \in Procs |-> Idle]
    /\ correlated = {} /\ quiet = {}

Tick == now < MaxTime /\ now' = now + 1 /\ UNCHANGED <<rules, tables, proc, history>>
---------------------------------------------------------------------------
(* Instants are stored and compared as the text of isoformat, which leaves *)
(* out a fraction of zero.  'Z' sorts after '.', so a whole second comes    *)
(* after every fraction of it and before the next second.                  *)
Text(t) == IF t % Second = 0 THEN t + Second ELSE t

(* ON CONFLICT: time and id of the latest event move as one pair.          *)
Newer(row, e) ==
    IF Text(Time[e]) > Text(row.time)
    THEN [seen |-> now, time |-> Time[e], event |-> e] ELSE [row EXCEPT !.seen = now]

(* add_event: an event that is already stored is a duplicate and is not    *)
(* evaluated again; one with its id and another content is refused.        *)
AddEvent(p, e) ==
    /\ proc[p] = Idle
    /\ stored[e] = None
    /\ stored' = [stored EXCEPT ![e] = now]
    /\ sensor' = [sensor EXCEPT ![Host[e]] =
                      IF @ = None THEN [seen |-> now, time |-> Time[e], event |-> e] ELSE Newer(sensor[Host[e]], e)]
    /\ proc' = [proc EXCEPT ![p] = [Idle EXCEPT !.pc = "rule", !.event = e, !.rule = 1]]
    /\ UNCHANGED <<now, rules, hits, alerts, suppressed, history>>

(* The next rule, or the next line of the input.                           *)
Continue(p) ==
    proc' = [proc EXCEPT ![p] =
                IF proc[p].rule = Len(rules) THEN Idle
                ELSE [Idle EXCEPT !.pc = "rule", !.event = proc[p].event, !.rule = proc[p].rule + 1]]

Rule(p) == rules[proc[p].rule]
Applies(p) == proc[p].pc = "rule" /\ Rule(p).enabled /\ proc[p].event \in Rule(p).matches

SkipRule(p) ==
    /\ proc[p].pc = "rule" /\ ~Applies(p)
    /\ Continue(p)
    /\ UNCHANGED <<now, rules, tables, history>>

(* The text of the instant `within' seconds before event e: whole seconds  *)
(* leave its fraction as it is.                                            *)
Start(i, e) == Text(Time[e]) - rules[i].within * Second

(* Slip: the hits at the edge of the window are pruned too.                *)
TooOldAtEdge(i, d, e) == Host[d] = Host[e] /\ Text(Time[d]) <= Start(i, e)

(* DELETE ... WHERE event_time < start: relative to the event at hand.     *)
TooOld(i, d, e) == Host[d] = Host[e] /\ Text(Time[d]) < Start(i, e)

(* Slip: hits after the event at hand are counted too.                     *)
InWindowOpen(i, d, e) == Host[d] = Host[e] /\ Text(Time[d]) >= Start(i, e)

InWindow(i, d, e) ==
    Host[d] = Host[e] /\ Text(Time[d]) >= Start(i, e) /\ Text(Time[d]) <= Text(Time[e])

(* The n newest of the events S; which of two at one instant comes first   *)
(* is a matter of their ids.                                               *)
Newest(S, n) ==
    {N \in SUBSET S :
        /\ Cardinality(N) = IF Cardinality(S) <= n THEN Cardinality(S) ELSE n
        /\ \A d \in N, e \in S \ N : Text(Time[e]) <= Text(Time[d])}

(* record_correlation_hit: one transaction.  A late event does not see the *)
(* later ones, and an early one prunes for those that are still to come.   *)
Correlate(p) ==
    LET i == proc[p].rule
        e == proc[p].event
        kept == {h \in hits \cup {<<i, e>>} : ~(h[1] = i /\ TooOld(i, h[2], e))}
        counted == {d \in Events : <<i, d>> \in kept /\ InWindow(i, d, e)}
        limit == IF Rule(p).count > Named THEN Rule(p).count ELSE Named
        before == {d \in Events : <<i, d>> \in correlated /\ Host[d] = Host[e]}
    IN  /\ Applies(p) /\ Rule(p).count > 1
        /\ hits' = kept
        /\ correlated' = correlated \cup {<<i, e>>}
        /\ \E evidence \in Newest(counted, limit) :
              IF Cardinality(evidence) < Rule(p).count
              THEN Continue(p) /\ quiet' = quiet \cup {[rule |-> i, event |-> e, before |-> before]}
              ELSE /\ proc' = [proc EXCEPT ![p].pc = "suppression", ![p].evidence = evidence]
                   /\ UNCHANGED quiet
        /\ UNCHANGED <<now, rules, stored, sensor, alerts, suppressed>>

(* A rule without a threshold is about the event alone.                    *)
Single(p) ==
    /\ Applies(p) /\ Rule(p).count = 1
    /\ proc' = [proc EXCEPT ![p].pc = "suppression", ![p].evidence = {proc[p].event}]
    /\ UNCHANGED <<now, rules, tables, history>>

(* suppression_active: read outside any transaction.                       *)
Active(p) ==
    LET last == suppressed[proc[p].rule][Host[proc[p].event]]
        seconds == IF Rule(p).allowSuppression THEN Rule(p).suppression ELSE 0
    IN  seconds > 0 /\ last # None /\ now - last < seconds

CheckSuppression(p) ==
    /\ proc[p].pc = "suppression"
    /\ IF Active(p)
       THEN Continue(p)
       ELSE proc' = [proc EXCEPT ![p].pc = "alert", ![p].at = now]
    /\ UNCHANGED <<now, rules, tables, history>>

(* add_alert: the alert, which names the newest events of its evidence and *)
(* says how many there were, and the suppression it starts.                *)
AddAlert(p) ==
    /\ proc[p].pc = "alert"
    /\ \E named \in Newest(proc[p].evidence, Named) :
          alerts' = alerts \cup {[rule |-> proc[p].rule, events |-> named,
                                  count |-> Cardinality(proc[p].evidence)]}
    /\ suppressed' = [suppressed EXCEPT ![proc[p].rule][Host[proc[p].event]] = proc[p].at]
    /\ Continue(p)
    /\ UNCHANGED <<now, rules, stored, sensor, hits, history>>

(* The command is killed, or a transaction of it fails: the event stays,   *)
(* what was left to evaluate does not.                                     *)
Kill(p) ==
    /\ proc[p] # Idle
    /\ proc' = [proc EXCEPT ![p] = Idle]
    /\ UNCHANGED <<now, rules, tables, history>>

Next ==
    \/ Tick
    \/ \E p \in Procs :
        \/ \E e \in Events : AddEvent(p, e)
        \/ SkipRule(p) \/ Correlate(p) \/ Single(p) \/ CheckSuppression(p) \/ AddAlert(p) \/ Kill(p)

Spec == Init /\ [][Next]_vars
---------------------------------------------------------------------------
(* An alert counts at least as many events as its rule asks for and names  *)
(* as many of them as fit: stored events of one host that its rule         *)
(* matches, all inside one window, although they arrive late, early, and   *)
(* at several commands.  The order of the text makes a window up to a      *)
(* second longer when only some instants have a fraction                   *)
(* (record_correlation_hit, evaluate).                                     *)
AlertJustified ==
    \A a \in alerts : LET r == rules[a.rule] IN
        /\ a.count >= r.count
        /\ Cardinality(a.events) = IF a.count <= Named THEN a.count ELSE Named
        /\ \E S \in SUBSET r.matches :
              /\ a.events \subseteq S /\ Cardinality(S) = a.count
              /\ \A d, e \in S : /\ stored[d] # None /\ Host[d] = Host[e]
                                  /\ Time[e] - Time[d] <= (r.within + 1) * Second

(* What the order of the text can cost a window at each of its ends: a     *)
(* second, unless all instants have a fraction or all have none.           *)
Slack(q) ==
    IF \A d \in q.before : (Time[d] % Second = 0) = (Time[q.event] % Second = 0)
    THEN 0 ELSE Second

(* A burst whose events are evaluated in the order of their times reaches  *)
(* its rule's threshold, the event at the edge of the window included, but *)
(* for what the order of the text hides (record_correlation_hit).  Nothing *)
(* is promised for a late event.                                           *)
OrderedBurstSeen ==
    \A q \in quiet : LET r == rules[q.rule]
                          e == q.event IN
        (\A d \in q.before : Time[d] <= Time[e]) =>
            Cardinality({d \in q.before \cup {e} :
                \/ d = e
                \/ /\ Time[d] >= Time[e] - r.within * Second + Slack(q)
                   /\ Time[d] + Slack(q) <= Time[e]}) < r.count
=============================================================================
