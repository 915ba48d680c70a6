----------------------------- MODULE EdgeReports -----------------------------
(***************************************************************************)
(* What connectors report from the edge (telemetry events, AI assets and   *)
(* AI usage) and the people who set the policy and decide about assets and *)
(* violations.                                                             *)
(*                                                                         *)
(* A connector repeats a batch whose answer it did not get, and a batch    *)
(* can overlap another one with the same keys: each request looks up the   *)
(* keys it can see, and the unique constraint refuses what it could not.   *)
(* Rows are read once and written at the end of the request, only the      *)
(* columns that changed.                                                   *)
(***************************************************************************)
EXTENDS Integers, Sequences, FiniteSets

CONSTANTS Keys,       \* idempotency keys of AI usage reports and of telemetry events
          Assets,     \* what identifies an AI asset: source and external id
          Domains,    \* destination domains
          Parent,     \* Parent[d]: the domain that d is a subdomain of, d itself if none
          Policies,   \* bound: the AI policies an instance can be given
          Procs,      \* requests that can be in flight at once
          None

(* What a policy can ask for, and what is kept of a usage report.          *)
Reactions == {"monitor", "require-approval", "block"}
Policy == [default : Reactions, sensitive : Reactions, approved : SUBSET Domains, blocked : SUBSET Domains]
Verdict == [action : Reactions, sensitive : BOOLEAN, asked : Reactions, flagged : BOOLEAN]

ReportAssumption ==
    /\ Parent \in [Domains -> Domains]
    /\ Policies \subseteq Policy
    /\ None \notin Keys \cup Assets \cup Domains \cup Verdict \cup {"open", "acknowledged", "resolved"}

VARIABLES policy,     \* the ai_policies row
          asset,      \* ai_assets: disposition and category of each asset, None if undiscovered
          usage,      \* ai_usage_events by key: what they were judged to be, None if there is none
          violation,  \* policy_violations by the key of their usage: their status, None if there is none
          telemetry,  \* telemetry_events: the keys stored
          accepted,   \* history: how often a usage report with a key was counted
          txn         \* the request each process is serving

vars == <<policy, asset, usage, violation, telemetry, accepted, txn>>

Idle == [op |-> "none", batch |-> <<>>, seen |-> {}, asset |-> None, read |-> None, verdict |-> None]

Init ==
    /\ policy \in Policies /\ policy.approved \cap policy.blocked = {}
    /\ asset = [a \in Assets |-> None]
    /\ usage = [k \in Keys |-> None]
    /\ violation = [k \in Keys |-> None]
    /\ telemetry = {}
    /\ accepted = [k \in Keys |-> 0]
    /\ txn = [p \in Procs |-> Idle]

(* domain_matches: the domain itself or one it is a subdomain of.          *)
Matches(d, patterns) == d # None /\ {d, Parent[d]} \cap patterns # {}

(* update_shadow_ai_policy refuses a domain on both lists.                 *)
UpdatePolicy(new) ==
    /\ new.approved \cap new.blocked = {}
    /\ policy' = new
    /\ UNCHANGED <<asset, usage, violation, telemetry, accepted, txn>>

(* decide_ai_asset.                                                        *)
DecideAsset(a, disposition) ==
    /\ asset[a] # None
    /\ asset' = [asset EXCEPT ![a] = disposition]
    /\ UNCHANGED <<policy, usage, violation, telemetry, accepted, txn>>

(* decide_ai_violation: either decision can follow any status; a false     *)
(* positive is closed as a resolution is.                                  *)
DecideViolation(k, status) ==
    /\ violation[k] # None
    /\ violation' = [violation EXCEPT ![k] = status]
    /\ UNCHANGED <<policy, asset, usage, telemetry, accepted, txn>>
---------------------------------------------------------------------------
(* asset_disposition: a blocked domain first, then an approved vendor or   *)
(* domain.                                                                 *)
AssetDisposition(pol, vendor, d) ==
    IF Matches(d, pol.blocked) THEN "blocked"
    ELSE IF vendor \/ Matches(d, pol.approved) THEN "approved"
    ELSE "unknown"

(* ingest_assets: the row as this request read it.  A new row has no       *)
(* disposition yet when it is tested against "unknown", so the policy is   *)
(* not applied to the first report of an asset; the column default is.     *)
AssetsBegin(p, a, vendor, d) ==
    /\ txn[p] = Idle
    /\ txn' = [txn EXCEPT ![p] = [Idle EXCEPT !.op = "assets", !.asset = a, !.read = asset[a],
                                              !.verdict = AssetDisposition(policy, vendor, d)]]
    /\ UNCHANGED <<policy, asset, usage, violation, telemetry, accepted>>

AssetsCommit(p) ==
    LET t == txn[p]
    IN  /\ t.op = "assets"
        /\ t.read = None => asset[t.asset] = None
        /\ asset' = CASE t.read = None -> [asset EXCEPT ![t.asset] = "unknown"]
                      [] t.read = "unknown" /\ t.verdict # "unknown" -> [asset EXCEPT ![t.asset] = t.verdict]
                      [] OTHER -> asset
        /\ txn' = [txn EXCEPT ![p] = Idle]
        /\ UNCHANGED <<policy, usage, violation, telemetry, accepted>>
---------------------------------------------------------------------------
(* Slip: an approved asset is judged first.                                *)
RuleApprovedFirst(pol, disposition, d, sensitive) ==
    IF disposition = "approved" THEN "approved-usage"
    ELSE IF sensitive THEN "sensitive-data"
    ELSE IF disposition = "blocked" \/ Matches(d, pol.blocked) THEN "blocked-destination"
    ELSE "unsanctioned"

(* ingest_usage: what one report means under a policy, and whether it is a *)
(* violation.  Later tests override earlier ones.                          *)
Rule(pol, disposition, d, sensitive) ==
    IF sensitive THEN "sensitive-data"
    ELSE IF disposition = "blocked" \/ Matches(d, pol.blocked) THEN "blocked-destination"
    ELSE IF disposition = "approved" \/ Matches(d, pol.approved) THEN "approved-usage"
    ELSE "unsanctioned"

Action(pol, rule) ==
    CASE rule = "sensitive-data" -> pol.sensitive
      [] rule = "blocked-destination" -> "block"
      [] rule = "approved-usage" -> "monitor"
      [] OTHER -> pol.default

Judge(pol, disposition, d, sensitive) ==
    LET rule == Rule(pol, disposition, d, sensitive)
    IN  [action |-> Action(pol, rule), sensitive |-> sensitive, asked |-> pol.sensitive,
         flagged |-> rule # "approved-usage" /\ (disposition # "approved" \/ sensitive)]

(* The policy is read and each key of the batch looked up; an undiscovered *)
(* asset refuses the batch.                                                *)
UsageBegin(p, batch, a, d, sensitive) ==
    /\ txn[p] = Idle
    /\ asset[a] # None
    /\ txn' = [txn EXCEPT ![p] = [Idle EXCEPT !.op = "usage", !.batch = batch,
                                    !.verdict = Judge(policy, asset[a], d, sensitive),
                                    !.seen = {k \in Keys : usage[k] # None}]]
    /\ UNCHANGED <<policy, asset, usage, violation, telemetry, accepted>>

BatchKeys(t) == {t.batch[i] : i \in DOMAIN t.batch}

(* Slip: the look-up is taken for the constraint.                          *)
UsageKeysAny(t) == TRUE

(* UNIQUE (organization, connector, key): a key another request has stored *)
(* since this one looked refuses the whole batch.                          *)
UsageKeysFree(t) == \A k \in BatchKeys(t) \ t.seen : usage[k] = None

(* Every usage row is flushed as it is added, so a key repeated within the *)
(* batch is found and counted as a duplicate.                              *)
UsageCommit(p) ==
    LET t == txn[p]
        new == BatchKeys(t) \ t.seen
    IN  /\ t.op = "usage"
        /\ UsageKeysFree(t)
        /\ usage' = [k \in Keys |-> IF k \in new THEN t.verdict ELSE usage[k]]
        /\ violation' = [k \in Keys |-> IF k \in new /\ t.verdict.flagged THEN "open" ELSE violation[k]]
        /\ accepted' = [k \in Keys |-> accepted[k] + (IF k \in new THEN 1 ELSE 0)]
        /\ txn' = [txn EXCEPT ![p] = Idle]
        /\ UNCHANGED <<policy, asset, telemetry>>
---------------------------------------------------------------------------
(* ingest_events adds every event and flushes once at the end: a key       *)
(* repeated within the batch, or stored since it was looked up, refuses    *)
(* the batch.                                                              *)
EventsBegin(p, batch) ==
    /\ txn[p] = Idle
    /\ txn' = [txn EXCEPT ![p] = [Idle EXCEPT !.op = "events", !.batch = batch, !.seen = telemetry]]
    /\ UNCHANGED <<policy, asset, usage, violation, telemetry, accepted>>

EventsCommit(p) ==
    LET t == txn[p]
        new == SelectSeq(t.batch, LAMBDA k : k \notin t.seen)
    IN  /\ t.op = "events"
        /\ Cardinality({new[i] : i \in DOMAIN new}) = Len(new)
        /\ \A i \in DOMAIN new : new[i] \notin telemetry
        /\ telemetry' = telemetry \cup {new[i] : i \in DOMAIN new}
        /\ txn' = [txn EXCEPT ![p] = Idle]
        /\ UNCHANGED <<policy, asset, usage, violation, accepted>>

(* retention_sweep deletes old telemetry with its keys; usage is kept.     *)
SweepTelemetry(k) ==
    /\ telemetry' = telemetry \ {k}
    /\ UNCHANGED <<policy, asset, usage, violation, accepted, txn>>

(* A constraint, or anything else, fails the request; it leaves nothing.   *)
Refuse(p) ==
    /\ txn[p] # Idle
    /\ txn' = [txn EXCEPT ![p] = Idle]
    /\ UNCHANGED <<policy, asset, usage, violation, telemetry, accepted>>
---------------------------------------------------------------------------
Batches == {<<k>> : k \in Keys} \cup {<<j, k>> : j, k \in Keys}

Next ==
    \/ \E new \in Policies : UpdatePolicy(new)
    \/ \E a \in Assets, disposition \in {"approved", "restricted", "blocked"} : DecideAsset(a, disposition)
    \/ \E k \in Keys, status \in {"acknowledged", "resolved"} : DecideViolation(k, status)
    \/ \E k \in Keys : SweepTelemetry(k)
    \/ \E p \in Procs :
        \/ \E a \in Assets, vendor \in BOOLEAN, d \in Domains \cup {None} : AssetsBegin(p, a, vendor, d)
        \/ \E batch \in Batches, a \in Assets, d \in Domains, sensitive \in BOOLEAN :
            UsageBegin(p, batch, a, d, sensitive)
        \/ \E batch \in Batches : EventsBegin(p, batch)
        \/ AssetsCommit(p) \/ UsageCommit(p) \/ EventsCommit(p) \/ Refuse(p)

Spec == Init /\ [][Next]_vars
---------------------------------------------------------------------------
(* A usage report counts once, however often it is sent and with whatever  *)
(* other batch it overlaps (ingest_usage, uq_ai_usage_connector_key).      *)
Once == INSTANCE SingleUse WITH Tokens <- Keys, spent <- accepted
UsageCountedOnce == Once!Spec

(* Usage that carries a prohibited label is acted on as the policy it was  *)
(* judged under says for sensitive data and is on record as a violation,   *)
(* whatever the asset's disposition, its domain, and the batches and       *)
(* decisions around it (ingest_usage).                                     *)
SensitiveUseFlagged ==
    \A k \in Keys : usage[k] # None /\ usage[k].sensitive =>
        usage[k].action = usage[k].asked /\ violation[k] # None
=============================================================================
