------------------------------ MODULE TwinSync ------------------------------
(***************************************************************************)
(* backend/app: telemetry synchronisation of the supply-chain twin, the    *)
(* >5% drift trigger, the optimisation and simulation runs it or a planner *)
(* starts, and the audit rows and notifications all of them publish.       *)
(*                                                                         *)
(* Each request runs in a thread with a session of its own and commits     *)
(* several times: the node first, then every audit row and the run.  Other *)
(* requests interleave between any two statements, and a failure between   *)
(* two commits leaves the earlier ones behind.  db.commit() expires what   *)
(* the session has loaded, so an attribute read after a commit is read     *)
(* from the database again.                                                *)
(*                                                                         *)
(* publish is one step here: what happens inside record_audit_event is the *)
(* business of AuditChain, and only its commit is visible from outside.    *)
(***************************************************************************)
EXTENDS Integers, Sequences, FiniteSets

CONSTANTS
    Requests,     \* the requests handled, each in a thread of its own
    Nodes,        \* node codes
    Edges,        \* edge codes
    InitialNode,  \* InitialNode[n]: the seeded row of a node or an edge, or Absent
    SyncPayloads, \* telemetry: a value or None for demand and for capacity
    NodePayloads, \* rows POST /twin/nodes and POST /twin/edges are given
    None,         \* an optional field that is not sent
    Absent,       \* no row with this code
    Threshold     \* reoptimize_threshold_pct, in hundredths of a percent

Fields == {"demand", "capacity"}

\* An edge's row stands for two columns of its own under the same names.
NodeRow == [Fields -> Nat]
Codes == Nodes \cup Edges

\* A committed write: the row it replaced, if there was one, and its version.
Write == [before : NodeRow \cup {Absent}, after : NodeRow, version : Nat]

ASSUME NodesAssumption ==
    /\ Nodes \cap Edges = {}
    /\ InitialNode \in [Codes -> NodeRow \cup {Absent}]
ASSUME PayloadsAssumption ==
    /\ SyncPayloads \subseteq [Fields -> Nat \cup {None}]
    /\ NodePayloads \subseteq NodeRow
ASSUME ValuesAssumption == None \notin Nat \cup Write /\ Absent \notin NodeRow
ASSUME ThresholdAssumption == Threshold \in Nat

VARIABLES
    node,          \* supply_nodes and supply_edges: node[n] is the committed row
    version,       \* history: version[n] counts the committed writes of n
    trail,         \* committed audit rows, in commit order
    runs,          \* committed optimization_runs and simulation_runs
    notifications, \* the in-memory list of notification_service
    stage,         \* stage[r]: what request r has done last
    kind,          \* kind[r]: which endpoint r called
    target,        \* target[r]: the node r is about
    payload,       \* payload[r]: what r was sent
    baseline,      \* baseline[r]: the row r loaded before it wrote
    seen,          \* seen[r]: the row r read back
    wrote,         \* history: the row r overwrote, what it wrote, the version
    snapshot,      \* snapshot[r]: the network r loaded, and its versions
    overlapped     \* history: did two requests ever run at the same time?

vars == <<node, version, trail, runs, notifications, stage, kind, target,
          payload, baseline, seen, wrote, snapshot, overlapped>>

db == <<node, version, trail, runs>>
locals == <<kind, target, payload, baseline, seen, wrote, snapshot>>

-----------------------------------------------------------------------------
(* Drift, in hundredths of a percent.                                      *)

Abs(x) == IF x < 0 THEN -x ELSE x

\* round(abs(new - previous) / previous * 100, 2); a previous value of zero
\* counts as a change of 100% unless the new value is zero too.
compute_relative_delta_pct(previous, new) ==
    IF previous <= 0
    THEN IF new > 0 THEN 10000 ELSE 0
    ELSE (2 * 10000 * Abs(new - previous) + previous) \div (2 * previous)

Delta(field, before, after) ==
    compute_relative_delta_pct(before[field], after[field])

\* max_delta > threshold, over demand and capacity.
Drifted(before, after) ==
    \E field \in Fields : Delta(field, before, after) > Threshold

-----------------------------------------------------------------------------

Stages == {"new", "read", "written", "refreshed", "synced", "drifted",
           "triggered", "loaded", "saved", "answered", "rejected", "failed"}

Ended == {"answered", "rejected", "failed"}

Active(r) == stage[r] \notin Ended \cup {"new"}

Init ==
    /\ node = InitialNode
    /\ version = [n \in Codes |-> 0]
    /\ trail = <<>>
    /\ runs = <<>>
    /\ notifications = <<>>
    /\ stage = [r \in Requests |-> "new"]
    /\ kind = [r \in Requests |-> None]
    /\ target = [r \in Requests |-> None]
    /\ payload = [r \in Requests |-> None]
    /\ baseline = [r \in Requests |-> None]
    /\ seen = [r \in Requests |-> None]
    /\ wrote = [r \in Requests |-> None]
    /\ snapshot = [r \in Requests |-> None]
    /\ overlapped = FALSE

Goto(r, s) == stage' = [stage EXCEPT ![r] = s]

Begin(r, k, s) ==
    /\ stage[r] = "new"
    /\ kind' = [kind EXCEPT ![r] = k]
    /\ overlapped' = (overlapped \/ \E q \in Requests : Active(q))
    /\ Goto(r, s)

Notified(r, action) ==
    IF action \in {"AUTO_REOPTIMIZE_TRIGGERED", "SIMULATION_COMPLETED"}
    THEN Append(notifications, [req |-> r, action |-> action])
    ELSE notifications

\* Mutant: a failing audit subscriber is logged and skipped.
PublishBestEffort(r, action, details, next) ==
    /\ trail' \in {trail, Append(trail, [req |-> r, action |-> action, details |-> details])}
    /\ notifications' = Notified(r, action)
    /\ Goto(r, next)

\* EventBus.publish: the audit row first, then the notification listener for
\* the actions it subscribes to.  If the audit row fails, neither happens; if
\* reading it back after its commit does, the listener is not called.
Publish(r, action, details, next) ==
    /\ trail' = Append(trail, [req |-> r, action |-> action, details |-> details])
    /\ \/ notifications' = Notified(r, action) /\ Goto(r, next)
       \/ notifications' = notifications /\ Goto(r, "failed")

-----------------------------------------------------------------------------
(* POST /twin/sync, POST /twin/nodes and POST /twin/edges.                 *)

\* get_node_by_code: an unknown node is answered with 404.
SyncRead(r, n, p) ==
    /\ Begin(r, "sync", IF node[n] = Absent THEN "rejected" ELSE "read")
    /\ target' = [target EXCEPT ![r] = n]
    /\ payload' = [payload EXCEPT ![r] = p]
    /\ baseline' = [baseline EXCEPT ![r] = node[n]]
    /\ UNCHANGED <<db, notifications, seen, wrote, snapshot>>

\* upsert_node and upsert_edge: an unknown row is created.  Nothing compares an
\* edge's ends with the nodes there are.
IngestRead(r, n, p) ==
    /\ Begin(r, IF n \in Nodes THEN "ingest" ELSE "edge", "read")
    /\ target' = [target EXCEPT ![r] = n]
    /\ payload' = [payload EXCEPT ![r] = p]
    /\ baseline' = [baseline EXCEPT ![r] = node[n]]
    /\ UNCHANGED <<db, notifications, seen, wrote, snapshot>>

\* Mutant: "is not None" is forgotten.
UpdatedUnchecked(current, loaded, p) == [field \in Fields |-> p[field]]

\* Mutant: the UPDATE writes every column of the row that was loaded.
UpdatedWhole(current, loaded, p) ==
    [field \in Fields |-> IF p[field] = None THEN loaded[field] ELSE p[field]]

\* The UPDATE names only the columns whose value differs from the row that
\* was loaded; the others keep what another session may have committed.
Updated(current, loaded, p) ==
    [field \in Fields |->
        IF p[field] \in {None, loaded[field]} THEN current[field] ELSE p[field]]

\* db.commit() of the node: an UPDATE, or the INSERT of a new one.  The
\* INSERT fails on the unique node code if another request was faster.
CommitNode(r) ==
    /\ stage[r] = "read"
    /\ LET n   == target[r]
           new == IF baseline[r] = Absent THEN payload[r]
                  ELSE Updated(node[n], baseline[r], payload[r])
       IN IF baseline[r] = Absent /\ node[n] # Absent
          THEN /\ Goto(r, "failed")
               /\ UNCHANGED <<node, version, wrote>>
          ELSE /\ node' = [node EXCEPT ![n] = new]
               /\ version' = [version EXCEPT ![n] = @ + 1]
               /\ wrote' = [wrote EXCEPT ![r] =
                    [before |-> node[n], after |-> new, version |-> version[n] + 1]]
               /\ Goto(r, "written")
    /\ UNCHANGED <<trail, runs, notifications, kind, target, payload, baseline,
                   seen, snapshot, overlapped>>

\* db.refresh(node)
Refresh(r) ==
    /\ stage[r] = "written"
    /\ seen' = [seen EXCEPT ![r] = node[target[r]]]
    /\ Goto(r, "refreshed")
    /\ UNCHANGED <<db, notifications, kind, target, payload, baseline, wrote,
                   snapshot, overlapped>>

\* The audit row for the change; an ingested node is not checked for drift.
PublishNode(r) ==
    /\ stage[r] = "refreshed"
    /\ IF kind[r] = "sync"
       THEN Publish(r, "TWIN_TELEMETRY_SYNC", seen[r], "synced")
       ELSE Publish(r, IF kind[r] = "ingest" THEN "NODE_INGESTED" ELSE "EDGE_INGESTED",
                    seen[r], "answered")
    /\ UNCHANGED <<node, version, runs, locals, overlapped>>

\* Mutant: the re-optimisation starts without its own audit row.
EvaluateSilent(r) ==
    /\ stage[r] = "synced"
    /\ seen' = [seen EXCEPT ![r] = node[target[r]]]
    /\ Goto(r, IF Drifted(baseline[r], node[target[r]]) THEN "triggered" ELSE "answered")
    /\ UNCHANGED <<db, notifications, kind, target, payload, baseline, wrote,
                   snapshot, overlapped>>

\* Mutant: the values compared with were read after the write.
EvaluateAfterWrite(r) ==
    /\ stage[r] = "synced"
    /\ seen' = [seen EXCEPT ![r] = node[target[r]]]
    /\ Goto(r, IF Drifted(seen[r], node[target[r]]) THEN "drifted" ELSE "answered")
    /\ UNCHANGED <<db, notifications, kind, target, payload, baseline, wrote,
                   snapshot, overlapped>>

\* evaluate_and_trigger_reoptimization: the node's attributes expired when the
\* audit row was committed, so the new values are read again here.
Evaluate(r) ==
    /\ stage[r] = "synced"
    /\ seen' = [seen EXCEPT ![r] = node[target[r]]]
    /\ Goto(r, IF Drifted(baseline[r], node[target[r]]) THEN "drifted" ELSE "answered")
    /\ UNCHANGED <<db, notifications, kind, target, payload, baseline, wrote,
                   snapshot, overlapped>>

PublishTrigger(r) ==
    /\ stage[r] = "drifted"
    /\ Publish(r, "AUTO_REOPTIMIZE_TRIGGERED", seen[r], "triggered")
    /\ UNCHANGED <<node, version, runs, locals, overlapped>>

-----------------------------------------------------------------------------
(* run_network_optimization, and run_disruption_simulation, which has the  *)
(* same steps: load the network, compute, commit the run, publish.         *)

\* Mutant: the session still holds the row from before the write.
LoadNetworkCached(r) ==
    /\ stage[r] = "triggered"
    /\ snapshot' = [snapshot EXCEPT ![r] =
         [node    |-> [node EXCEPT ![target[r]] = baseline[r]],
          version |-> [version EXCEPT ![target[r]] = wrote[r].version - 1]]]
    /\ Goto(r, "loaded")
    /\ UNCHANGED <<db, notifications, kind, target, payload, baseline, seen,
                   wrote, overlapped>>

LoadNetwork(r) ==
    /\ stage[r] = "triggered"
    /\ snapshot' = [snapshot EXCEPT ![r] = [node |-> node, version |-> version]]
    /\ Goto(r, "loaded")
    /\ UNCHANGED <<db, notifications, kind, target, payload, baseline, seen,
                   wrote, overlapped>>

\* POST /optimize and POST /simulate start here.
StartRun(r, k) ==
    /\ Begin(r, k, "loaded")
    /\ snapshot' = [snapshot EXCEPT ![r] = [node |-> node, version |-> version]]
    /\ UNCHANGED <<db, notifications, target, payload, baseline, seen, wrote>>

SaveRun(r) ==
    /\ stage[r] = "loaded"
    /\ runs' = Append(runs, [req |-> r, network |-> snapshot[r]])
    /\ Goto(r, "saved")
    /\ UNCHANGED <<node, version, trail, notifications, locals, overlapped>>

PublishRun(r) ==
    /\ stage[r] = "saved"
    /\ Publish(r, IF kind[r] = "simulate" THEN "SIMULATION_COMPLETED"
                                          ELSE "MILP_OPTIMIZATION_EXECUTED",
               None, "answered")
    /\ UNCHANGED <<node, version, runs, locals, overlapped>>

-----------------------------------------------------------------------------
(* Failures.                                                               *)

\* Mutant: a failed run is tried again from the drift on.
FailRetries(r) ==
    /\ Active(r)
    /\ Goto(r, IF stage[r] = "triggered" THEN "drifted" ELSE "failed")
    /\ UNCHANGED <<db, notifications, locals, overlapped>>

\* A statement, the solver or the simulation subprocess raises: the request
\* is answered with 500 and what it had committed stays.
Fail(r) ==
    /\ Active(r)
    /\ Goto(r, "failed")
    /\ UNCHANGED <<db, notifications, locals, overlapped>>

\* The process stops and starts: requests are cut off, the list in memory is
\* empty again, the database keeps what was committed.
Restart ==
    /\ stage' = [r \in Requests |-> IF Active(r) THEN "failed" ELSE stage[r]]
    /\ notifications' = <<>>
    /\ UNCHANGED <<db, locals, overlapped>>

Next ==
    \/ \E r \in Requests :
         \/ \E n \in Nodes, p \in SyncPayloads : SyncRead(r, n, p)
         \/ \E n \in Codes, p \in NodePayloads : IngestRead(r, n, p)
         \/ CommitNode(r)
         \/ Refresh(r)
         \/ PublishNode(r)
         \/ Evaluate(r)
         \/ PublishTrigger(r)
         \/ LoadNetwork(r)
         \/ \E k \in {"optimize", "simulate"} : StartRun(r, k)
         \/ SaveRun(r)
         \/ PublishRun(r)
         \/ Fail(r)
    \/ Restart

Spec == Init /\ [][Next]_vars

-----------------------------------------------------------------------------
(* What the requests promise.                                              *)

MaybeRow == NodeRow \cup {None, Absent}
Actions == {"TWIN_TELEMETRY_SYNC", "NODE_INGESTED", "EDGE_INGESTED",
            "AUTO_REOPTIMIZE_TRIGGERED", "MILP_OPTIMIZATION_EXECUTED", "SIMULATION_COMPLETED"}
Kinds == {"sync", "ingest", "edge", "optimize", "simulate"}
Network == [node : [Codes -> NodeRow \cup {Absent}], version : [Codes -> Nat]]

TypeOK ==
    /\ node \in [Codes -> NodeRow \cup {Absent}]
    /\ version \in [Codes -> Nat]
    /\ trail \in Seq([req : Requests, action : Actions, details : MaybeRow])
    /\ runs \in Seq([req : Requests, network : Network])
    /\ notifications \in Seq([req : Requests, action : Actions])
    /\ stage \in [Requests -> Stages]
    /\ kind \in [Requests -> Kinds \cup {None}]
    /\ target \in [Requests -> Codes \cup {None}]
    /\ payload \in [Requests -> SyncPayloads \cup NodePayloads \cup {None}]
    /\ baseline \in [Requests -> MaybeRow]
    /\ seen \in [Requests -> MaybeRow]
    /\ wrote \in [Requests -> Write \cup {None}]
    /\ snapshot \in [Requests -> Network \cup {None}]
    /\ overlapped \in BOOLEAN

Published(r, action) ==
    \E i \in DOMAIN trail : trail[i].req = r /\ trail[i].action = action

HasRun(r) == \E i \in DOMAIN runs : runs[i].req = r

\* The whole story of a request: its change, its run, and a row for each.
Audited(r) ==
    CASE kind[r] = "sync" ->
           /\ wrote[r] # None
           /\ Published(r, "TWIN_TELEMETRY_SYNC")
           /\ HasRun(r) <=> Published(r, "AUTO_REOPTIMIZE_TRIGGERED")
           /\ HasRun(r) <=> Published(r, "MILP_OPTIMIZATION_EXECUTED")
      [] kind[r] = "ingest" -> wrote[r] # None /\ Published(r, "NODE_INGESTED")
      [] kind[r] = "edge" -> wrote[r] # None /\ Published(r, "EDGE_INGESTED")
      [] kind[r] = "optimize" -> HasRun(r) /\ Published(r, "MILP_OPTIMIZATION_EXECUTED")
      [] kind[r] = "simulate" -> HasRun(r) /\ Published(r, "SIMULATION_COMPLETED")

\* A request that was answered left its whole story behind: the change it
\* made, the runs it started and an audit row for each, although every one
\* of them is committed by itself and any of the commits may fail.
AnsweredIsAudited == \A r \in Requests : stage[r] = "answered" => Audited(r)

\* What row i of the trail says did happen, and is said once.
Truthful(i) ==
    LET r == trail[i].req
        a == trail[i].action
    IN /\ a \in {"TWIN_TELEMETRY_SYNC", "NODE_INGESTED", "EDGE_INGESTED"} => wrote[r] # None
       /\ a = "AUTO_REOPTIMIZE_TRIGGERED" =>
            \E j \in 1 .. i - 1 : trail[j].req = r /\ trail[j].action = "TWIN_TELEMETRY_SYNC"
       /\ a \in {"MILP_OPTIMIZATION_EXECUTED", "SIMULATION_COMPLETED"} => HasRun(r)
       /\ \A j \in DOMAIN trail : trail[j].req = r /\ trail[j].action = a => j = i

\* The audit trail never claims what did not happen, even where a request was
\* cut off: a row about a node follows a committed write, a trigger follows
\* the sync it was found in, a run's row follows the committed run, and no
\* request publishes the same action twice.
TrailIsTruthful == \A i \in DOMAIN trail : Truthful(i)

\* A notification is only ever shown for an event whose audit row is
\* committed: the audit subscriber runs first, and its failure stops publish.
NotifiedIsAudited ==
    \A i \in DOMAIN notifications :
        Published(notifications[i].req, notifications[i].action)

\* An automatic re-optimisation solves a network that contains the write that
\* triggered it, or a later one, never the network from before.
RunSeesItsTrigger ==
    \A i \in DOMAIN runs :
        LET r == runs[i].req
        IN kind[r] = "sync" =>
             runs[i].network.version[target[r]] >= wrote[r].version

\* Partial telemetry does not clobber: a column of an existing node changes
\* only to a value the committing request was sent for that very column, so
\* a column it merely loaded keeps what another request committed meanwhile.
OnlySentColumnsChange ==
    [][\A n \in Codes, field \in Fields :
         node[n] # Absent /\ node'[n][field] # node[n][field] =>
             \E r \in Requests :
                 /\ stage[r] = "read" /\ stage'[r] = "written"
                 /\ target[r] = n
                 /\ payload[r][field] = node'[n][field]]_vars

\* Reference: demand or capacity moved by more than Threshold, where half a
\* hundredth of a percent counts up, and anything is 100% more than nothing.
MovedFar(before, after) ==
    \E field \in Fields :
        IF before[field] = 0
        THEN after[field] # 0 /\ Threshold < 10000
        ELSE 20000 * Abs(after[field] - before[field]) >= (2 * Threshold + 1) * before[field]

WroteLargeDrift(r) ==
    /\ kind[r] = "sync"
    /\ wrote[r] # None
    /\ MovedFar(wrote[r].before, wrote[r].after)

\* As long as requests do not overlap: the sync row says what its request
\* wrote, and a sync is answered with an automatic re-optimisation exactly
\* when its write moved demand or capacity by more than the threshold, where
\* anything is 100% more than zero (compute_relative_delta_pct).
SerialSyncIsExact ==
    ~overlapped =>
        /\ \A i \in DOMAIN trail :
             trail[i].action = "TWIN_TELEMETRY_SYNC" =>
                 trail[i].details = wrote[trail[i].req].after
        /\ \A r \in Requests :
             kind[r] = "sync" /\ stage[r] = "answered" =>
                 (WroteLargeDrift(r) <=> HasRun(r))

\* routers/twin.py:62 says of POST /twin/sync: "auto-trigger MILP if drift >
\* 5%".  When a sync is answered whose write moved the committed row by more
\* than that, and nobody has written the node since, some run has seen it.
LargeDriftOptimises ==
    \A r \in Requests :
        /\ stage[r] = "answered"
        /\ WroteLargeDrift(r)
        /\ version[target[r]] = wrote[r].version
        => \E i \in DOMAIN runs :
             runs[i].network.version[target[r]] >= wrote[r].version
=============================================================================
