----------------------------- MODULE TwinState -----------------------------
(***************************************************************************)
(* The state of the cyber digital twin: the rows of twin_states and        *)
(* state_transitions, the copy of the rows the api process keeps in memory *)
(* (TwinStateManager), the topology graph, the ingestion of telemetry and  *)
(* POST /twin/sync, which loads graph and copy again.                      *)
(*                                                                         *)
(* Everything runs on one event loop, so a coroutine is interrupted only   *)
(* where it awaits the database.  update_state changes the copy before it  *)
(* awaits anything and commits afterwards; reload_from_db empties the      *)
(* graph before it awaits the assets; load_from_db awaits the rows and     *)
(* then replaces the copy.  The two upserts of an ingest to twin_states    *)
(* make the row lock of the asset the only thing that orders two ingests.  *)
(***************************************************************************)
EXTENDS Naturals, Sequences, SequencesExt

CONSTANTS
    Assets,       \* the rows of the assets table, which no route changes
    Requests,     \* ingest_telemetry calls, from a route or the MQTT bridge
    Reloads,      \* POST /twin/sync calls
    States,       \* the states derive_twin_state infers, and "unknown"
    Metrics,      \* the metrics a payload may report
    Payloads,     \* telemetry: its derived state, its metrics, is it in range?
    Seeded,       \* Seeded[a]: the row seed.sql inserts for a, or None
    None,         \* no row, no entry, no request
    MaxRestarts   \* bound: restarts of the api process

Row == [state : States, metrics : SUBSET Metrics]

ASSUME PayloadsAssumption ==
    Payloads \subseteq [state : States, metrics : SUBSET Metrics, valid : BOOLEAN]
ASSUME StatesAssumption == "unknown" \in States
ASSUME SeededAssumption == Seeded \in [Assets -> Row \cup {None}]
ASSUME RestartsAssumption == MaxRestarts \in Nat
ASSUME NoneAssumption == None \notin Row \cup Requests \cup Assets \cup Payloads

VARIABLES
    row,          \* row[a]: the committed row of twin_states
    transitions,  \* transitions[a]: the committed rows of state_transitions
    telemetry,    \* the requests whose telemetry rows are committed
    lock,         \* lock[a]: the request whose transaction holds a's row
    memory,       \* memory[a]: TwinStateManager._states
    graph,        \* the nodes of DigitalTwinGraph
    pc,           \* pc[r]: where ingest r stands
    asset,        \* asset[r]: the asset r is about
    sent,         \* sent[r]: the payload
    change,       \* change[r]: the entry r put in memory and the state it replaced
    reload,       \* reload[s]: where POST /twin/sync s stands
    selected,     \* selected[s]: the rows s read
    restarts,     \* how often the process has started again
    missed,       \* history: missed[s]: assets committed since s read the rows
    astray,       \* history: assets whose entry in memory may not be the row
    forged        \* history: assets updated on top of such an entry

dbVars == <<row, transitions, telemetry>>
ingestVars == <<pc, asset, sent, change>>
reloadVars == <<reload, selected, missed>>

vars == <<dbVars, lock, memory, graph, ingestVars, reloadVars, restarts, astray, forged>>

-----------------------------------------------------------------------------

Ended == {"answered", "rejected", "failed"}
InFlight == {"accepted", "locked", "applied", "committed"}

NoRows == [a \in Assets |-> None]
NoChange == [r \in Requests |-> None]

Init ==
    /\ row = Seeded
    /\ transitions = [a \in Assets |-> <<>>]
    /\ telemetry = {}
    /\ lock = NoRows
    /\ \/ graph = Assets /\ memory = Seeded /\ astray = {}
       \/ graph = {} /\ memory = NoRows /\ astray = Assets
    /\ pc = [r \in Requests |-> "new"]
    /\ asset = [r \in Requests |-> None]
    /\ sent = [r \in Requests |-> None]
    /\ change = NoChange
    /\ reload = [s \in Reloads |-> "new"]
    /\ selected = [s \in Reloads |-> None]
    /\ restarts = 0
    /\ missed = [s \in Reloads |-> {}]
    /\ forged = {}

Unlocked(rs) == [a \in Assets |-> IF lock[a] \in rs THEN None ELSE lock[a]]

-----------------------------------------------------------------------------
(* ingest_telemetry                                                        *)

\* 404 for an asset the graph does not have, 422 for values out of range.
Reject(r, a, p) ==
    /\ pc[r] = "new"
    /\ a \notin graph \/ ~p.valid
    /\ pc' = [pc EXCEPT ![r] = "rejected"]
    /\ UNCHANGED <<dbVars, lock, memory, graph, asset, sent, change, reloadVars, restarts,
                   astray, forged>>

Accept(r, a, p) ==
    /\ pc[r] = "new"
    /\ a \in graph /\ p.valid
    /\ pc' = [pc EXCEPT ![r] = "accepted"]
    /\ asset' = [asset EXCEPT ![r] = a]
    /\ sent' = [sent EXCEPT ![r] = p]
    /\ UNCHANGED <<dbVars, lock, memory, graph, change, reloadVars, restarts, astray, forged>>

\* Mutant: no upsert before update_state, so nothing orders two ingests.
LockRowNoWait(r) ==
    /\ pc[r] = "accepted"
    /\ lock' = [lock EXCEPT ![asset[r]] = r]
    /\ pc' = [pc EXCEPT ![r] = "locked"]
    /\ UNCHANGED <<dbVars, memory, graph, asset, sent, change, reloadVars, restarts,
                   astray, forged>>

\* Mutant: the first upsert commits by itself.
LockRowAutocommit(r) ==
    /\ pc[r] = "accepted"
    /\ lock[asset[r]] = None
    /\ lock' = [lock EXCEPT ![asset[r]] = r]
    /\ row' = [row EXCEPT ![asset[r]] = [state |-> sent[r].state, metrics |-> sent[r].metrics]]
    /\ pc' = [pc EXCEPT ![r] = "locked"]
    /\ UNCHANGED <<transitions, telemetry, memory, graph, asset, sent, change, reloadVars,
                   restarts, astray, forged>>

\* The telemetry rows are flushed and the first upsert of the twin_states row
\* returns: this transaction now holds the row.
LockRow(r) ==
    /\ pc[r] = "accepted"
    /\ lock[asset[r]] = None
    /\ lock' = [lock EXCEPT ![asset[r]] = r]
    /\ pc' = [pc EXCEPT ![r] = "locked"]
    /\ UNCHANGED <<dbVars, memory, graph, asset, sent, change, reloadVars, restarts,
                   astray, forged>>

Previous(a) == IF memory[a] = None THEN [state |-> "unknown", metrics |-> {}] ELSE memory[a]

\* Mutant: the metrics of the payload replace the ones before.
MergeReplacing(before, p) == [state |-> p.state, metrics |-> p.metrics]

\* {**prev.get("metrics", {}), **(metrics or {})}
Merge(before, p) == [state |-> p.state, metrics |-> before.metrics \cup p.metrics]

\* update_state up to its first await: the entry in memory is replaced.
Apply(r) ==
    /\ pc[r] = "locked"
    /\ LET a == asset[r]
           new == Merge(Previous(a), sent[r])
       IN /\ a \in graph
          /\ memory' = [memory EXCEPT ![a] = new]
          /\ change' = [change EXCEPT ![r] = [from |-> Previous(a).state, new |-> new]]
          /\ forged' = forged \cup ({a} \cap astray)
    /\ pc' = [pc EXCEPT ![r] = "applied"]
    /\ UNCHANGED <<dbVars, lock, graph, asset, sent, reloadVars, restarts, astray>>

\* Mutant: the second upsert is dropped, as if the first one made it needless.
CommitFirstUpsert(r) ==
    /\ pc[r] = "applied"
    /\ LET a == asset[r]
           step == [from |-> change[r].from, to |-> change[r].new.state]
       IN /\ row' = [row EXCEPT ![a] = [state |-> sent[r].state, metrics |-> sent[r].metrics]]
          /\ transitions' = IF step.from = step.to THEN transitions
                            ELSE [transitions EXCEPT ![a] = Append(@, step)]
          /\ missed' = [s \in Reloads |->
               IF reload[s] = "selected" THEN missed[s] \cup {a} ELSE missed[s]]
    /\ telemetry' = telemetry \cup {r}
    /\ lock' = Unlocked({r})
    /\ pc' = [pc EXCEPT ![r] = "committed"]
    /\ change' = [change EXCEPT ![r] = None]
    /\ UNCHANGED <<memory, graph, asset, sent, reload, selected, restarts, astray, forged>>

\* The second upsert, the transition when the state changed, and the commit
\* of both with the telemetry rows.
Commit(r) ==
    /\ pc[r] = "applied"
    /\ LET a == asset[r]
           new == change[r].new
           step == [from |-> change[r].from, to |-> new.state]
       IN /\ row' = [row EXCEPT ![a] = new]
          /\ transitions' = IF step.from = step.to THEN transitions
                            ELSE [transitions EXCEPT ![a] = Append(@, step)]
          /\ missed' = [s \in Reloads |->
               IF reload[s] = "selected" THEN missed[s] \cup {a} ELSE missed[s]]
    /\ telemetry' = telemetry \cup {r}
    /\ lock' = Unlocked({r})
    /\ pc' = [pc EXCEPT ![r] = "committed"]
    /\ change' = [change EXCEPT ![r] = None]
    /\ UNCHANGED <<memory, graph, asset, sent, reload, selected, restarts, astray, forged>>

\* Correlation, detection and risk score, which look the asset up again.
Finish(r) ==
    /\ pc[r] = "committed"
    /\ asset[r] \in graph
    /\ pc' = [pc EXCEPT ![r] = "answered"]
    /\ UNCHANGED <<dbVars, lock, memory, graph, asset, sent, change, reloadVars, restarts,
                   astray, forged>>

\* Mutant: the session is not closed, so the row lock stays.
FailKeepsLock(r) ==
    /\ pc[r] \in InFlight
    /\ pc' = [pc EXCEPT ![r] = "failed"]
    /\ astray' = IF pc[r] = "applied" THEN astray \cup {asset[r]} ELSE astray
    /\ change' = [change EXCEPT ![r] = None]
    /\ UNCHANGED <<dbVars, lock, memory, graph, asset, sent, reloadVars, restarts, forged>>

\* A statement raises, or the graph no longer has the asset (ValueError in
\* update_state, KeyError in build_context): the session is closed, which
\* rolls the open transaction back; the entry in memory stays as it is.
Fail(r) ==
    /\ pc[r] \in InFlight
    /\ pc' = [pc EXCEPT ![r] = "failed"]
    /\ lock' = Unlocked({r})
    /\ astray' = IF pc[r] = "applied" THEN astray \cup {asset[r]} ELSE astray
    /\ change' = [change EXCEPT ![r] = None]
    /\ UNCHANGED <<dbVars, memory, graph, asset, sent, reloadVars, restarts, forged>>

-----------------------------------------------------------------------------
(* reconcile: reload_from_db, then load_from_db                            *)

\* self.graph.clear(), and the assets are awaited.
ClearGraph(s) ==
    /\ reload[s] = "new"
    /\ graph' = {}
    /\ reload' = [reload EXCEPT ![s] = "cleared"]
    /\ UNCHANGED <<dbVars, lock, memory, ingestVars, selected, missed, restarts, astray, forged>>

FillGraph(s) ==
    /\ reload[s] = "cleared"
    /\ graph' = Assets
    /\ reload' = [reload EXCEPT ![s] = "filled"]
    /\ UNCHANGED <<dbVars, lock, memory, ingestVars, selected, missed, restarts, astray, forged>>

\* The database answers the SELECT on twin_states; the coroutine has not
\* been resumed yet.
SelectRows(s) ==
    /\ reload[s] = "filled"
    /\ selected' = [selected EXCEPT ![s] = row]
    /\ reload' = [reload EXCEPT ![s] = "selected"]
    /\ UNCHANGED <<dbVars, lock, memory, graph, ingestVars, missed, restarts, astray, forged>>

\* The entries are cleared and filled; asset_id_for skips what the graph
\* does not have.
LoadStates(s) ==
    /\ reload[s] = "selected"
    /\ memory' = [a \in Assets |-> IF a \in graph THEN selected[s][a] ELSE None]
    /\ reload' = [reload EXCEPT ![s] = "done"]
    /\ astray' = (Assets \ graph) \cup missed[s]
                 \cup {asset[r] : r \in {q \in Requests : pc[q] = "applied"}}
    /\ selected' = [selected EXCEPT ![s] = None]
    /\ missed' = [missed EXCEPT ![s] = {}]
    /\ UNCHANGED <<dbVars, lock, graph, ingestVars, restarts, forged>>

\* A SELECT raises: the graph stays as it is, empty if it was the first one.
FailReload(s) ==
    /\ reload[s] \in {"cleared", "filled", "selected"}
    /\ reload' = [reload EXCEPT ![s] = "failed"]
    /\ selected' = [selected EXCEPT ![s] = None]
    /\ missed' = [missed EXCEPT ![s] = {}]
    /\ UNCHANGED <<dbVars, lock, memory, graph, ingestVars, restarts, astray, forged>>

-----------------------------------------------------------------------------
(* The process                                                             *)

\* lifespan: graph and states are loaded before the first request, if the
\* database can be reached; otherwise the process serves without them.
Restart(reachable) ==
    /\ restarts < MaxRestarts
    /\ restarts' = restarts + 1
    /\ graph' = IF reachable THEN Assets ELSE {}
    /\ memory' = IF reachable THEN row ELSE NoRows
    /\ astray' = IF reachable THEN {} ELSE Assets
    /\ pc' = [r \in Requests |-> IF pc[r] \in InFlight THEN "failed" ELSE pc[r]]
    /\ lock' = NoRows
    /\ reload' = [s \in Reloads |->
         IF reload[s] \in {"cleared", "filled", "selected"} THEN "failed" ELSE reload[s]]
    /\ change' = NoChange
    /\ selected' = [s \in Reloads |-> None]
    /\ missed' = [s \in Reloads |-> {}]
    /\ UNCHANGED <<dbVars, asset, sent, forged>>

Awaited(r) == Apply(r) \/ Commit(r) \/ Finish(r) \/ (pc[r] # "accepted" /\ Fail(r))

Reconcile(s) == FillGraph(s) \/ SelectRows(s) \/ LoadStates(s) \/ FailReload(s)

Next ==
    \/ \E r \in Requests :
         \/ \E a \in Assets, p \in Payloads : Reject(r, a, p) \/ Accept(r, a, p)
         \/ LockRow(r) \/ Apply(r) \/ Commit(r) \/ Finish(r) \/ Fail(r)
    \/ \E s \in Reloads : ClearGraph(s) \/ Reconcile(s)
    \/ \E reachable \in BOOLEAN : Restart(reachable)

Spec == Init /\ [][Next]_vars

\* The event loop resumes every coroutine whose await is over, and an await
\* on the database ends with a result or an exception; waiting for a row
\* lock has no timeout and ends only when the lock is free.
FairSpec ==
    /\ Spec
    /\ \A r \in Requests : WF_vars(LockRow(r)) /\ WF_vars(Awaited(r))
    /\ \A s \in Reloads : WF_vars(Reconcile(s))

-----------------------------------------------------------------------------
(* What the twin promises.                                                 *)

Step == [from : States, to : States]

Stages == {"new"} \cup InFlight \cup Ended
ReloadStages == {"new", "cleared", "filled", "selected", "done", "failed"}

\* The shape of the state, and the one thing that orders two ingests: the row
\* of an asset is held by exactly the request that is writing it.
TypeOK ==
    /\ row \in [Assets -> Row \cup {None}]
    /\ transitions \in [Assets -> Seq(Step)]
    /\ telemetry \subseteq Requests
    /\ lock \in [Assets -> Requests \cup {None}]
    /\ memory \in [Assets -> Row \cup {None}]
    /\ graph \in {Assets, {}}
    /\ pc \in [Requests -> Stages]
    /\ asset \in [Requests -> Assets \cup {None}]
    /\ sent \in [Requests -> Payloads \cup {None}]
    /\ \A r \in Requests : pc[r] \notin {"new", "rejected"} => asset[r] \in Assets /\ sent[r] \in Payloads
    /\ DOMAIN change = Requests
    /\ \A r \in Requests :
         IF pc[r] = "applied" THEN change[r] \in [from : States, new : Row]
                              ELSE change[r] = None
    /\ \A r \in Requests, a \in Assets :
         lock[a] = r <=> asset[r] = a /\ pc[r] \in {"locked", "applied"}
    /\ reload \in [Reloads -> ReloadStages]
    /\ DOMAIN selected = Reloads
    /\ \A s \in Reloads :
         IF reload[s] = "selected" THEN selected[s] \in [Assets -> Row \cup {None}]
                                   ELSE selected[s] = None /\ missed[s] = {}
    /\ restarts \in 0 .. MaxRestarts
    /\ missed \in [Reloads -> SUBSET Assets]
    /\ astray \subseteq Assets
    /\ forged \subseteq Assets

Writing(a) == \E r \in Requests : asset[r] = a /\ pc[r] = "applied"

\* What GET /twin/state shows is the committed row, although the entry is
\* changed before the commit and replaced by every reload.  There are four
\* ways to lose it and no others: an update rolled back after it changed the
\* entry, a reload that read the row before a commit or wrote the entry in
\* the middle of an update, a reload that found the graph empty, and a start
\* without the database.
MemoryIsRow ==
    \A a \in Assets : a \notin astray /\ ~Writing(a) => memory[a] = row[a]

StateOf(r) == IF r = None THEN "unknown" ELSE r.state

\* state_transitions tells the whole story of an asset nothing of the above
\* happened to: it starts at the seeded state, each transition starts where
\* the one before ended, and the last one ends at the state of the row.
TransitionsChain ==
    \A a \in Assets \ forged :
        LET steps == transitions[a]
            start == StateOf(Seeded[a])
        IN /\ \A i \in DOMAIN steps :
                /\ steps[i].from = IF i = 1 THEN start ELSE steps[i - 1].to
                /\ steps[i].from # steps[i].to
           /\ StateOf(row[a]) = IF steps = <<>> THEN start ELSE Last(steps).to

\* Telemetry that was stored is still in the twin: its metrics are in the row
\* of its asset, however many ingests, reloads, failures and restarts came
\* later, unless an update was computed from an entry that was not the row.
StoredIsMerged ==
    \A r \in telemetry :
        asset[r] \notin forged =>
            row[asset[r]] # None /\ sent[r].metrics \subseteq row[asset[r]].metrics

\* Seen from the database, ingests, reloads, failures and restarts implement
\* TwinStore: a reading is stored, merged into the row its asset has at that
\* moment and recorded as a transition in one step, and whoever was answered
\* stored it.  The row is computed from memory steps before it is committed;
\* only the row lock, taken by the first upsert, keeps the two together.
Store == INSTANCE TwinStore WITH
    stored <- [r \in telemetry |-> <<asset[r], sent[r]>>],
    answered <- {r \in Requests : pc[r] = "answered"},
    refused <- {r \in Requests : pc[r] = "rejected"},
    suspect <- forged

ImplementsTwinStore == Store!Spec

\* Every request that was accepted is answered or fails: no failure leaves a
\* row lock behind that the next ingest of the asset waits for.
IngestsEnd == \A r \in Requests : pc[r] = "accepted" ~> pc[r] \in Ended

\* docs/ARCHITECTURE.md:103 on state_transitions: "Historical audit log of
\* every operational and security transition".  Whenever the state of a
\* committed row changes, a transition from the old to the new one is added.
EveryTransitionRecorded ==
    [][\A a \in Assets :
         row[a] # None /\ row'[a].state # row[a].state =>
             transitions'[a] = Append(transitions[a],
                 [from |-> row[a].state, to |-> row'[a].state])]_vars
=============================================================================
