# Formal models of the smart supply chain cyber digital twin

TLA+ models of the two programs of this repository, the TLC runs that check
them on small instances, and TLAPS proofs of what matters most about them for
every instance. Modules are translated from the source; `PROJECT.json` gives,
for each definition, the lines it stands for.

To repeat a result, in this directory:

    tlc -workers 2 -config MCAuditChain.cfg MCAuditChain
    tlapm AuditChainProofs.tla

## The system

The repository holds two programs that share no code and no database.

**`backend/`** is the supply-network twin: a FastAPI application whose
endpoints are plain functions, so each request runs in a thread of a pool with
a SQLAlchemy session of its own, plus a Celery worker in another process.
SQLAlchemy's default (`expire_on_commit`) applies: after a commit, attributes
are read from the database again. Transactions are READ COMMITTED and a request
commits many times.

**The cyber twin** (`api/`, `ingestion/`, `digital_twin/`, `detection/`,
`attack_story/`, `api_sources/`, ...) is one asyncio process: a coroutine is
interrupted only where it awaits, but the twin keeps its graph and a copy of
its states in module-level objects that every coroutine shares. Its session
factory sets `expire_on_commit=False`, `autoflush=False`.

| Component | State | Operations | Talks to | Hard part | What makes it correct |
|---|---|---|---|---|---|
| Audit log, event bus (`backend/app/services/audit_service.py`) | `audit_logs`, the signing key of each process | `record_audit_event`, `verify_audit_chain`, `publish` | everything in `backend/` publishes to it | read, sign, insert, commit with no lock; ids visible out of order; a key per start | rows form a tree rooted at the genesis hash; no forks means it verifies; tampering is detected |
| Network twin, drift trigger (`backend/app/digital_twin/`, `services/db_service.py`) | `supply_nodes`, `supply_edges` | sync, node and edge upsert, snapshot | audit, optimiser | many commits per request; stale baselines; check-then-insert | audited what was done; partial telemetry does not clobber; a large drift is optimised |
| Optimiser, simulation (`backend/app/optimization/`, `simulation/`) | `optimization_runs`, `simulation_runs` | load, solve, save, publish | database, subprocess with a timeout | failure between steps; reading one's own write | a run is stored and audited, and saw its trigger |
| Notifications | list in memory | listener of the bus | bus | order of subscribers; lost at a restart | never shown without an audit row |
| Accounts and tokens (`backend/app/security.py`, `routers/auth.py`) | `users`, spent token ids in memory, the signing key | register, login, refresh, role checks | audit | check-then-add between threads; a restart forgets what is spent and may draw a new key | a rotated refresh token stays spent; a token speaks for one account |
| Partner sharing (`backend/app/services/partner_service.py`) | `partner_commitments` | forecast, commit, list, verify | accounts, audit | nonce check-then-insert; audit after commit; two roundings of one amount | one commitment per nonce; one's own organisation only; signatures verify |
| Background worker (`backend/app/celery_app.py`) | none | one task, which nothing enqueues | audit | a second process with a key of its own | as the audit log |
| Cyber twin (`digital_twin/`) | `twin_states`, `state_transitions`, graph and copy in memory | update, reload, reconcile | ingestion, every route | memory changed before a commit; reload across awaits | memory is the row; transitions tell the story |
| Ingestion (`ingestion/pipeline.py`) | `telemetry`, `security_events`, the above | ingest telemetry or event | routes, MQTT bridge, detection | commit in the middle; row lock between ingests; swallowed errors | all or nothing; every ingest ends |
| Process life cycle (`api/app.py`, `api/routes/health.py`) | what is loaded at a start, background tasks | start, sweeps, stop, probe | database, all of the above | start without the database; tasks cancelled at a stop | every task ends; sweeps catch up |
| Detection, triage, risk (`detection/`) | `detections`, `triage`, `risk_scores` | rules, classify, score, sweep | ingestion, sweeps, analysts | a detection is classified again; rules run after the state update; a score computed before a commit is stored after it | everything has a verdict; scores count everything in the end |
| Correlation (`ingestion/correlator.py`) | `incidents` | correlate | ingestion | rows of other calls become visible late | evidence is committed and of the asset |
| Blast radius (`digital_twin/blast_radius.py`) | `blast_radius` rows | bounded breadth-first search, store its answer | graph, database | a reload of the graph between two rows | every asset within the depth, once, at its distance; an unbroken part of them stored, at once |
| Analytics (`api/routes/analytics.py`) | none | timeline, playback | database, graph | gaps, buckets, limits | what is shown is the latest known |
| Attack runs (`attack_story/`) | active runs, stories and their events | start, tick, finalise, build, stop | ingestion, threat intelligence | cancellation; two final statuses; row locks held over awaits | every run ends; a story tells its run once |
| Threat intelligence (`api_sources/`, `attack_story/ioc_extractor.py`, `enrichment.py`) | indicators, observations, verdicts | extract, persist, query, enrich | external services, attack runs | locks across HTTP; confidences overwritten | a confidence was earned |
| MQTT bridge (`ingestion/mqtt_client.py`) | client, counters | on_message, handle | broker thread, loop | thread to loop; any order; lost connection | every message is counted once |
| Ditto sync (`ingestion/ditto_sync.py`, `api_sources/ditto_adapter.py`) | none (Ditto's things) | sync, upsert | Ditto, twin, risk | overlap of loop and request; outages | Ditto catches up |
| Alert forwarding (`api_sources/wazuh_adapter.py`, `suricata_adapter.py`) | seen ids, file offset | poll or tail, post to `/api/events` | its own process over HTTP | marked before delivered; alerts without id; half-written lines; a line that stops a pass | nothing is posted twice or lost but in the known ways |
| Traffic generator (`scripts/traffic_generator.py`, `routing.py`) | roads, trackers, counters | publish a reading | `/api/telemetry` | unbounded draws against every rule and range | common baseline is silent, anomalies are found or refused |
| Geofencing (`geofencing/zones.py`) | none | distance, zone | rules, generator | two radii | with the rules |

The machine-learning code, the dashboard, the documentation scripts and the
demo have no row; see "Not modelled".

## What is modelled

### `AuditLog` and `AuditChain`: the hash-chained audit log

`AuditLog` is the abstract specification, with the committed rows as its only
variable: rows are never changed or removed, a new one has an unused id, and its
`prev_hash` is the genesis hash or the signature of an older committed row. HMAC-SHA256 is
taken to be collision free, so a signature is represented by what it commits
to: the sequence of (key, event) pairs from the genesis hash to its row.

`AuditChain` is `record_audit_event` at the statements where another session
can interleave: `ReadLast` (SELECT and sign), `InsertRow` (the flush, which
takes an id from the sequence), `CommitRow`, `FailRow` (rollback: the id is not
given back) and `Restart` of a process, which draws a new key unless
`AUDIT_SIGNING_KEY` is set. A worker is a thread of the API or of the Celery
process. `verify_audit_chain` is an operator, since it only reads.
`overlapped` is a history variable: have two calls ever run at the same time?

| Run | Instance | Shows |
|---|---|---|
| `audit_chain` | 2 API threads and 1 Celery worker, 2 events, 3 ids, 1 restart of each process, random keys | ids are unique, links go to older committed rows, a serial history verifies, forks are the only way to break the chain, a broken chain stays broken, an accepted log shows changes and removals (except of its newest row), `AuditLog` is implemented |
| `audit_chain_fork` (violation) | 2 threads, 1 key | two overlapping calls fork the chain and `GET /audit/verify` says false for good |

Three rows are enough for a row before, between and after a fork, and for an
id that becomes visible late; three workers let two overlap while a third
continues. An insert is disabled once the ids are used up; a worker can always
still fail, so no deadlock is hidden by the bound.

### `TwinSync`: synchronisation, drift and runs

Requests of five kinds (`sync`, `ingest` of a node, the same of an edge,
`optimize`, `simulate`) take the
steps of their handlers, one per commit or read between commits. Nodes and
edges are rows under one kind of code; only nodes are synchronised. `Updated` is
what SQLAlchemy writes: only columns that differ from the loaded row.
`Evaluate` reads the node again, because the audit commit expired it.
`Publish` is the bus: audit row first, then the notification listener; an
exception after the commit of the audit row skips the listener. `Fail` may
happen at any step and keeps what was committed. `version`, `wrote` and
`overlapped` are history variables. Percentages are integers in hundredths,
rounded as the code rounds (ties differ from Python's banker's rounding; no
value of the runs is one). `MovedFar` is what "more than 5%" means, written
without that computation and for any threshold; `SerialSyncIsExact` compares the
two.

| Run | Instance | Shows |
|---|---|---|
| `twin_sync` | 2 requests, a seeded and an unknown node, an unknown edge, four sync payloads and two of nodes | answered requests left their whole story; the trail claims only what happened; notifications have audit rows; an automatic run sees its trigger; partial telemetry does not clobber; without overlap the trigger is exact |
| `twin_sync_stale` (violation) | the same | 100 to 96 and 100 to 104, each 4%, move the row by 8.3% and nothing is optimised |

Payloads lie on both sides of the threshold and on it (100 to 105), two that
are each below it are above it together, and a row of demand 0 gives a baseline
from which every change is one of 100%. Requests are interchangeable (symmetry).
Two requests are enough for every property that relates a request to another
one; three make a space that TLC does not finish in five minutes. Requests that
have all ended leave `Restart` enabled, so deadlock stays checked.

### `TwinStore` and `TwinState`: telemetry ingestion and the twin's two copies

`TwinStore` is the abstract specification: what the database sees of ingestion.
`Ingest` stores a reading, merges it into the row of its asset and adds the
transition from the state of that row, in one step and at most once per request;
`Answer` needs a stored reading, `Refuse` that there is none. `Suspect(a)` is the
price of the copy in memory: from then on readings of `a` are still stored in one
step, but may be merged into another state than the row's.
`TwinState` is how the code does it.

Variables: the rows (`row`, `transitions`, `telemetry`), the row locks, the
copy in memory, the graph, and the stage of each ingest and reload. An action is what
runs between two awaits: `Accept`/`Reject`, `LockRow` (the first upsert), `Apply` (the
synchronous head of `update_state`, which changes memory), `Commit` (second
upsert, transition, commit), `Finish`, `Fail`; for `POST /twin/sync`
`ClearGraph`, `FillGraph`, `SelectRows`, `LoadStates`, `FailReload`; `Restart`
with and without the database. `SelectRows` and `LoadStates` are
two actions because the database answers before the coroutine is resumed.
Histories: `astray` (assets whose entry may not be the row), `forged` (assets
updated from such an entry), `missed`.

| Run | Instance | Shows |
|---|---|---|
| `twin_state` | 1 seeded asset, 2 ingests, 2 reloads, 1 restart | memory is the row except after four named accidents; the transitions of an unaffected asset are its whole story; telemetry is not lost from the row; `TwinStore` is implemented (`stored` the asset and payload of committed telemetry, `suspect` the assets in `forged`); every accepted ingest ends |
| `twin_state_lost` (violation) | 3 ingests, 1 reload | a rolled-back ingest makes a later change of state go unrecorded |

Assets do not interact except through the graph, which is cleared as a whole,
so one asset is enough for these properties. The payloads differ in state and in
metrics, and one is out of range. The row lock is that of the `twin_states`
upsert in PostgreSQL. Every request may have ended, so deadlock is not checked.

**Fairness** (`FairSpec`, only used for `IngestsEnd`): a coroutine whose await is
over is resumed, and a statement sent to the database returns or raises, hence
weak fairness of each request's next step and of each reload's. Waiting for a row
lock has no timeout in the code, so `Fail` is not part of the fairness of a
waiting request: it must get the lock. No fairness of restarts or arrivals is
assumed; the violation run states safety only.

### `PartnerAccess`: accounts, tokens and partner sharing

Requests call register, login, refresh, forecast, commit or list, and take
their steps one by one: the lookup (`Register`, `Login`, `Refresh`, `Forecast`,
`Commit`, `List`), the change (`CreateUser`, `Revoke`, `Persist`), the audit
row (`Audit`). `Fail` ends a request after any of them; `Restart` empties
`_revoked_jti` and changes the key if there is none in the environment. A token
pair is named after the request that was answered with it, so who holds which
token is part of the state. Expiry is not counted: any use of a token may be
refused. Amounts are signed as they are formatted and stored as the column
rounds, which differ on ties; times lose their offset.

`partner_access`: 3 requests of any kind, one seeded partner, one free name, 2
organisations, `k` = 2, 2 amounts (one rounds apart), 3 periods (one ends before
it starts once the offsets are dropped, one is empty), 1 nonce and server-drawn
ones, a kept key and 1 restart, so that a token survives what forgets that it is
spent. Three requests are a login, a refresh and a second refresh or a
commitment. All requests may have ended, so deadlock is not checked. The same
properties are proved without these bounds.

### `Rules` and `Detection`: what an ingest finds

`Rules` is what the API makes of one payload: ranges (10,000,000 and 1,000,000
for calls are one bound, `MaxApiCalls`, which no payload comes near) and flags,
inferred state and health, and RULE-001 to RULE-010 one operator each. Positions are distances
from the centre of the geofence. `Detection` is the rest of an ingest: `Store`
(to the first commit, as `TwinState` has it), `Correlate`, `Detect` (rules and
triage), `Score`, `Finish`; an event is `InsertEvent`, `Detect`, `FinishEvent`.
What a call has not committed is in its `draft`. Beside it run the risk sweep
(`SweepRead`, `SweepWrite`), the triage sweep, the analyst (`TriageRun`) and the
end of an attack story.

| Run | Instance | Shows |
|---|---|---|
| `detection` | 1 ingest and 1 event over a gateway, a truck and a warehouse; 5 readings, 3 events, 2 old detections, batch 1, 1 rerun | what was answered is stored but for one case; what was found has a verdict; an event reaches the incident of a later reading; sweeps catch up |
| `detection_firmware` (violation) | 2 ingests of a gateway with two firmwares | RULE-007 compares the twin with itself and never fires |

One ingest and one event are the two kinds of transaction, and the sweeps and
the analyst are further actors; the readings trip every rule that can fire. The case is
`doomed`: a failed SELECT of the triage of an event is swallowed, PostgreSQL
has aborted the transaction, and the commit that follows stores nothing and
raises nothing. **Fairness**: the sweeps are loops with a sleep, so their steps
are weakly fair; which asset is swept is a loop over all, so each is strongly
fair. Calls are promised nothing.

Things the model makes visible that contradict no statement of the repository:
triage looks for stories whose end is not before the detection, so a running
story never gives its bonus; `max()` of severities is alphabetical; RULE-010
is missing from `rule_metrics`; RULE-002 for warehouses cannot fire through
ingestion, since a value above 40 is refused before.

### `ThreatIntel` and `AttackRun`

`ThreatIntel` is the part of the state that has indicators: extraction
(a URL holds a domain as well, a private address is none), the upsert that
locks a row until its transaction ends and sets the confidence to NULL, the
providers with their retries and refusals, the consensus, and an enrichment
pass that holds the rows it writes while it queries for the next. `AttackRun` adds
`runner.py` and the builder: `Start`, `Tick` (a whole ingest or nothing), `Leave`,
`Finalize`, `BuildRead`, `Persist` per indicator, `BuildCommit`, `Close`, and
for each its failure; `Ingest` is somebody else's event; `Shutdown` cancels,
`Restart` forgets. What a scenario leaves in the tables is the constant `Trace`.

A timeline selects rows by their dates, in a window that begins 30 seconds
before the story (`timeline.py:29`). Most rows are dated when they are stored. An incident
is dated by its oldest member, up to two minutes back
(`correlator.py:14`, `timeline.py:90`), and what others send brings its own
date: `Dated` lets each such row lie outside of any window, and `old[r]` holds
those outside of r's. So the incident of a run's own tick may be missing from
its story, and `StoryTellsRun` says that nothing else may. It also says of which
finished runs the story may still read "running": of one that a crash cut off,
and of one whose "failed" or "cancelled" could not be stored.
`ConfidenceEarned` asks of each lost confidence for something stored in that
step that holds the same indicator: the telemetry of a tick, an event, or a row
that the story newly tells.

`attack_run`: 1 run, 1 tick that leaves a detection and an incident, 2
indicators (one in the run and in a foreign event), limit 2, 3 retries, 1 restart;
367,000 states.
A run competes with ingestion and with one enrichment (a second one would be another
holder of the same locks), and two transactions
that lock two rows in opposite orders deadlock. When everything is over nothing
is enabled, so deadlock is not checked. **Fairness**: the loop resumes tasks,
the run's deadline passes, HTTP calls have timeouts (so an enrichment goes on), a
lock waiter that is free again and again gets its row, and PostgreSQL breaks a
deadlock by failing one of the two. Crashes, starts and ingests are not fair.

Visible in the model: "analyzed" is never reached through the runner; a stop
while the session of a built story closes stores "cancelled" and adds the
events again; a crash leaves the story "running" for good; a confidence is lost when its
indicator is seen again and stays so until the day is over; hashes other than
by the type `hash` raise `ValueError` in every provider and stay pending; a
limit that takes the newest first can starve the rest.

### `Traffic` and `Feeds`

`Feeds` holds four things that share the process and nothing else, so a
behaviour follows one of them (`feed`) and a restart ends it: the MQTT bridge,
the two forwarders, the Ditto sync and the traffic generator. Outcomes of a
post are "answered", "timed out" (it arrived) and "unreachable".
An alert is good, has no id (it is never remembered as seen), or has an agent that is
no object (the whole poll ends there, after it was remembered). `eve.json` is counted in
half lines, since a line can be read half written. A line is good, is no object
(the pass ends there), or has a character in its middle (a pass that finds its first
half ends there). A pass that ends like this returns what it has read and leaves
the offset where it was; a half line that decodes is no JSON and is passed
over, as is the half of one that is no object. A rotation of the file is
not modelled, nor an alert that is itself no object. `failed` (what a post did not
arrive with) and `cuts` (where passes ended) are histories.

`Traffic` is the generator as its own process: trackers on roads, baseline and
injected payloads, the loop over the fleet; what the API does with a reading is
`Rules`. A Gaussian draw has no bounds in the code (fuel and battery are clamped, the
others are not): in the model it is any whole number of standard deviations from
its mean, the constant `Draws`, which the theorem leaves open and the run sets to values
up to and beyond three. A uniform draw is one of the ends of its range. OSRM is
external; the road of each truck is what it answered for it at the first call, or
the line through the waypoints, since either is cached, so fleets of both are
among the initial states.

`feeds`: 5 messages, one for each fate; 3 alerts and 4 lines, of every shape;
1 thing whose state and risk change twice, 1 request beside the loop, 2 faults;
a fleet of six with the geofences of TRUCK-001 and TRUCK-002, half a road per
move, draws of -7, 3, 4 and 7 standard deviations, 8 readings, so that each
truck has its second turn; 1 restart; 2.4 million states. The messages do not
interact but through the counters; a file, an alert list or a thing
needs two of what can be in the middle of something. A feed that has ended stops, so deadlock is
not checked. **Fairness**: the loop of `ditto_sync_loop` sleeps and goes on, its
calls have timeouts, and Ditto comes back. A request to sync and faults are not
fair.

Visible in the model: the forwarders' payloads lack what `/api/events`
requires, so what is posted is refused with 422, and nobody looks;
a failed connection of the bridge is never tried again; seen ids, offset and
counters are lost with the process, after which everything is posted again; an
alert is marked before its post fails or its payload does, and is then lost; a
line read in two halves is lost; a line that is no object stops every pass at the
same place for good; a payload that is JSON and no object raises
without being counted; the generator counts as sent whatever is answered.

### `Analysis`: blast radius, timeline and playback

The search is one action per visited node, the two pages one action each; a
request brings the rows its queries find. The order in which networkx returns
neighbours is left open. Centralities, impacts and averages are rounded where the code
rounds them, before they are sorted and compared, to units that are constants
(four places and two in the code, `CentralityUnit` and `ScoreUnit`); the
run sets coarse ones, so that unequal impacts become equal. A tie goes up,
where the code leaves it to the last bit of its floats; nothing that is checked depends
on it. What Python's `sort` or an `ORDER BY` returns is
`InOrder`: the n-th element is the one with n - 1 before it. Minutes stand for
the `HH24:MI` labels the code uses as keys, which are unique because a window is
at most 120 minutes (`analytics.py:19`).

`POST /blast-radius/compute` stores its answer row by row and commits once. The
database id of the first row is looked up in the step that answers, that of each
other one after the flush of the row before it (`FirstKnown` in `StoreRow`), and
a row whose id is not known is skipped. `ClearIds` and `FillIds` are the two halves
of `reload_from_db`, as in `TwinState`; two may overlap, and the second half may
fail. `RollBack` is any error until the commit.

| Run | Instance | Shows |
|---|---|---|
| `analysis` | every forest of 4 assets with every source, depth 0 to 3 and three severities, 2 reloads; 259,000 states; every history of two trucks over 5 moments; every log of 4 moments; every score history of 3 assets; 90 frames, 60 s, 200 scores and 5 assets are 2 each, so that the limits are reached | the blast radius is what paths of the forest reach; what the pages show is what happened |

`BlastRadiusExact` compares the search with paths: an asset is within the radius
if some sequence of at most `max_depth` edges joins it to the source. What is
stored (`RowsAreHardestHit`) is nothing until the commit, and then the answer up to
some row, the hardest hit one always among them: all of it if the graph was not
loaded anew. A skipped row is not an unlucky one in the middle, since between
two looks at the ids the code awaits only when it has stored a row, so once
the ids are gone the loop runs to its end.
`DashboardExact` has four parts. `FramesShowLatest`: each frame shows each truck
at its last report until then. `EventsComplete`: nothing is lost, doubled or out
of order, and one of an asset's high scores of each minute is shown, the first.
`SeriesShowLatest`: a minute shows an asset's last average, and the assets shown
are the highest. `RowsCountOnce`: the counts of all minutes add up to the rows the
filters let through, although the cut-off lies within a minute.

What these have to allow for: a truck is shown at its first report before that
report; a frame has the time of its last truck; a risk jump is dropped behind the
oldest 200 scores; an average of 0 is taken for a missing one; an asset two
levels below a truck has no `parent_truck`. Each request ends, so deadlock is not
checked.

## What is proved

`AuditChainProofs` proves, for every set of workers, processes and events, any
number of ids and restarts and either kind of key:

* `TypeCorrect`: `TypeOK`.
* `IdsAreUnique`, `RowsLinkBackward`: no two rows, committed or being
  committed, have one id, and every row names the genesis hash or the signature
  of an older committed row.
* `SerialCallsVerify`: `SerialChainValid`.
* `ChainImplementsLog`: `AuditChain` implements `AuditLog`.
* `OnlyForksBreakChain` (`OnlyForksBreak`), `TamperingShows` (`TamperEvident`) and
  `BrokenForGood` (the action property `BrokenStaysBroken`).

They use the named assumptions of `AuditChain` on its constants and nothing
else. The inductive invariant is `TypeOK /\ TreeInv /\ SerialInv`. Neither
`LinksBackward` nor `SerialChainValid` is inductive: a commit keeps them only
because of what holds of the row being committed. `TreeInv` adds that a draft
is signed over the genesis hash or a committed row, and that this row has a
smaller id once the draft has one (the sequence only grows); it also says the
log has a newest row, so that `Newest` means something. `SerialInv` adds that,
without overlap, at most one worker is busy and its draft continues the newest
row. The refinement then needs one case: `CommitRow` is a step of `AuditLog`,
everything else leaves `log` alone.

The last three are about verification, a walk over a log of any length. An
induction is not available, so the argument is that of the least
counterexample, from the library's well-founded order on the naturals. Without
forks, take the first row that does not name the row before it: the row
behind the one it does name has the same `prev_hash`. A changed event does not fit its
signature; behind a removed row is one that names it, and in a log that
verifies signatures grow, so no other row has that signature. And if a log with
one more row verifies, so does the log without it (`SmallerVerifies`): a new
row that changed what an older one has to name would have the signature of a
row that was there. Hence a broken log stays broken.

`PartnerAccessProofs` proves every property of the run `partner_access`, for
every finite set of requests, every set of accounts, partners, nonces,
amounts and periods, any number of restarts and either kind of key:
`TypeCorrect` (`TypeOK`), `OnePerNonce` (`CommitmentPerNonce`),
`RotationIsFinal` (`RotatedStaysSpent`), `ActsForOneAccount`
(`ActsForItsAccount`), `AllAudited` (`EffectsAudited`), `CommitmentsFaithful`
(`CommitmentFaithful`). From the assumptions of `PartnerAccess`: names of
seeded users are unique, amounts are positive, times are integers, `None` is no
organisation, nonce or user, and drawn nonces are not clients' ones.

The inductive invariant is `IInv`. The properties speak of requests that were
answered, and an answer is the last of several steps, so what each step leaves
behind has to be said for requests that are still under way: `Sound(r)`, in four
parts. `Identified`: a token in use belongs to an answered pair, and whoever acts
has a stored account. `Rotating`: the pair was not known as spent when the request
began, and is spent once the new one is about to be answered, in the same
process. `Sharing`: what a partner call was checked for still holds when it is
stored, and it was stored if it is to be audited. `Answerable`: which calls
get that far, and that the answer comes after the row. `Genuine` and `Earned` say the
same of commitments and audit rows. `BeginKeeps` and `StepKeeps` hold the part
of the argument that all handlers have in common: the other requests are not
disturbed, because tables only grow and answered pairs stay answered. A restart
is harmless for `Rotating` because nothing has been rotated in the new process.

`TwinStateProofs` proves every safety property of the run `twin_state`, for
every set of assets, ingests, reloads, states, metrics and payloads, any seeded
rows and any number of restarts: `TypeCorrect` (`TypeOK`), `MemoryShowsTheRow`
(`MemoryIsRow`), `HistoryIsAChain` (`TransitionsChain`),
`StoredTelemetryIsMerged` (`StoredIsMerged`) and `TwinImplementsStore`
(`ImplementsTwinStore`). From the assumptions of `TwinState`: payloads and
seeded rows have the type of rows, "unknown" is a state, `None` is nothing else.

The inductive invariant is `IInv`: the four properties with three parts more.
A commit writes what was computed from memory several steps before, so
`Updating(r)` says of an ingest between the two that its entry is in memory,
and that what it will write is its payload merged into the row its asset still
has, unless it started from an entry that was astray. It survives the steps of
others because the row is locked: the last conjunct of `TypeOK`, the reason why
two ingests cannot be between apply and commit for one asset (`UpdatingStays`).
`Fresh(s)` says that a reload knows the rows but for those it knows to have
missed, and `Kept(r)` that telemetry is stored from the commit on, and only of
valid payloads. `ChainAppend` is the only fact about sequences; `ReloadKeeps`
holds what all steps that touch only memory have in common.

The refinement has one lemma per kind of step: `CommitSimulates` (a commit is
`Ingest`, with what `Updating` says was found as the state before),
`ApplySimulates` (`Suspect` or nothing), `MoveSimulates` (`Answer`, `Refuse` or
nothing) and `RestartSimulates` (nothing).

`TwinSyncProofs` proves every property of the run `twin_sync`, for every set of
requests, nodes, edges and payloads, any numbers in rows and any threshold:
`TypeCorrect` (`TypeOK`), `AnsweredRequestsAudited` (`AnsweredIsAudited`),
`TrailTellsTheTruth` (`TrailIsTruthful`), `NotificationsAudited`
(`NotifiedIsAudited`), `RunsSeeTheirTrigger` (`RunSeesItsTrigger`),
`SerialSyncsExact` (`SerialSyncIsExact`) and `SentColumnsOnly` (the action
property `OnlySentColumnsChange`). From the assumptions of `TwinSync`: nodes and
edges have different codes, payloads and seeded rows hold natural numbers, and
`None` and `Absent` are neither.

The inductive invariant has three layers. `TypeInv` says what a request holds at
each stage (what it loaded, what it wrote and has read again). `StoryInv` says
what an unfinished request has published and saved by then, exactly (`Due`):
"exactly" is what makes a second row of the same action impossible; and that
the row's version, and the version in the network a run has loaded, are not
older than the request's own write. `SerialInv` says which numbers a
request has in hand while nobody else is active. The arithmetic is a lemma of
its own, `DriftIsMove`: the rounded percentage of the code exceeds the threshold
exactly when `MovedFar` holds.

`DetectionProofs` proves the safety properties of the run `detection`, for every
set of calls, payloads, assets and old detections, any batch, threshold and
number of reruns: `TypeCorrect` (`TypeOK`), `AnswersAreStored`
(`AnsweredStored`), `EveryDetectionTriaged` (`DetectionsTriaged`) and
`EventsReachIncidents` (`EventReachesIncident`). From the assumptions of
`Detection` and `Rules`: payloads name assets that exist (others are answered
with 404), and an old detection is of no call.

The properties speak of committed rows, which come from drafts, so the invariant
says of a draft what they say of the tables: `Progress` ties the stage of a call
to what it has stored (and a doomed event to what it has not), `IncidentInv`
says that the members of a draft's incident are committed rows of its asset and
that the events known when the ingest began are among them, `VerdictInv` that
what a draft found has its verdict in the draft, and that a verdict depends on
the detection and on whether a story had ended, but for the analyst's.

`AttackRunProofs` proves the safety properties of the run `attack_run`, for every
set of runs, traces, payloads and foreign rows, any number of ticks, retries and
restarts and any limit: `TypeCorrect` (`TypeOK`), `StoriesTellRuns`
(`StoryTellsRun`) and `ConfidencesEarned` (the action property
`ConfidenceEarned`). From the assumptions of `AttackRun` and `ThreatIntel`: a run
has a payload and a trace, rows hold indicators of the types the patterns
know, and `None` is none of the values it stands beside.

A story is complete because of what was read several steps and many awaits
before: `StoryInv` says that what `build_story` has read (`told`) holds every
row of the run but the incidents dated outside its window, and none that is
outside of it, and that this stays so since the run's
task, which is the only one to add such rows, is the one that is building.
That the events of a story occur once needs the last conjunct: a second build
happens only in a run that was cancelled. `EvidenceInv` says that rows carry
the number of a tick that was counted, so that two ticks leave different
rows; `LockInv` who may hold a row's lock; `IntelInv` that a confidence belongs
to a stored indicator and that an enrichment stores a row with every confidence.

`FeedsProofs` proves `CountersAddUp` (`CountersBalance`) and `PostedAsRead`
(`PostedOnce`) for any finite set of messages, any alerts and any number of lines,
changes, faults and restarts. The sum is an invariant only because each counter is the
number of messages that ended under its name (`CountInv`); a step moves one
message, so one cardinality grows by one; and `FateInv` says which topics and
payloads end where, which makes the uncounted ones exactly the three kinds.
`PostInv` says that an alert with an id that was posted is among the seen ones, and
that a line that was posted lies before the offset and in no
batch unless a later line can stop the reader; and of what is seen or lies before
the offset, which of the named things became of it.

The same module proves `TrafficIsJudged` (`TrafficJudged`) for every fleet of
assets of the known types, every geofence, road, OSRM answer and pace, and every
set of draws, however far out. `Base` and `Odd` say what the generated and the
injected payload of each type may hold; a reading whose draws lie within three standard
deviations (`Common`) then has every field in a range that the validator and the
rules can be compared with, and of the others it is enough that the rules of other
types do not read what is drawn. The position needs an
argument: it is interpolated between two points of a road and so is not
farther out than both (`PositionOnRoad`); hence a baseline reading outside the
inner zone means that a point of the road is (`BreachStrays`).

`AnalysisProofs` proves both properties of the run `analysis`:
`BlastRadiusIsExact` (`BlastRadiusExact`) for every finite forest, source, depth,
severity and order of neighbours, `DashboardIsExact` (`DashboardExact`) for every
finite set of rows, scores and reports, every log, window and filter and any
values of the four limits and of the two units. From the assumptions of `Analysis`: a call's rows are
finitely many with times that are natural numbers, a parent is an asset or none,
and the source is an asset (another is answered with an error). That parents do
not form a cycle is not needed.

The search takes many steps, and what is wanted of its end is not inductive. Its
invariant is `Search`, in six parts: the types (`SearchTyped`); the entries found so far
are each on a path of the forest, in order of depth, each asset once
(`SearchSound`); `visited` holds their depths (`SearchVisited`); the queue is the
entries that were not looked around, none more than one deeper than its head
(`SearchQueued`); whatever is next to an entry that was looked around has an
entry, at most one deeper (`SearchComplete`); `by_depth` counts the entries of
each depth (`SearchCounts`). Of these, `SearchQueued` is the reason why the first
path found is a shortest one, and why the code's second condition
(`visited[c] > nd`) never acts. Once the queue is empty, `SearchComplete` gives every
asset at the end of a path (`ReachedIsVisited`, by the shortest path that
failed), `SearchSound` that there is no other. That the sorted answer never puts
an asset before one that is hit harder needs that impact falls with depth and
rises with centrality (`ImpactMonotone`), about powers of 7 and 10; rounding keeps
that order, for any unit (`RoundedRises`). `StoreInv` says that what is
flushed while the answer is stored is a first part of it, and all before the next
row as long as there was no reload (`StoreRowStores`); everybody else leaves it
alone (`OthersStoreNothing`).

The two pages answer in one step, so their proofs are about the operators:
`InOrderSorts` (what is sorted by a total order is a permutation of the set, in that
order), `CarryForwardShowsLatest`, `QuotientRises` (buckets and minutes follow the
times) and `CountsAddUp`. The two recursive functions, `CarryForward` and
`CountedUntil`, are `CHOOSE`s that mean something only if such a function exists:
`Recursion` proves that one does. All inductions are arguments by the least
counterexample (`LeastNatural`).

What the proofs showed to be wrong in the models, which the runs
could not see, has been corrected: `MovedFar` forgot that a threshold of 100%
or more never fires for a change from 0; two `CASE`s (what becomes of a message,
the consensus of the providers) had guards that overlap, which the code resolves
by order and TLA+ does not; `ConfidenceEarned` blamed only new rows for a lost
confidence, where a tick that leaves no row of its own may take it, too; and
`Analysis` sorted with an operator that needs a reflexive order and was given
a strict one, so that with TLC's own implementation it sorted, and by its
definition it meant nothing.

Only model-checked:

* `IngestsEnd`, `SweepsCatchUp`, `RunsEnd` and `ThingsCatchUp`: liveness needs
  fairness, hence ENABLED, which is outside what the prover does.
* The four violations, which are facts about one behaviour each.

## Disagreements between code and documentation

The four violation runs; `PROJECT.json` quotes the lines. In short:
overlapping audit writes fork the chain, which verification never forgives;
drift below the threshold per request can exceed it together; a rolled-back
ingest makes the transition history miss a change; RULE-007, which the threat
model relies on, cannot fire.

Others have no run of their own. The properties of `feeds` name them as
exceptions, so each is a behaviour that the run and the theorem allow for exactly:

* `wazuh_adapter.py:24`, "forward new ones to /api/events": an alert without an
  id is forwarded at every poll (`PostedOnce`).
* `suricata_adapter.py:25`, "Read newly appended lines": after a line that is
  no object, or half a character, the lines before it are read and posted again
  (`PostedOnce`).
* `traffic_generator.py:13`, "realistic baseline values (no detections)": the roads
  of two trucks leave the inner zone of their geofences (RULE-010), and a rare draw of
  speed or temperature is found by RULE-001 or RULE-002 (`TrafficJudged`).
* `traffic_generator.py:195`, "injected anomaly (triggers detections)": a
  warehouse's is always out of range and refused, so may be a truck's
  speed be, and what a sensor, an application or a database sends as an anomaly is a
  baseline reading (`TrafficJudged`).

And outside of any property: without `AUDIT_SIGNING_KEY` a log does not verify after
a restart, which drew another key (`SerialChainValid` and `OnlyForksBreak` are
about one key); POST `/blast-radius/compute` answers how many assets are hit
even when it has stored fewer; `docs/ARCHITECTURE.md:91` promises "caching and rate limiting", but
`registry.py` makes adapters with an empty cache and limiter for each call;
`api/app.py:65` says that a start without the database is retried on
`/api/ready`, which only probes.

## Not modelled

* Machine learning (`src/ml`): numeric models behind a library, without a
  protocol of their own.
* Dashboard and static files, the scripts that write tickets and diagrams, the
  demo: views over the API and one-shot programs whose state nothing reads.
* The arithmetic of the MILP and of the simulation: a run is the network it was
  given. The sums of a forecast, the weights and decay of a risk score, reports,
  the wording of narratives.
* Seeding (`seed_initial_data` looks for an empty table and then inserts; requests
  call it, too, but the start of the application has finished it before the first
  of them), snapshots,
  `compute_drift` and other reads; health probes.
* The weather adapter and its cache, which only the dashboard uses.
* Positions, health and timestamps of the cyber twin, replaced together with the
  state; the inventory of a supply node, written like demand and capacity but
  without part in the drift.
* The great-circle formula, abstracted to a distance; cache and limiter of the
  adapters, which start empty for each call and so never act.
* The Wazuh and Suricata stand-ins of `config/`, which appear as what writes the
  alerts; Ditto, OSRM, the broker and PostgreSQL, as far as the code uses them.

## What is left

Three requests in `TwinSync` and two ingests in `Detection` want a coarser model
of the handlers; the proofs cover them already.
