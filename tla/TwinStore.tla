----------------------------- MODULE TwinStore -----------------------------
(***************************************************************************)
(* What ingest_telemetry promises of the database, however the coroutines  *)
(* of the api process, its copy of the twin and its restarts interleave: a *)
(* reading is stored in one step that adds its telemetry, merges it into   *)
(* the row of its asset and records the transition from the state the row  *)
(* had; nothing is stored twice or taken back; who was answered has stored *)
(* and who was refused never will.                                         *)
(*                                                                         *)
(* Rows are updated from the copy in memory, which may have lost the row   *)
(* (see TwinState).  An asset that this has happened to is suspect from    *)
(* then on: a reading is still stored in one step, but may be merged into  *)
(* another state than the one the row had.                                 *)
(***************************************************************************)
EXTENDS Sequences

CONSTANTS Assets, Requests, States, Metrics, Payloads, Seeded, None  \* as in TwinState

VARIABLES
    row,          \* row[a]: the row of twin_states
    transitions,  \* transitions[a]: the rows of state_transitions
    stored,       \* stored[r]: the asset and the payload of r's telemetry rows
    answered,     \* the requests answered with a result
    refused,      \* the requests answered with 404 or 422
    suspect       \* the assets updated from an entry that may not be the row

vars == <<row, transitions, stored, answered, refused, suspect>>

-----------------------------------------------------------------------------

Row == [state : States, metrics : SUBSET Metrics]

\* What a reading of an asset without a row is merged into.
Unseen == [state |-> "unknown", metrics |-> {}]

Current(a) == IF row[a] = None THEN Unseen ELSE row[a]

Init ==
    /\ row = Seeded
    /\ transitions = [a \in Assets |-> <<>>]
    /\ stored = [r \in {} |-> None]
    /\ answered = {}
    /\ refused = {}
    /\ suspect = {}

\* Reading p of asset a, merged into what was there before.
Ingest(r, a, p, before) ==
    /\ r \notin DOMAIN stored \cup refused
    /\ p.valid
    /\ a \notin suspect => before = Current(a)
    /\ stored' = [q \in DOMAIN stored \cup {r} |-> IF q = r THEN <<a, p>> ELSE stored[q]]
    /\ row' = [row EXCEPT ![a] = [state |-> p.state, metrics |-> before.metrics \cup p.metrics]]
    /\ transitions' = IF before.state = p.state THEN transitions
                      ELSE [transitions EXCEPT ![a] =
                              Append(@, [from |-> before.state, to |-> p.state])]
    /\ UNCHANGED <<answered, refused, suspect>>

Answer(r) ==
    /\ r \in DOMAIN stored
    /\ answered' = answered \cup {r}
    /\ UNCHANGED <<row, transitions, stored, refused, suspect>>

Refuse(r) ==
    /\ r \notin DOMAIN stored
    /\ refused' = refused \cup {r}
    /\ UNCHANGED <<row, transitions, stored, answered, suspect>>

Suspect(a) ==
    /\ suspect' = suspect \cup {a}
    /\ UNCHANGED <<row, transitions, stored, answered, refused>>

Next ==
    \/ \E r \in Requests :
         \/ \E a \in Assets, p \in Payloads, before \in Row : Ingest(r, a, p, before)
         \/ Answer(r) \/ Refuse(r)
    \/ \E a \in Assets : Suspect(a)

Spec == Init /\ [][Next]_vars
=============================================================================
