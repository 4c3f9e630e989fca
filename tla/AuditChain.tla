----------------------------- MODULE AuditChain -----------------------------
(***************************************************************************)
(* backend/app/services/audit_service.py: the audit log every state change *)
(* of the supply-chain twin is published to.                               *)
(*                                                                         *)
(* record_audit_event reads the newest committed row, signs the new row    *)
(* over that row's signature, and inserts and commits it.  Nothing makes   *)
(* those steps one: the endpoints are plain functions that run in a thread *)
(* pool with a session each, and the celery worker writes the same table   *)
(* from another process.  A worker of this module is one such thread; its  *)
(* steps are the statements at which another session can interleave.       *)
(* Row ids come from a database sequence, which is taken at the INSERT and *)
(* not given back, so rows may become visible out of id order.             *)
(***************************************************************************)
EXTENDS Naturals, Sequences

CONSTANTS
    Workers,      \* threads that call record_audit_event
    Processes,    \* operating-system processes they live in
    ProcessOf,    \* ProcessOf[w] is the process of worker w
    Events,       \* what may be audited
    KeyFromEnv,   \* is AUDIT_SIGNING_KEY set? otherwise each start draws a key
    MaxId,        \* bound: ids handed out by the sequence
    MaxBoots      \* bound: restarts of a process

ASSUME ProcessOfAssumption == ProcessOf \in [Workers -> Processes]
ASSUME KeyFromEnvAssumption == KeyFromEnv \in BOOLEAN
ASSUME BoundsAssumption == MaxId \in Nat /\ MaxBoots \in Nat

VARIABLES
    log,          \* committed rows of audit_logs
    nextId,       \* next value of the id sequence
    pc,           \* pc[w]: where worker w stands in record_audit_event
    draft,        \* draft[w]: the row w is building, NoDraft when idle
    boots,        \* boots[p]: how often process p has been started again
    overlapped    \* history: did two calls ever run at the same time?

auditVars == <<log, nextId, pc, draft, boots, overlapped>>

-----------------------------------------------------------------------------
(* Keys, rows and signatures.                                              *)

EnvKey == <<"env", 0>>

Keys == {EnvKey} \cup (Processes \X (0 .. MaxBoots))

SigningKey(p) == IF KeyFromEnv THEN EnvKey ELSE <<p, boots[p]>>

\* The abstract log: the rows of the table, signed under any process's key.
Log == INSTANCE AuditLog WITH Events <- Events, Keys <- Keys, log <- log

NoDraft == [id |-> 0, event |-> "none"]

\* select(AuditLog).order_by(id.desc()).limit(1)
Newest(rows) == CHOOSE row \in rows : \A other \in rows : other.id <= row.id

\* Mutant: READ UNCOMMITTED, the newest row may still be rolled back.
LastSignatureDirty(rows) ==
    LET visible == rows \cup {draft[w] : w \in {v \in Workers : pc[v] = "inserted"}}
    IN IF visible = {} THEN Log!GENESIS_HASH ELSE Newest(visible).sig

LastSignature(rows) ==
    IF rows = {} THEN Log!GENESIS_HASH ELSE Newest(rows).sig

\* Mutant: prev_hash = item.signature is missing from the walk.
VerifyNotAdvancing(rows, key) ==
    \A row \in rows :
        /\ row.prev = Log!GENESIS_HASH
        /\ row.sig = Log!compute_audit_signature(key, row.prev, row.event)

\* Mutant: only the newest row is checked, as a cheaper verification would.
VerifyNewestOnly(rows, key) ==
    rows # {} =>
        LET row == Newest(rows)
        IN /\ row.prev = LastSignature(rows \ {row})
           /\ row.sig = Log!compute_audit_signature(key, row.prev, row.event)

\* Mutant: the links are followed but no signature is computed again.
VerifyLinksOnly(rows, key) ==
    \A row \in rows : row.prev = LastSignature({older \in rows : older.id < row.id})

\* The walk in id order: each row must name the signature of the row before
\* it and carry the signature this process's key gives.
verify_audit_chain(rows, key) ==
    \A row \in rows :
        /\ row.prev = LastSignature({older \in rows : older.id < row.id})
        /\ row.sig = Log!compute_audit_signature(key, row.prev, row.event)

-----------------------------------------------------------------------------
(* record_audit_event, statement by statement.                             *)

Init ==
    /\ log = {}
    /\ nextId = 1
    /\ pc = [w \in Workers |-> "idle"]
    /\ draft = [w \in Workers |-> NoDraft]
    /\ boots = [p \in Processes |-> 0]
    /\ overlapped = FALSE

\* Mutant: prev_hash is stored but left out of what is signed.
ReadLastUnchained(w, event) ==
    /\ pc[w] = "idle"
    /\ draft' = [draft EXCEPT ![w] =
         [id    |-> 0,
          event |-> event,
          prev  |-> LastSignature(log),
          sig   |-> Log!compute_audit_signature(
                       SigningKey(ProcessOf[w]), Log!GENESIS_HASH, event)]]
    /\ pc' = [pc EXCEPT ![w] = "signed"]
    /\ overlapped' = (overlapped \/ \E v \in Workers : pc[v] # "idle")
    /\ UNCHANGED <<log, nextId, boots>>

\* Read the newest committed row and sign the new one over its signature.
ReadLast(w, event) ==
    /\ pc[w] = "idle"
    /\ LET prev == LastSignature(log)
       IN draft' = [draft EXCEPT ![w] =
                      [id    |-> 0,
                       event |-> event,
                       prev  |-> prev,
                       sig   |-> Log!compute_audit_signature(
                                    SigningKey(ProcessOf[w]), prev, event)]]
    /\ pc' = [pc EXCEPT ![w] = "signed"]
    /\ overlapped' = (overlapped \/ \E v \in Workers : pc[v] # "idle")
    /\ UNCHANGED <<log, nextId, boots>>

\* Mutant: the id is one more than the largest committed id.
InsertRowMaxPlusOne(w) ==
    /\ pc[w] = "signed"
    /\ nextId <= MaxId
    /\ draft' = [draft EXCEPT ![w].id = IF log = {} THEN 1 ELSE Newest(log).id + 1]
    /\ pc' = [pc EXCEPT ![w] = "inserted"]
    /\ UNCHANGED <<log, nextId, boots, overlapped>>

\* The flush of db.commit(): INSERT takes the next id of the sequence.
InsertRow(w) ==
    /\ pc[w] = "signed"
    /\ nextId <= MaxId
    /\ draft' = [draft EXCEPT ![w].id = nextId]
    /\ nextId' = nextId + 1
    /\ pc' = [pc EXCEPT ![w] = "inserted"]
    /\ UNCHANGED <<log, boots, overlapped>>

\* The COMMIT of db.commit(): the row becomes visible to other sessions.
CommitRow(w) ==
    /\ pc[w] = "inserted"
    /\ log' = log \cup {draft[w]}
    /\ draft' = [draft EXCEPT ![w] = NoDraft]
    /\ pc' = [pc EXCEPT ![w] = "idle"]
    /\ UNCHANGED <<nextId, boots, overlapped>>

\* The INSERT or the COMMIT raises: get_db closes the session, which rolls
\* back; the sequence number is not given back.
FailRow(w) ==
    /\ pc[w] # "idle"
    /\ draft' = [draft EXCEPT ![w] = NoDraft]
    /\ pc' = [pc EXCEPT ![w] = "idle"]
    /\ UNCHANGED <<log, nextId, boots, overlapped>>

\* The process stops and starts: its open transactions are rolled back and,
\* unless the key comes from the environment, settings draws a new key.
Restart(p) ==
    /\ boots[p] < MaxBoots
    /\ boots' = [boots EXCEPT ![p] = @ + 1]
    /\ pc' = [w \in Workers |-> IF ProcessOf[w] = p THEN "idle" ELSE pc[w]]
    /\ draft' = [w \in Workers |->
                   IF ProcessOf[w] = p THEN NoDraft ELSE draft[w]]
    /\ UNCHANGED <<log, nextId, overlapped>>

Next ==
    \/ \E w \in Workers :
          \/ \E event \in Events : ReadLast(w, event)
          \/ InsertRow(w)
          \/ CommitRow(w)
          \/ FailRow(w)
    \/ \E p \in Processes : Restart(p)

Spec == Init /\ [][Next]_auditVars

-----------------------------------------------------------------------------
(* What the log promises.                                                  *)

Inserted == {w \in Workers : pc[w] = "inserted"}

\* The shape of the state: a worker holds a row exactly between the read and
\* the commit, and every row id, committed or not, came from the sequence.
TypeOK ==
    /\ pc \in [Workers -> {"idle", "signed", "inserted"}]
    /\ nextId \in 1 .. MaxId + 1
    /\ boots \in [Processes -> 0 .. MaxBoots]
    /\ overlapped \in BOOLEAN
    /\ log \subseteq Log!Entry
    /\ \A row \in log : row.id \in 1 .. nextId - 1
    /\ draft \in [Workers -> Log!Entry \cup {NoDraft}]
    /\ \A w \in Workers :
         /\ pc[w] = "idle" => draft[w] = NoDraft
         /\ pc[w] # "idle" => draft[w] \in Log!Entry
         /\ pc[w] = "inserted" => draft[w].id \in 1 .. nextId - 1

\* However calls interleave, fail or are cut off by a restart, no row is
\* committed under an id another row holds, so "order by id" is a total order
\* and verify_audit_chain reads one well-defined sequence.
IdsUnique ==
    /\ \A r1, r2 \in log : r1.id = r2.id => r1 = r2
    /\ \A w \in Inserted, row \in log : draft[w].id # row.id
    /\ \A v, w \in Inserted : draft[v].id = draft[w].id => v = w

\* Every committed prev_hash is the genesis hash or the signature of an older
\* committed row: record_audit_event never chains onto a row that was rolled
\* back, whatever fails between the read and the commit.
LinksBackward == \A row \in log : Log!Linked(row, log)

\* GET /audit/verify answers true for a log all of whose rows were signed
\* with the asking process's key, if no two calls of record_audit_event ever
\* ran at the same time.
SerialChainValid ==
    \A p \in Processes :
        /\ ~overlapped
        /\ \A row \in log : row.sig[Len(row.sig)].key = SigningKey(p)
        => verify_audit_chain(log, SigningKey(p))

\* With the right key, a fork is the only way the code can break the chain:
\* if no two rows name the same prev_hash, verification succeeds even where
\* calls overlapped and ids became visible out of order.
OnlyForksBreak ==
    \A key \in Keys :
        /\ \A r1, r2 \in log : r1.prev = r2.prev => r1 = r2
        /\ \A row \in log : row.sig[Len(row.sig)].key = key
        => verify_audit_chain(log, key)

\* A log that failed verification never passes it again: later rows, even
\* ones whose ids fall between those of older rows, do not mend the chain.
BrokenStaysBroken ==
    [][\A key \in Keys :
         ~verify_audit_chain(log, key) => ~verify_audit_chain(log', key)]_auditVars

\* What verify_audit_chain detects on a log it accepts: any change to what a
\* row says, and the removal of any row but the newest.
TamperEvident ==
    \A key \in Keys : verify_audit_chain(log, key) =>
        \A row \in log :
            /\ \A event \in Events \ {row.event} :
                 ~verify_audit_chain((log \ {row}) \cup {[row EXCEPT !.event = event]}, key)
            /\ row # Newest(log) => ~verify_audit_chain(log \ {row}, key)

\* The log implements the append-only hash tree of AuditLog.
ImplementsAuditLog == Log!Spec

\* tests/test_optimization.py:28-30: after state changes were published, the
\* audit trail verifies.
ChainValid ==
    \A p \in Processes : verify_audit_chain(log, SigningKey(p))
=============================================================================
