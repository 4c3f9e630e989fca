------------------------------ MODULE AuditLog ------------------------------
(***************************************************************************)
(* What the hash-chained audit log of backend/app promises whatever the    *)
(* threads and processes that write it do: committed rows are never        *)
(* changed or removed, a new row carries a row id nobody had, and its      *)
(* prev_hash is the genesis hash or the signature of a row that was        *)
(* already committed under a smaller id.  The rows therefore form a tree   *)
(* rooted at the genesis hash.  The stronger promise, that the tree is a   *)
(* chain, is kept only when calls do not overlap (see AuditChain).         *)
(***************************************************************************)
EXTENDS Naturals, Sequences

CONSTANTS Events,   \* what is audited: actor, action, resource and details
          Keys      \* the HMAC keys a process may sign with

VARIABLE log        \* the committed rows of audit_logs

-----------------------------------------------------------------------------

\* HMAC-SHA256 is taken to be collision free, so a signature is the history
\* it commits to: the (key, event) pairs from the genesis hash to its own row.
Signature == Seq([key : Keys, event : Events])

GENESIS_HASH == <<>>

compute_audit_signature(key, prev_hash, event) ==
    Append(prev_hash, [key |-> key, event |-> event])

Entry == [id : Nat, event : Events, prev : Signature, sig : Signature]

\* prev_hash names the genesis hash or an older row.
Linked(row, rows) ==
    \/ row.prev = GENESIS_HASH
    \/ \E older \in rows : older.id < row.id /\ older.sig = row.prev

Extend(row) ==
    /\ row \in Entry
    /\ \A old \in log : old.id # row.id
    /\ Linked(row, log)
    /\ \E key \in Keys :
         row.sig = compute_audit_signature(key, row.prev, row.event)
    /\ log' = log \cup {row}

Init == log = {}

Next == \E row \in log' \ log : Extend(row)

Spec == Init /\ [][Next]_log
=============================================================================
