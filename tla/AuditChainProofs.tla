-------------------------- MODULE AuditChainProofs --------------------------
(***************************************************************************)
(* Proofs about AuditChain, for every set of workers, processes and        *)
(* events.  LinksBackward and SerialChainValid are not inductive: a commit *)
(* preserves them only because of what holds of the row in the draft.  The *)
(* invariant below says what does.                                         *)
(***************************************************************************)
EXTENDS AuditChain, WellFoundedInduction, TLAPS

\* The log has a newest row unless it is empty, so Newest chooses one.
HasNewest == log = {} \/ \E row \in log : \A other \in log : other.id <= row.id

\* A row's signature is the HMAC, under some key, of what it chains.
Signed(row) ==
    \E key \in Keys : row.sig = Log!compute_audit_signature(key, row.prev, row.event)

\* A draft is signed over the genesis hash or a committed row, and that row
\* is older once the draft has an id.
DraftSound(w) ==
    /\ pc[w] # "idle" =>
         /\ Signed(draft[w])
         /\ \/ draft[w].prev = Log!GENESIS_HASH
            \/ \E older \in log : older.sig = draft[w].prev
    /\ pc[w] = "inserted" => Log!Linked(draft[w], log)

\* What holds of every log, overlapping calls or not.
TreeInv ==
    /\ HasNewest
    /\ IdsUnique
    /\ LinksBackward
    /\ \A row \in log : Signed(row)
    /\ \A w \in Workers : DraftSound(w)

\* As long as no two calls overlapped, at most one worker is busy, its draft
\* continues the newest row, and the committed rows form a chain.
SerialInv ==
    ~overlapped =>
      /\ \A v, w \in Workers : pc[v] # "idle" /\ pc[w] # "idle" => v = w
      /\ \A w \in Workers : pc[w] # "idle" => draft[w].prev = LastSignature(log)
      /\ \A w \in Workers, row \in log : pc[w] = "inserted" => row.id < draft[w].id
      /\ \A row \in log : row.prev = LastSignature({older \in log : older.id < row.id})

-----------------------------------------------------------------------------
(* The helpers.                                                            *)

\* order_by(id.desc()).limit(1) returns a row, and none is newer.
LEMMA NewestIsNewest ==
  ASSUME HasNewest, log # {}
  PROVE  Newest(log) \in log /\ \A row \in log : row.id <= Newest(log).id
BY DEF HasNewest, Newest

\* What a new row is signed over is the genesis hash or a committed signature.
LEMMA LastSignatureIsCommitted ==
  ASSUME HasNewest
  PROVE  \/ LastSignature(log) = Log!GENESIS_HASH
         \/ \E row \in log : row.sig = LastSignature(log)
BY NewestIsNewest DEF LastSignature

\* A signature is a sequence, for any key this or another process may use.
LEMMA SignatureType ==
  ASSUME NEW key \in Keys, NEW prev \in Log!Signature, NEW event \in Events
  PROVE  Log!compute_audit_signature(key, prev, event) \in Log!Signature
BY DEF Log!compute_audit_signature, Log!Signature

\* The genesis hash is the empty history.
LEMMA GenesisType == Log!GENESIS_HASH \in Log!Signature
BY DEF Log!GENESIS_HASH, Log!Signature

\* The key of a process is one of the keys, however often it was restarted.
LEMMA SigningKeyType ==
  ASSUME TypeOK, NEW p \in Processes
  PROVE  SigningKey(p) \in Keys
BY KeyFromEnvAssumption DEF TypeOK, SigningKey, Keys, EnvKey

\* What the read returns is a signature.
LEMMA LastSignatureType ==
  ASSUME TypeOK, HasNewest
  PROVE  LastSignature(log) \in Log!Signature
BY LastSignatureIsCommitted, GenesisType DEF TypeOK, Log!Entry

-----------------------------------------------------------------------------
(* Type correctness.  It needs HasNewest, for the type of what is read.    *)

\* At the start nobody holds a row.
LEMMA TypeInit == Init => TypeOK
<1> SUFFICES ASSUME Init PROVE TypeOK
  OBVIOUS
<1>1. draft \in [Workers -> Log!Entry \cup {NoDraft}]
  BY DEF Init
<1>2. \A w \in Workers : pc[w] = "idle" /\ draft[w] = NoDraft
  BY DEF Init
<1>3. /\ pc \in [Workers -> {"idle", "signed", "inserted"}]
      /\ overlapped \in BOOLEAN
      /\ log = {}
  BY DEF Init
<1>4. nextId \in 1 .. MaxId + 1 /\ boots \in [Processes -> 0 .. MaxBoots]
  BY BoundsAssumption DEF Init
<1>. QED
  BY <1>1, <1>2, <1>3, <1>4 DEF TypeOK

\* Each statement of record_audit_event keeps the shape.
LEMMA TypeNext == TypeOK /\ HasNewest /\ [Next]_auditVars => TypeOK'
<1> SUFFICES ASSUME TypeOK, HasNewest, [Next]_auditVars
             PROVE  TypeOK'
  OBVIOUS
<1> USE BoundsAssumption
<1>1. ASSUME NEW w \in Workers, NEW event \in Events, ReadLast(w, event)
      PROVE  TypeOK'
  <2> DEFINE prev == LastSignature(log)
             sig  == Log!compute_audit_signature(SigningKey(ProcessOf[w]), prev, event)
             row  == [id |-> 0, event |-> event, prev |-> prev, sig |-> sig]
  <2>1. ProcessOf[w] \in Processes
    BY ProcessOfAssumption
  <2>2. prev \in Log!Signature
    BY LastSignatureType
  <2>3. sig \in Log!Signature
    BY <2>1, <2>2, SigningKeyType, SignatureType
  <2> HIDE DEF prev, sig
  <2>4. row \in Log!Entry
    BY <2>2, <2>3 DEF Log!Entry
  <2>5. draft' = [draft EXCEPT ![w] = row] /\ pc' = [pc EXCEPT ![w] = "signed"]
    BY <1>1 DEF ReadLast, prev, sig
  <2> HIDE DEF row
  <2>6. UNCHANGED <<log, nextId, boots>> /\ overlapped' \in BOOLEAN
    BY <1>1 DEF ReadLast, TypeOK
  <2>. QED
    BY <2>4, <2>5, <2>6 DEF TypeOK
<1>2. ASSUME NEW w \in Workers, InsertRow(w)
      PROVE  TypeOK'
  <2>1. draft[w] \in Log!Entry /\ nextId \in Nat /\ nextId \in 1 .. MaxId
    BY <1>2 DEF InsertRow, TypeOK
  <2>2. [draft[w] EXCEPT !.id = nextId] \in Log!Entry
    BY <2>1 DEF Log!Entry
  <2>3. draft' = [draft EXCEPT ![w] = [draft[w] EXCEPT !.id = nextId]]
    BY <1>2 DEF InsertRow
  <2>4. draft' \in [Workers -> Log!Entry \cup {NoDraft}]
    BY <2>2, <2>3 DEF TypeOK
  <2>5. draft'[w].id = nextId
    BY <2>1, <2>3 DEF TypeOK, Log!Entry
  <2>6. \A v \in Workers \ {w} : draft'[v] = draft[v] /\ pc'[v] = pc[v]
    BY <1>2, <2>3 DEF TypeOK, InsertRow
  <2>7. pc' = [pc EXCEPT ![w] = "inserted"] /\ nextId' = nextId + 1
    BY <1>2 DEF InsertRow
  <2>8. UNCHANGED <<log, boots, overlapped>>
    BY <1>2 DEF InsertRow
  <2>9. draft'[w] \in Log!Entry
    BY <2>2, <2>3 DEF TypeOK
  <2>. QED
    BY <2>1, <2>4, <2>5, <2>6, <2>7, <2>8, <2>9 DEF TypeOK
<1>3. ASSUME NEW w \in Workers, CommitRow(w)
      PROVE  TypeOK'
  BY <1>3 DEF CommitRow, TypeOK
<1>4. ASSUME NEW w \in Workers, FailRow(w)
      PROVE  TypeOK'
  BY <1>4 DEF FailRow, TypeOK
<1>5. ASSUME NEW p \in Processes, Restart(p)
      PROVE  TypeOK'
  BY <1>5 DEF Restart, TypeOK
<1>6. CASE UNCHANGED auditVars
  BY <1>6 DEF auditVars, TypeOK
<1>. QED
  BY <1>1, <1>2, <1>3, <1>4, <1>5, <1>6 DEF Next

-----------------------------------------------------------------------------
(* The tree: unique ids, and every row linked to an older one.             *)

\* The empty log is a tree.
LEMMA TreeInit == Init => TreeInv
BY DEF Init, TreeInv, HasNewest, IdsUnique, LinksBackward, Inserted, DraftSound

\* Read: the draft is signed over what LastSignature returned.
LEMMA TreeReadLast ==
  ASSUME TypeOK, TreeInv, NEW w \in Workers, NEW event \in Events, ReadLast(w, event)
  PROVE  TreeInv'
<1> DEFINE prev == LastSignature(log)
           key  == SigningKey(ProcessOf[w])
           sig  == Log!compute_audit_signature(key, prev, event)
           row  == [id |-> 0, event |-> event, prev |-> prev, sig |-> sig]
<1>1. /\ draft' = [draft EXCEPT ![w] = row]
      /\ pc' = [pc EXCEPT ![w] = "signed"]
      /\ UNCHANGED <<log, nextId, boots>>
  BY DEF ReadLast
<1>2. key \in Keys
  BY SigningKeyType, ProcessOfAssumption
<1>3. Signed(row)
  BY <1>2 DEF Signed
<1>4. row.prev = Log!GENESIS_HASH \/ \E older \in log : older.sig = row.prev
  BY LastSignatureIsCommitted DEF TreeInv
<1> HIDE DEF row
<1>5. draft'[w] = row /\ pc'[w] = "signed"
  BY <1>1 DEF TypeOK
<1>6. \A v \in Workers \ {w} : draft'[v] = draft[v] /\ pc'[v] = pc[v]
  BY <1>1 DEF TypeOK
<1>7. \A v \in Workers : DraftSound(v)'
  <2>1. DraftSound(w)'
    BY <1>1, <1>3, <1>4, <1>5 DEF DraftSound, Signed
  <2>2. ASSUME NEW v \in Workers \ {w}
        PROVE  DraftSound(v)'
    BY <1>1, <1>6, <2>2 DEF DraftSound, Signed, TreeInv, Log!Linked
  <2>. QED
    BY <2>1, <2>2
<1>8. IdsUnique'
  BY <1>1, <1>5, <1>6 DEF IdsUnique, TreeInv, Inserted
<1>9. HasNewest' /\ LinksBackward' /\ \A r \in log' : Signed(r)'
  BY <1>1 DEF TreeInv, HasNewest, LinksBackward, Signed, Log!Linked
<1>. QED
  BY <1>7, <1>8, <1>9 DEF TreeInv

\* Insert: the id is greater than every id handed out before.
LEMMA TreeInsertRow ==
  ASSUME TypeOK, TreeInv, NEW w \in Workers, InsertRow(w)
  PROVE  TreeInv'
<1> DEFINE row == [draft[w] EXCEPT !.id = nextId]
<1>1. /\ draft' = [draft EXCEPT ![w] = row]
      /\ pc' = [pc EXCEPT ![w] = "inserted"]
      /\ UNCHANGED <<log, boots, overlapped>>
      /\ pc[w] = "signed"
  BY DEF InsertRow
<1>2. draft[w] \in Log!Entry /\ nextId \in Nat
  BY <1>1, BoundsAssumption DEF TypeOK
<1>3. /\ row.id = nextId
      /\ row.prev = draft[w].prev
      /\ row.sig = draft[w].sig
      /\ row.event = draft[w].event
  BY <1>2 DEF Log!Entry
<1> HIDE DEF row
<1>4. draft'[w] = row /\ pc'[w] = "inserted"
  BY <1>1 DEF TypeOK
<1>5. \A v \in Workers \ {w} : draft'[v] = draft[v] /\ pc'[v] = pc[v]
  BY <1>1 DEF TypeOK
<1>6. \A r \in log : r.id \in Nat /\ r.id < nextId
  BY <1>2, BoundsAssumption DEF TypeOK
<1>7. \A v \in Workers : DraftSound(v)'
  <2>1. Signed(row) /\ Log!Linked(row, log)
    BY <1>1, <1>3, <1>6 DEF TreeInv, DraftSound, Signed, Log!Linked
  <2>2. DraftSound(w)'
    BY <1>1, <1>4, <2>1 DEF DraftSound, Signed, Log!Linked
  <2>3. ASSUME NEW v \in Workers \ {w}
        PROVE  DraftSound(v)'
    BY <1>1, <1>5, <2>3 DEF DraftSound, Signed, TreeInv, Log!Linked
  <2>. QED
    BY <2>2, <2>3
<1>8. IdsUnique'
  <2>1. \A v \in Workers \ {w} : pc[v] = "inserted" => draft[v].id < nextId
    BY <1>2, BoundsAssumption DEF TypeOK
  <2>. QED
    BY <1>1, <1>3, <1>4, <1>5, <1>6, <2>1, <1>2 DEF IdsUnique, TreeInv, Inserted, TypeOK
<1>9. HasNewest' /\ LinksBackward' /\ \A r \in log' : Signed(r)'
  BY <1>1 DEF TreeInv, HasNewest, LinksBackward, Signed, Log!Linked
<1>. QED
  BY <1>7, <1>8, <1>9 DEF TreeInv

\* Commit: the draft joins the log with the link and the id it already has.
LEMMA TreeCommitRow ==
  ASSUME TypeOK, TreeInv, NEW w \in Workers, CommitRow(w)
  PROVE  TreeInv'
<1>1. /\ log' = log \cup {draft[w]}
      /\ draft' = [draft EXCEPT ![w] = NoDraft]
      /\ pc' = [pc EXCEPT ![w] = "idle"]
      /\ pc[w] = "inserted"
  BY DEF CommitRow
<1>2. Signed(draft[w]) /\ Log!Linked(draft[w], log)
  BY <1>1 DEF TreeInv, DraftSound
<1>3. pc'[w] = "idle" /\ \A v \in Workers \ {w} : draft'[v] = draft[v] /\ pc'[v] = pc[v]
  BY <1>1 DEF TypeOK
<1>4. draft[w].id \in Nat /\ \A r \in log : r.id \in Nat
  BY <1>1, BoundsAssumption DEF TypeOK
<1>5. \A v \in Workers : DraftSound(v)'
  BY <1>1, <1>3 DEF TreeInv, DraftSound, Signed, Log!Linked
<1>6. IdsUnique'
  BY <1>1, <1>3 DEF IdsUnique, TreeInv, Inserted
<1>7. HasNewest'
  <2>1. CASE log = {}
    BY <1>1, <1>4, <2>1 DEF HasNewest
  <2>2. CASE log # {}
    <3>1. PICK top \in log : \A other \in log : other.id <= top.id
      BY <2>2 DEF TreeInv, HasNewest
    <3>2. CASE draft[w].id <= top.id
      BY <1>1, <3>1, <3>2 DEF HasNewest
    <3>3. CASE ~(draft[w].id <= top.id)
      BY <1>1, <1>4, <3>1, <3>3 DEF HasNewest
    <3>. QED
      BY <3>2, <3>3
  <2>. QED
    BY <2>1, <2>2
<1>8. LinksBackward'
  BY <1>1, <1>2 DEF TreeInv, LinksBackward, Log!Linked
<1>9. \A r \in log' : Signed(r)'
  BY <1>1, <1>2 DEF TreeInv, Signed
<1>. QED
  BY <1>5, <1>6, <1>7, <1>8, <1>9 DEF TreeInv

\* A failure or a restart only drops drafts.
LEMMA TreeDropDrafts ==
  ASSUME TypeOK, TreeInv, UNCHANGED log,
         \A v \in Workers : pc'[v] = "idle" \/ (pc'[v] = pc[v] /\ draft'[v] = draft[v])
  PROVE  TreeInv'
<1>1. \A v \in Workers : DraftSound(v)'
  BY DEF TreeInv, DraftSound, Signed, Log!Linked
<1>2. IdsUnique'
  BY DEF IdsUnique, TreeInv, Inserted
<1>3. HasNewest' /\ LinksBackward' /\ \A r \in log' : Signed(r)'
  BY DEF TreeInv, HasNewest, LinksBackward, Signed, Log!Linked
<1>. QED
  BY <1>1, <1>2, <1>3 DEF TreeInv

\* Whatever step is taken, the log stays a tree.
LEMMA TreeNext == TypeOK /\ TreeInv /\ [Next]_auditVars => TreeInv'
<1> SUFFICES ASSUME TypeOK, TreeInv, [Next]_auditVars
             PROVE  TreeInv'
  OBVIOUS
<1>1. ASSUME NEW w \in Workers, FailRow(w)
      PROVE  TreeInv'
  BY <1>1, TreeDropDrafts DEF FailRow, TypeOK
<1>2. ASSUME NEW p \in Processes, Restart(p)
      PROVE  TreeInv'
  BY <1>2, TreeDropDrafts DEF Restart, TypeOK
<1>3. CASE UNCHANGED auditVars
  BY <1>3, TreeDropDrafts DEF auditVars
<1>. QED
  BY <1>1, <1>2, <1>3, TreeReadLast, TreeInsertRow, TreeCommitRow DEF Next

-----------------------------------------------------------------------------
(* The chain: as long as calls do not overlap, a commit appends.           *)

\* At the start no call overlaps another and the log is empty.
LEMMA SerialInit == Init => SerialInv
BY DEF Init, SerialInv

\* Read: nobody else is busy, and the draft continues the newest row.
LEMMA SerialReadLast ==
  ASSUME TypeOK, SerialInv, NEW w \in Workers, NEW event \in Events, ReadLast(w, event)
  PROVE  SerialInv'
<1> SUFFICES ASSUME ~overlapped' PROVE SerialInv'
  BY DEF SerialInv
<1>1. ~overlapped /\ \A v \in Workers : pc[v] = "idle"
  BY DEF ReadLast
<1>2. /\ pc' = [pc EXCEPT ![w] = "signed"]
      /\ UNCHANGED log
      /\ DOMAIN draft = Workers
  BY DEF ReadLast, TypeOK
<1>3. pc'[w] = "signed" /\ \A v \in Workers \ {w} : pc'[v] = "idle"
  BY <1>1, <1>2 DEF TypeOK
<1>4. draft'[w].prev = LastSignature(log)
  BY <1>2 DEF ReadLast
<1>5. LastSignature(log)' = LastSignature(log)
  BY <1>2 DEF LastSignature, Newest
<1>6. \A row \in log' : row.prev = LastSignature({older \in log' : older.id < row.id})
  BY <1>1, <1>2 DEF SerialInv
<1>. QED
  BY <1>2, <1>3, <1>4, <1>5, <1>6 DEF SerialInv

\* Insert: the new id is above every committed id.
LEMMA SerialInsertRow ==
  ASSUME TypeOK, SerialInv, NEW w \in Workers, InsertRow(w)
  PROVE  SerialInv'
<1> SUFFICES ASSUME ~overlapped' PROVE SerialInv'
  BY DEF SerialInv
<1>1. /\ draft' = [draft EXCEPT ![w] = [draft[w] EXCEPT !.id = nextId]]
      /\ pc' = [pc EXCEPT ![w] = "inserted"]
      /\ UNCHANGED <<log, overlapped>>
      /\ pc[w] = "signed"
  BY DEF InsertRow
<1>2. draft[w] \in Log!Entry /\ nextId \in Nat
  BY <1>1, BoundsAssumption DEF TypeOK
<1>3. draft'[w].id = nextId /\ draft'[w].prev = draft[w].prev
  BY <1>1, <1>2 DEF TypeOK, Log!Entry
<1>4. pc'[w] = "inserted" /\ \A v \in Workers \ {w} : pc'[v] = pc[v] /\ draft'[v] = draft[v]
  BY <1>1 DEF TypeOK
<1>5. \A v \in Workers \ {w} : pc[v] = "idle"
  BY <1>1 DEF SerialInv
<1>6. \A row \in log : row.id < nextId
  BY <1>2, BoundsAssumption DEF TypeOK
<1>7. LastSignature(log)' = LastSignature(log)
  BY <1>1 DEF LastSignature, Newest
<1>8. draft'[w].prev = LastSignature(log)
  BY <1>1, <1>3 DEF SerialInv
<1>9. \A row \in log' : row.prev = LastSignature({older \in log' : older.id < row.id})
  BY <1>1 DEF SerialInv
<1>. QED
  BY <1>1, <1>3, <1>4, <1>5, <1>6, <1>7, <1>8, <1>9 DEF SerialInv

\* Commit: the draft becomes the newest row and names the one before it.
LEMMA SerialCommitRow ==
  ASSUME TypeOK, SerialInv, NEW w \in Workers, CommitRow(w)
  PROVE  SerialInv'
<1> SUFFICES ASSUME ~overlapped' PROVE SerialInv'
  BY DEF SerialInv
<1>1. /\ log' = log \cup {draft[w]}
      /\ pc' = [pc EXCEPT ![w] = "idle"]
      /\ ~overlapped
      /\ pc[w] = "inserted"
  BY DEF CommitRow
<1>2. \A v \in Workers : pc'[v] = "idle"
  BY <1>1 DEF SerialInv, TypeOK
<1>3. \A row \in log : row.id < draft[w].id
  BY <1>1 DEF SerialInv
<1>4. draft[w].id \in Nat /\ \A row \in log : row.id \in Nat
  BY <1>1, BoundsAssumption DEF TypeOK
<1>5. draft[w].prev = LastSignature({older \in log' : older.id < draft[w].id})
  <2>1. {older \in log' : older.id < draft[w].id} = log
    BY <1>1, <1>3, <1>4
  <2>. QED
    BY <1>1, <2>1 DEF SerialInv
<1>6. ASSUME NEW row \in log
      PROVE  row.prev = LastSignature({older \in log' : older.id < row.id})
  <2>1. {older \in log' : older.id < row.id} = {older \in log : older.id < row.id}
    BY <1>1, <1>3, <1>4
  <2>. QED
    BY <1>1, <2>1 DEF SerialInv
<1>7. \A row \in log' : row.prev = LastSignature({older \in log' : older.id < row.id})
  BY <1>1, <1>5, <1>6
<1>. QED
  BY <1>2, <1>7 DEF SerialInv

\* A failure or a restart leaves the log alone.
LEMMA SerialDropDrafts ==
  ASSUME TypeOK, SerialInv, UNCHANGED <<log, overlapped>>,
         \A v \in Workers : pc'[v] = "idle" \/ (pc'[v] = pc[v] /\ draft'[v] = draft[v])
  PROVE  SerialInv'
<1>1. LastSignature(log)' = LastSignature(log)
  BY DEF LastSignature, Newest
<1>. QED
  BY <1>1 DEF SerialInv

\* Whatever step is taken, a log without overlapping calls stays a chain.
LEMMA SerialNext == TypeOK /\ SerialInv /\ [Next]_auditVars => SerialInv'
<1> SUFFICES ASSUME TypeOK, SerialInv, [Next]_auditVars
             PROVE  SerialInv'
  OBVIOUS
<1>1. ASSUME NEW w \in Workers, FailRow(w)
      PROVE  SerialInv'
  BY <1>1, SerialDropDrafts DEF FailRow, TypeOK
<1>2. ASSUME NEW p \in Processes, Restart(p)
      PROVE  SerialInv'
  BY <1>2, SerialDropDrafts DEF Restart, TypeOK
<1>3. CASE UNCHANGED auditVars
  BY <1>3, SerialDropDrafts DEF auditVars
<1>. QED
  BY <1>1, <1>2, <1>3, SerialReadLast, SerialInsertRow, SerialCommitRow DEF Next

\* A signature that ends in a key is the HMAC under that key and no other.
LEMMA SignedUnderItsKey ==
  ASSUME TypeOK, NEW row \in log, Signed(row)
  PROVE  row.sig = Log!compute_audit_signature(row.sig[Len(row.sig)].key, row.prev, row.event)
<1>1. PICK key \in Keys : row.sig = Log!compute_audit_signature(key, row.prev, row.event)
  BY DEF Signed
<1>2. row.prev \in Log!Signature
  BY DEF TypeOK, Log!Entry
<1> DEFINE link == [key |-> key, event |-> row.event]
<1>3. row.sig = Append(row.prev, link)
  BY <1>1 DEF Log!compute_audit_signature
<1>4. link \in [key : Keys, event : Events]
  BY DEF TypeOK, Log!Entry
<1> HIDE DEF link
<1>5. row.sig[Len(row.sig)] = link
  BY <1>2, <1>3, <1>4 DEF Log!Signature
<1>. QED
  BY <1>1, <1>5 DEF link

\* A chain of rows signed with one key is what verify_audit_chain accepts.
LEMMA SerialChainFollows ==
  ASSUME TypeOK, TreeInv, SerialInv
  PROVE  SerialChainValid
<1> SUFFICES ASSUME NEW p \in Processes, ~overlapped,
                    \A row \in log : row.sig[Len(row.sig)].key = SigningKey(p)
             PROVE  verify_audit_chain(log, SigningKey(p))
  BY DEF SerialChainValid
<1>1. ASSUME NEW row \in log
      PROVE  row.sig = Log!compute_audit_signature(SigningKey(p), row.prev, row.event)
  BY SignedUnderItsKey DEF TreeInv
<1>. QED
  BY <1>1 DEF SerialInv, verify_audit_chain

-----------------------------------------------------------------------------
(* Rows in id order, of any log.                                           *)

Distinct(rows) == \A r1, r2 \in rows : r1.id = r2.id => r1 = r2

Before(rows, row) == {older \in rows : older.id < row.id}

\* A set of natural numbers has a least one.
LEMMA LeastNatural ==
  ASSUME NEW numbers \in SUBSET Nat, numbers # {}
  PROVE  \E least \in numbers : \A n \in numbers : least <= n
<1>1. PICK least \in numbers : \A n \in numbers : <<n, least>> \notin OpToRel(<, Nat)
  BY WFMin, NatLessThanWellFounded, Zenon
<1>2. \A n \in numbers : ~(n < least)
  BY <1>1, Zenon DEF OpToRel
<1>. QED
  BY <1>2

\* "order by id" has a first row.
LEMMA LeastRow ==
  ASSUME NEW rows \in SUBSET Log!Entry, rows # {}
  PROVE  \E first \in rows : \A row \in rows : first.id <= row.id
<1> DEFINE ids == {row.id : row \in rows}
<1>1. ids \in SUBSET Nat /\ ids # {}
  BY DEF Log!Entry
<1> HIDE DEF ids
<1>2. PICK least \in ids : \A i \in ids : least <= i
  BY <1>1, LeastNatural
<1>. QED
  BY <1>2 DEF ids

\* "order by id desc" has a first row, if the ids are bounded.
LEMMA GreatestRow ==
  ASSUME NEW rows \in SUBSET Log!Entry, rows # {}, NEW bound \in Nat,
         \A row \in rows : row.id <= bound
  PROVE  \E last \in rows : \A row \in rows : row.id <= last.id
<1> DEFINE gaps == {bound - row.id : row \in rows}
<1>1. \A row \in rows : row.id \in Nat /\ bound - row.id \in Nat
  BY DEF Log!Entry
<1>2. gaps \in SUBSET Nat /\ gaps # {}
  BY <1>1
<1> HIDE DEF gaps
<1>3. PICK least \in gaps : \A i \in gaps : least <= i
  BY <1>2, LeastNatural
<1>4. PICK last \in rows : least = bound - last.id
  BY DEF gaps
<1>5. \A row \in rows : bound - last.id <= bound - row.id
  BY <1>3, <1>4 DEF gaps
<1>. QED
  BY <1>1, <1>5

\* What a row has to name, if it is not the first, is the row before it.
LEMMA LastBefore ==
  ASSUME NEW rows \in SUBSET Log!Entry, NEW row \in Log!Entry, Before(rows, row) # {}
  PROVE  \E last \in rows :
            /\ last.id < row.id
            /\ LastSignature(Before(rows, row)) = last.sig
            /\ \A older \in rows : older.id < row.id => older.id <= last.id
<1> DEFINE olds == Before(rows, row)
<1>1. /\ olds \in SUBSET Log!Entry /\ row.id \in Nat
      /\ \A older \in olds : older.id \in Nat /\ older.id <= row.id
  BY DEF Before, Log!Entry
<1>2. \E last \in olds : \A older \in olds : older.id <= last.id
  BY <1>1, GreatestRow
<1>3. Newest(olds) \in olds /\ \A older \in olds : older.id <= Newest(olds).id
  BY <1>2 DEF Newest
<1>. QED
  BY <1>3 DEF Before, LastSignature

\* Between two rows, or at the second, is the one that follows the first, and
\* the signature it has to name is that of the first.
LEMMA Successor ==
  ASSUME NEW rows \in SUBSET Log!Entry, Distinct(rows),
         NEW row \in rows, NEW later \in rows, row.id < later.id
  PROVE  \E next \in rows :
            /\ row.id < next.id /\ next.id <= later.id
            /\ LastSignature(Before(rows, next)) = row.sig
<1> DEFINE above == {other \in rows : row.id < other.id}
<1>1. above \in SUBSET Log!Entry /\ later \in above /\ \A other \in rows : other.id \in Nat
  BY DEF Log!Entry
<1>2. PICK next \in above : \A other \in above : next.id <= other.id
  BY <1>1, LeastRow
<1>3. next \in rows /\ row.id < next.id /\ next.id <= later.id
  BY <1>1, <1>2
<1>4. row \in Before(rows, next)
  BY <1>3 DEF Before
<1>5. PICK last \in rows :
          /\ last.id < next.id
          /\ LastSignature(Before(rows, next)) = last.sig
          /\ \A older \in rows : older.id < next.id => older.id <= last.id
  BY <1>3, <1>4, LastBefore
<1>6. row.id <= last.id /\ ~(row.id < last.id)
  BY <1>1, <1>2, <1>3, <1>5
<1>7. last = row
  BY <1>1, <1>6 DEF Distinct
<1>. QED
  BY <1>3, <1>5, <1>7

\* A signature is one longer than the one it is computed over.
LEMMA SignatureGrows ==
  ASSUME NEW row \in Log!Entry, NEW key \in Keys,
         row.sig = Log!compute_audit_signature(key, row.prev, row.event)
  PROVE  /\ row.prev \in Log!Signature /\ row.sig \in Log!Signature
         /\ Len(row.prev) \in Nat /\ Len(row.sig) = Len(row.prev) + 1
         /\ row.sig # Log!GENESIS_HASH
<1> DEFINE link == [key |-> key, event |-> row.event]
<1>1. /\ row.prev \in Seq([key : Keys, event : Events])
      /\ row.sig \in Log!Signature /\ link \in [key : Keys, event : Events]
  BY DEF Log!Entry, Log!Signature
<1>2. row.sig = Append(row.prev, link)
  BY DEF Log!compute_audit_signature
<1> HIDE DEF link
<1>. QED
  BY <1>1, <1>2 DEF Log!GENESIS_HASH, Log!Signature

\* In a log that verifies, a later row has a longer history, so no two rows
\* have the same signature.
LEMMA VerifiedGrows ==
  ASSUME NEW rows \in SUBSET Log!Entry, Distinct(rows), NEW key \in Keys,
         verify_audit_chain(rows, key),
         NEW row \in rows, NEW later \in rows, row.id < later.id
  PROVE  Len(row.sig) < Len(later.sig)
<1> DEFINE Short(y) == \E x \in rows : x.id < y.id /\ ~(Len(x.sig) < Len(y.sig))
           bad == {y \in rows : Short(y)}
<1> SUFFICES ASSUME bad # {} PROVE FALSE
  OBVIOUS
<1>1. PICK y \in bad : \A z \in bad : y.id <= z.id
  BY LeastRow
<1>2. PICK x \in rows : x.id < y.id /\ ~(Len(x.sig) < Len(y.sig))
  BY <1>1
<1>3. y \in rows /\ y \in Log!Entry /\ x \in Log!Entry /\ x \in Before(rows, y)
  BY <1>1, <1>2 DEF Before
<1>4. PICK last \in rows :
          /\ last.id < y.id
          /\ LastSignature(Before(rows, y)) = last.sig
          /\ \A older \in rows : older.id < y.id => older.id <= last.id
  BY <1>3, LastBefore
<1>5. /\ y.prev = last.sig
      /\ y.sig = Log!compute_audit_signature(key, y.prev, y.event)
      /\ last.sig = Log!compute_audit_signature(key, last.prev, last.event)
      /\ x.sig = Log!compute_audit_signature(key, x.prev, x.event)
  BY <1>3, <1>4 DEF verify_audit_chain, Before
<1>6. Len(y.sig) = Len(last.sig) + 1 /\ Len(last.sig) \in Nat /\ Len(x.sig) \in Nat
  <2>1. last \in Log!Entry
    OBVIOUS
  <2>. QED
    BY <1>3, <1>5, <2>1, SignatureGrows
<1>7. /\ x.id <= last.id /\ x.id \in Nat /\ last.id \in Nat /\ y.id \in Nat
  BY <1>2, <1>3, <1>4 DEF Log!Entry
<1>8. CASE x.id = last.id
  <2>1. x = last
    BY <1>8 DEF Distinct
  <2>. QED
    BY <1>2, <1>6, <2>1
<1>9. CASE x.id < last.id
  <2>1. last \notin bad
    BY <1>1, <1>4, <1>7
  <2>2. Len(x.sig) < Len(last.sig)
    BY <1>9, <2>1
  <2>. QED
    BY <1>2, <1>6, <2>2
<1>. QED
  BY <1>7, <1>8, <1>9

-----------------------------------------------------------------------------
(* What verify_audit_chain notices.                                        *)

\* The rows of the log are entries with distinct ids.
LEMMA LogRows ==
  ASSUME TypeOK, TreeInv
  PROVE  log \in SUBSET Log!Entry /\ Distinct(log)
BY DEF TypeOK, TreeInv, IdsUnique, Distinct

\* Without forks, each row names the row before it: take the first one that
\* does not, and the row behind the one it names has the same prev_hash.
LEMMA OnlyForksFollows == ASSUME TypeOK, TreeInv PROVE OnlyForksBreak
<1> SUFFICES ASSUME NEW key \in Keys,
                    \A r1, r2 \in log : r1.prev = r2.prev => r1 = r2,
                    \A row \in log : row.sig[Len(row.sig)].key = key
             PROVE  verify_audit_chain(log, key)
  BY DEF OnlyForksBreak
<1>1. \A row \in log : row.sig = Log!compute_audit_signature(key, row.prev, row.event)
  BY SignedUnderItsKey DEF TreeInv
<1> DEFINE bad == {row \in log : row.prev # LastSignature(Before(log, row))}
<1>2. SUFFICES ASSUME bad # {} PROVE FALSE
  BY <1>1 DEF verify_audit_chain, Before
<1>3. PICK r \in bad : \A row \in bad : r.id <= row.id
  <2>1. bad \in SUBSET Log!Entry
    BY LogRows
  <2>. QED
    BY <1>2, <2>1, LeastRow
<1>4. /\ r \in log /\ r.prev # LastSignature(Before(log, r)) /\ Log!Linked(r, log)
      /\ \A row \in log : row.id \in Nat
  BY <1>3, LogRows DEF TreeInv, LinksBackward, Log!Entry
<1>5. CASE r.prev = Log!GENESIS_HASH
  <2>1. PICK first \in log : \A row \in log : first.id <= row.id
    BY <1>4, LeastRow, LogRows
  <2>2. first.prev = Log!GENESIS_HASH
    BY <1>4, <2>1 DEF TreeInv, LinksBackward, Log!Linked
  <2>3. first = r
    BY <1>4, <1>5, <2>2
  <2>4. Before(log, r) = {}
    BY <1>4, <2>1, <2>3 DEF Before
  <2>. QED
    BY <1>4, <1>5, <2>4 DEF LastSignature
<1>6. CASE r.prev # Log!GENESIS_HASH
  <2>1. PICK o \in log : o.id < r.id /\ o.sig = r.prev
    BY <1>4, <1>6 DEF Log!Linked
  <2>2. PICK next \in log :
            /\ o.id < next.id /\ next.id <= r.id
            /\ LastSignature(Before(log, next)) = o.sig
    BY <1>4, <2>1, Successor, LogRows
  <2>3. next # r
    BY <1>4, <2>1, <2>2
  <2>4. next.id < r.id
    BY <1>4, <2>2, <2>3, LogRows DEF Distinct
  <2>5. next \notin bad
    BY <1>3, <1>4, <2>4
  <2>6. next.prev = r.prev
    BY <2>1, <2>2, <2>5
  <2>. QED
    BY <1>4, <2>3, <2>6
<1>. QED
  BY <1>5, <1>6

\* A changed event does not fit the signature; behind a removed row is one
\* that names it, and nothing else has its signature.
LEMMA TamperFollows == ASSUME TypeOK, TreeInv PROVE TamperEvident
<1> SUFFICES ASSUME NEW key \in Keys, verify_audit_chain(log, key), NEW row \in log
             PROVE  /\ \A event \in Events \ {row.event} :
                         ~verify_audit_chain((log \ {row}) \cup {[row EXCEPT !.event = event]}, key)
                    /\ row # Newest(log) => ~verify_audit_chain(log \ {row}, key)
  BY DEF TamperEvident
<1>1. row \in Log!Entry /\ row.sig = Log!compute_audit_signature(key, row.prev, row.event)
  BY LogRows DEF verify_audit_chain
<1>2. ASSUME NEW event \in Events \ {row.event}
      PROVE  ~verify_audit_chain((log \ {row}) \cup {[row EXCEPT !.event = event]}, key)
  <2> DEFINE forged == [row EXCEPT !.event = event]
  <2>1. forged.prev = row.prev /\ forged.sig = row.sig /\ forged.event = event
    BY <1>1 DEF Log!Entry
  <2> HIDE DEF forged
  <2>2. SUFFICES ASSUME verify_audit_chain((log \ {row}) \cup {forged}, key) PROVE FALSE
    BY DEF forged
  <2>3. row.sig = Log!compute_audit_signature(key, row.prev, event)
    BY <2>1, <2>2 DEF verify_audit_chain
  <2>4. row.prev \in Seq([key : Keys, event : Events])
    BY <1>1 DEF Log!Entry, Log!Signature
  <2>5. row.event \in Events
    BY <1>1 DEF Log!Entry
  <2> DEFINE old == [key |-> key, event |-> row.event]
             new == [key |-> key, event |-> event]
  <2>6. old # new /\ old \in [key : Keys, event : Events] /\ new \in [key : Keys, event : Events]
    BY <2>5
  <2>7. Append(row.prev, old) = Append(row.prev, new)
    BY <1>1, <2>3 DEF Log!compute_audit_signature
  <2> HIDE DEF old, new
  <2>8. Append(row.prev, old)[Len(row.prev) + 1] = old /\ Append(row.prev, new)[Len(row.prev) + 1] = new
    BY <2>4, <2>6
  <2>. QED
    BY <2>6, <2>7, <2>8
<1>3. ASSUME row # Newest(log), verify_audit_chain(log \ {row}, key) PROVE FALSE
  <2>1. Newest(log) \in log /\ row.id <= Newest(log).id
    BY NewestIsNewest DEF TreeInv
  <2>2. row.id < Newest(log).id
    BY <1>1, <1>3, <2>1, LogRows DEF Distinct, Log!Entry
  <2>3. PICK next \in log :
            /\ row.id < next.id
            /\ LastSignature(Before(log, next)) = row.sig
    BY <2>1, <2>2, Successor, LogRows
  <2>4. next \in log \ {row} /\ next.prev = row.sig
    BY <1>1, <2>3 DEF verify_audit_chain, Before, Log!Entry
  <2>5. LastSignature(Before(log \ {row}, next)) = row.sig
    BY <1>3, <2>4 DEF verify_audit_chain, Before
  <2>6. row.sig # Log!GENESIS_HASH
    BY <1>1, SignatureGrows
  <2>7. Before(log \ {row}, next) # {}
    BY <2>5, <2>6 DEF LastSignature
  <2>8. PICK other \in log \ {row} : other.sig = row.sig
    <3>1. log \ {row} \in SUBSET Log!Entry /\ next \in Log!Entry
      BY LogRows
    <3>. QED
      BY <2>5, <2>7, <3>1, LastBefore
  <2>9. other.id # row.id /\ other.id \in Nat /\ row.id \in Nat
    BY <2>8, LogRows DEF Distinct, Log!Entry
  <2>10. Len(row.sig) \in Nat
    BY <1>1, SignatureGrows
  <2>11. CASE other.id < row.id
    BY <2>8, <2>10, <2>11, VerifiedGrows, LogRows
  <2>12. CASE row.id < other.id
    BY <2>8, <2>10, <2>12, VerifiedGrows, LogRows
  <2>. QED
    BY <2>9, <2>11, <2>12
<1>. QED
  BY <1>2, <1>3

\* A log of which more rows verify, verifies: a new row that does not change
\* what an older one has to name is harmless, and one that does has the
\* signature of a row that was there.
LEMMA SmallerVerifies ==
  ASSUME TypeOK, TreeInv, NEW key \in Keys, NEW new \in Log!Entry, new \notin log,
         Distinct(log \cup {new}), verify_audit_chain(log \cup {new}, key)
  PROVE  verify_audit_chain(log, key)
<1> DEFINE more == log \cup {new}
<1>1. more \in SUBSET Log!Entry /\ \A row \in more : row.id \in Nat
  BY LogRows DEF Log!Entry
<1> SUFFICES ASSUME NEW row \in log, row.prev # LastSignature(Before(log, row))
             PROVE  FALSE
  BY DEF verify_audit_chain, Before
<1>2. row.prev = LastSignature(Before(more, row))
  BY DEF verify_audit_chain, Before
<1>3. new.id < row.id
  <2>1. Before(more, row) # Before(log, row)
    BY <1>2
  <2>. QED
    BY <1>1, <2>1 DEF Before
<1>4. PICK last \in more :
          /\ last.id < row.id
          /\ LastSignature(Before(more, row)) = last.sig
          /\ \A older \in more : older.id < row.id => older.id <= last.id
  <2>1. new \in Before(more, row)
    BY <1>3 DEF Before
  <2>. QED
    BY <1>1, <2>1, LastBefore
<1>5. last.sig = Log!compute_audit_signature(key, last.prev, last.event)
  BY DEF verify_audit_chain
<1>6. last.sig # Log!GENESIS_HASH /\ Len(last.sig) \in Nat
  BY <1>1, <1>5, SignatureGrows
<1>7. PICK o \in log : o.sig = last.sig
  BY <1>2, <1>4, <1>6 DEF TreeInv, LinksBackward, Log!Linked
<1>8. last = o
  <2>1. CASE last.id < o.id
    BY <1>1, <1>6, <1>7, <2>1, VerifiedGrows
  <2>2. CASE o.id < last.id
    BY <1>1, <1>6, <1>7, <2>2, VerifiedGrows
  <2>3. CASE o.id = last.id
    BY <2>3 DEF Distinct
  <2>. QED
    BY <1>1, <2>1, <2>2, <2>3
<1>9. last \in Before(log, row)
  BY <1>4, <1>7, <1>8 DEF Before
<1>10. PICK top \in log :
          /\ top.id < row.id
          /\ LastSignature(Before(log, row)) = top.sig
          /\ \A older \in log : older.id < row.id => older.id <= top.id
  BY <1>1, <1>9, LastBefore, LogRows
<1>11. top.id = last.id
  BY <1>1, <1>4, <1>9, <1>10 DEF Before
<1>12. top = last
  BY <1>8, <1>11 DEF Distinct
<1>. QED
  BY <1>2, <1>4, <1>10, <1>12

-----------------------------------------------------------------------------
(* The theorems.                                                           *)

Inv == TypeOK /\ TreeInv /\ SerialInv

\* The inductive invariant holds of every reachable state.
LEMMA Invariance == Spec => []Inv
<1>1. Init => Inv
  BY TypeInit, TreeInit, SerialInit DEF Inv
<1>2. Inv /\ [Next]_auditVars => Inv'
  BY TypeNext, TreeNext, SerialNext DEF Inv, TreeInv
<1>. QED
  BY <1>1, <1>2, PTL DEF Spec

\* The state of record_audit_event and of the log keeps its shape.
THEOREM TypeCorrect == Spec => []TypeOK
<1>1. Inv => TypeOK
  BY DEF Inv
<1>. QED
  BY <1>1, Invariance, PTL

\* No two rows, committed or about to be, share an id.
THEOREM IdsAreUnique == Spec => []IdsUnique
<1>1. Inv => IdsUnique
  BY DEF Inv, TreeInv
<1>. QED
  BY <1>1, Invariance, PTL

\* Every committed row chains onto the genesis hash or an older committed row.
THEOREM RowsLinkBackward == Spec => []LinksBackward
<1>1. Inv => LinksBackward
  BY DEF Inv, TreeInv
<1>. QED
  BY <1>1, Invariance, PTL

\* Without overlapping calls, the audit trail verifies under its key.
THEOREM SerialCallsVerify == Spec => []SerialChainValid
<1>1. Inv => SerialChainValid
  BY SerialChainFollows DEF Inv
<1>. QED
  BY <1>1, Invariance, PTL

\* With the right key, a fork is the only way the code can break the chain.
THEOREM OnlyForksBreakChain == Spec => []OnlyForksBreak
<1>1. Inv => OnlyForksBreak
  BY OnlyForksFollows DEF Inv
<1>. QED
  BY <1>1, Invariance, PTL

\* A log that verify_audit_chain accepts gives away every changed row and
\* every removed one but the newest.
THEOREM TamperingShows == Spec => []TamperEvident
<1>1. Inv => TamperEvident
  BY TamperFollows DEF Inv
<1>. QED
  BY <1>1, Invariance, PTL

\* Later rows never mend a chain that verify_audit_chain has rejected.
THEOREM BrokenForGood == Spec => BrokenStaysBroken
<1>1. ASSUME Inv, [Next]_auditVars, NEW key \in Keys, ~verify_audit_chain(log, key)
      PROVE  ~verify_audit_chain(log', key)
  <2>1. ASSUME NEW w \in Workers, CommitRow(w)
        PROVE  ~verify_audit_chain(log', key)
    <3>1. log' = log \cup {draft[w]} /\ pc[w] = "inserted"
      BY <2>1 DEF CommitRow
    <3>2. draft[w] \in Log!Entry
      BY <1>1, <3>1 DEF Inv, TypeOK
    <3>3. draft[w] \notin log /\ Distinct(log \cup {draft[w]})
      BY <1>1, <3>1 DEF Inv, TreeInv, IdsUnique, Inserted, Distinct
    <3>. QED
      BY <1>1, <3>1, <3>2, <3>3, SmallerVerifies DEF Inv
  <2>2. CASE UNCHANGED log
    BY <1>1, <2>2
  <2>. QED
    BY <1>1, <2>1, <2>2 DEF Next, auditVars, ReadLast, InsertRow, FailRow, Restart
<1>2. Inv /\ [Next]_auditVars =>
        [\A key \in Keys : ~verify_audit_chain(log, key) => ~verify_audit_chain(log', key)]_auditVars
  BY <1>1
<1>. QED
  BY <1>2, Invariance, PTL DEF Spec, BrokenStaysBroken

\* record_audit_event implements the append-only hash tree: a commit adds one
\* linked row under a fresh id, and every other step leaves the log alone.
THEOREM ChainImplementsLog == Spec => ImplementsAuditLog
<1>1. Init => Log!Init
  BY DEF Init, Log!Init
<1>2. Inv /\ [Next]_auditVars => [Log!Next]_log
  <2> SUFFICES ASSUME Inv, [Next]_auditVars
               PROVE  [Log!Next]_log
    OBVIOUS
  <2>1. ASSUME NEW w \in Workers, CommitRow(w)
        PROVE  Log!Next
    <3>1. log' = log \cup {draft[w]} /\ pc[w] = "inserted"
      BY <2>1 DEF CommitRow
    <3>2. draft[w] \in Log!Entry
      BY <3>1 DEF Inv, TypeOK
    <3>3. \A old \in log : old.id # draft[w].id
      BY <3>1 DEF Inv, TreeInv, IdsUnique, Inserted
    <3>4. Log!Linked(draft[w], log) /\ Signed(draft[w])
      BY <3>1 DEF Inv, TreeInv, DraftSound
    <3>5. draft[w] \in log' \ log
      BY <3>1, <3>3
    <3>. QED
      BY <3>1, <3>2, <3>3, <3>4, <3>5 DEF Log!Next, Log!Extend, Signed
  <2>2. CASE UNCHANGED log
    BY <2>2
  <2>. QED
    BY <2>1, <2>2 DEF Next, auditVars, ReadLast, InsertRow, FailRow, Restart
<1>. QED
  BY <1>1, <1>2, Invariance, PTL DEF Spec, ImplementsAuditLog, Log!Spec
=============================================================================
