-------------------------- MODULE TwinStateProofs --------------------------
(***************************************************************************)
(* Proofs about TwinState, for every set of assets, ingests, reloads and   *)
(* payloads, and any number of restarts.                                   *)
(*                                                                         *)
(* What memory, history and rows promise is kept by a commit only because  *)
(* of what the ingest found when it changed the entry and because the row  *)
(* has not changed since: Updating says that of an ingest between the two. *)
(* Fresh says it of the rows a reload has read, Kept says which ingests    *)
(* have stored their telemetry.  With the same invariant every step is a   *)
(* step of TwinStore or changes nothing that TwinStore sees.               *)
(***************************************************************************)
EXTENDS TwinState, TLAPS

\* An ingest whose entry is in memory and whose commit is to come: what it
\* will write is its payload merged into what it found, which is the row.
Updating(r) ==
    pc[r] = "applied" =>
        /\ asset[r] \notin astray => memory[asset[r]] = change[r].new
        /\ \E before \in Row :
              /\ change[r] = [from |-> before.state, new |-> Merge(before, sent[r])]
              /\ asset[r] \notin forged => before = Store!Current(asset[r])

\* A reload knows the rows but for those it knows to have missed.
Fresh(s) ==
    reload[s] = "selected" => \A a \in Assets \ missed[s] : selected[s][a] = row[a]

\* Telemetry is stored from the commit on, and only for valid payloads.
Kept(r) ==
    /\ r \in telemetry => pc[r] \in {"committed", "answered", "failed"}
    /\ pc[r] \in {"committed", "answered"} => r \in telemetry
    /\ pc[r] \in InFlight => sent[r].valid

IInv ==
    /\ TypeOK
    /\ \A r \in Requests : Updating(r) /\ Kept(r)
    /\ \A s \in Reloads : Fresh(s)
    /\ MemoryIsRow
    /\ TransitionsChain
    /\ StoredIsMerged

-----------------------------------------------------------------------------
(* The start.                                                              *)

\* Memory is loaded or known to be astray, and nothing is stored yet.
LEMMA InitSound == Init => IInv
<1> SUFFICES ASSUME Init PROVE IInv
  OBVIOUS
<1>1. TypeOK
  BY SeededAssumption, RestartsAssumption, NoneAssumption
  DEF Init, TypeOK, NoRows, NoChange, Stages, ReloadStages, Row, Step
<1>2. \A r \in Requests : Updating(r) /\ Kept(r)
  BY DEF Init, Updating, Kept, InFlight
<1>3. \A s \in Reloads : Fresh(s)
  BY DEF Init, Fresh
<1>4. MemoryIsRow
  BY DEF Init, MemoryIsRow
<1>5. TransitionsChain
  BY DEF Init, TransitionsChain
<1>6. StoredIsMerged
  BY DEF Init, StoredIsMerged
<1>. QED
  BY <1>1, <1>2, <1>3, <1>4, <1>5, <1>6 DEF IInv

-----------------------------------------------------------------------------
(* Ingests.                                                                *)

\* An update under way is none of the business of a step that leaves its
\* request and its row alone and loses at most the entry.
LEMMA UpdatingStays ==
  ASSUME NEW q \in Requests, Updating(q),
         pc'[q] = "applied" =>
            /\ pc[q] = "applied" /\ asset'[q] = asset[q] /\ sent'[q] = sent[q]
            /\ change'[q] = change[q] /\ row'[asset[q]] = row[asset[q]]
            /\ asset[q] \notin astray' =>
                  asset[q] \notin astray /\ memory'[asset[q]] = memory[asset[q]],
         forged \subseteq forged'
  PROVE  Updating(q)'
<1> SUFFICES ASSUME pc'[q] = "applied"
             PROVE  /\ asset'[q] \notin astray' => memory'[asset'[q]] = change'[q].new
                    /\ \E before \in Row :
                          /\ change'[q] = [from |-> before.state, new |-> Merge(before, sent'[q])]
                          /\ asset'[q] \notin forged' => before = Store!Current(asset[q])'
  BY DEF Updating
<1>1. asset'[q] \notin astray' => memory'[asset'[q]] = change'[q].new
  BY DEF Updating
<1>2. PICK before \in Row :
        /\ change[q] = [from |-> before.state, new |-> Merge(before, sent[q])]
        /\ asset[q] \notin forged => before = Store!Current(asset[q])
  BY DEF Updating
<1>3. Store!Current(asset[q])' = Store!Current(asset[q])
  BY DEF Store!Current, Store!Unseen
<1>4. /\ change'[q] = [from |-> before.state, new |-> Merge(before, sent'[q])]
      /\ asset'[q] \notin forged' => before = Store!Current(asset[q])'
  BY <1>2, <1>3
<1>. QED
  BY <1>1, <1>4

\* What a commit writes keeps what the payload and the row had, and its
\* transition starts where the row is.
LEMMA UpdatingMeans ==
  ASSUME IInv, NEW r \in Requests, pc[r] = "applied"
  PROVE  /\ sent[r].metrics \subseteq change[r].new.metrics
         /\ asset[r] \notin astray => memory[asset[r]] = change[r].new
         /\ asset[r] \notin forged =>
               /\ change[r].from = StateOf(row[asset[r]])
               /\ row[asset[r]] # None => row[asset[r]].metrics \subseteq change[r].new.metrics
<1>1. Updating(r)
  BY DEF IInv
<1>2. PICK before \in Row :
        /\ change[r] = [from |-> before.state, new |-> Merge(before, sent[r])]
        /\ asset[r] \notin forged => before = Store!Current(asset[r])
  BY <1>1 DEF Updating
<1>3. /\ change[r].from = before.state
      /\ change[r].new.metrics = before.metrics \cup sent[r].metrics
  BY <1>2 DEF Merge
<1>4. /\ Store!Current(asset[r]).state = StateOf(row[asset[r]])
      /\ row[asset[r]] # None => Store!Current(asset[r]) = row[asset[r]]
  BY DEF Store!Current, Store!Unseen, StateOf
<1>. QED
  BY <1>1, <1>2, <1>3, <1>4 DEF Updating

\* A step that moves one ingest between stages outside of its update, and
\* changes no row, entry or history.
LEMMA MoveKeeps ==
  ASSUME IInv, NEW r \in Requests, NEW s \in Stages \ {"new", "locked", "applied"},
         pc[r] \notin {"locked", "applied"}, pc' = [pc EXCEPT ![r] = s],
         s \in {"committed", "answered"} => r \in telemetry,
         r \in telemetry => s \in {"committed", "answered", "failed"} /\ asset' = asset /\ sent' = sent,
         asset' = asset \/ \E a \in Assets : asset' = [asset EXCEPT ![r] = a],
         sent' = sent \/ \E p \in Payloads : sent' = [sent EXCEPT ![r] = p],
         s # "rejected" => asset'[r] \in Assets /\ sent'[r] \in Payloads,
         s \in InFlight => sent'[r].valid,
         UNCHANGED <<dbVars, lock, memory, graph, change, reloadVars, restarts, astray, forged>>
  PROVE  IInv'
<1>1. /\ UNCHANGED <<row, transitions, telemetry, lock, memory, graph, change, reload, selected,
                     missed, restarts, astray, forged>>
      /\ pc \in [Requests -> Stages] /\ pc'[r] = s
      /\ \A q \in Requests \ {r} : pc'[q] = pc[q] /\ asset'[q] = asset[q] /\ sent'[q] = sent[q]
  BY DEF IInv, TypeOK, dbVars, reloadVars
<1>2. TypeOK'
  <2>1. pc' \in [Requests -> Stages]
    BY <1>1
  <2>2. asset' \in [Requests -> Assets \cup {None}]
    <3>1. asset \in [Requests -> Assets \cup {None}]
      BY DEF IInv, TypeOK
    <3>. QED
      BY <3>1
  <2>3. sent' \in [Requests -> Payloads \cup {None}]
    <3>1. sent \in [Requests -> Payloads \cup {None}]
      BY DEF IInv, TypeOK
    <3>. QED
      BY <3>1
  <2>4. \A q \in Requests :
          pc'[q] \notin {"new", "rejected"} => asset'[q] \in Assets /\ sent'[q] \in Payloads
    BY <1>1 DEF IInv, TypeOK
  <2>5. \A q \in Requests, a \in Assets :
          lock'[a] = q <=> asset'[q] = a /\ pc'[q] \in {"locked", "applied"}
    BY <1>1 DEF IInv, TypeOK
  <2>6. \A q \in Requests :
          IF pc'[q] = "applied" THEN change'[q] \in [from : States, new : Row]
                                ELSE change'[q] = None
    BY <1>1 DEF IInv, TypeOK
  <2>. QED
    BY <1>1, <2>1, <2>2, <2>3, <2>4, <2>5, <2>6 DEF IInv, TypeOK
<1>3. \A q \in Requests : Updating(q)' /\ Kept(q)'
  <2>1. \A q \in Requests : Updating(q)'
    BY <1>1, UpdatingStays DEF IInv
  <2>. QED
    BY <1>1, <2>1 DEF IInv, Kept
<1>4. \A q \in Reloads : Fresh(q)'
  BY <1>1 DEF IInv, Fresh
<1>5. MemoryIsRow'
  <2>1. \A a \in Assets : Writing(a) => Writing(a)'
    BY <1>1 DEF Writing
  <2>. QED
    BY <1>1, <2>1 DEF IInv, MemoryIsRow
<1>6. TransitionsChain'
  BY <1>1 DEF IInv, TransitionsChain
<1>7. StoredIsMerged'
  <2>1. \A q \in telemetry : q \in Requests /\ asset'[q] = asset[q] /\ sent'[q] = sent[q]
    BY <1>1 DEF IInv, TypeOK
  <2>. QED
    BY <1>1, <2>1 DEF IInv, StoredIsMerged
<1>. QED
  BY <1>2, <1>3, <1>4, <1>5, <1>6, <1>7 DEF IInv

\* A payload is refused before anything is touched.
LEMMA RejectKeeps ==
  ASSUME IInv, NEW r \in Requests, NEW a \in Assets, NEW p \in Payloads, Reject(r, a, p)
  PROVE  IInv'
<1>1. "rejected" \in Stages \ {"new", "locked", "applied"}
  BY DEF Stages, Ended
<1>2. r \notin telemetry /\ "rejected" \notin InFlight
  BY DEF Reject, IInv, Kept, InFlight
<1>. QED
  BY <1>1, <1>2, MoveKeeps DEF Reject

\* An accepted request names its asset and its payload.
LEMMA AcceptKeeps ==
  ASSUME IInv, NEW r \in Requests, NEW a \in Assets, NEW p \in Payloads, Accept(r, a, p)
  PROVE  IInv'
<1>1. "accepted" \in Stages \ {"new", "locked", "applied"}
  BY DEF Stages, InFlight
<1>2. r \notin telemetry
  BY DEF Accept, IInv, Kept
<1>3. asset'[r] = a /\ sent'[r] = p /\ p.valid
  BY DEF Accept, IInv, TypeOK
<1>. QED
  BY <1>1, <1>2, <1>3, MoveKeeps DEF Accept

\* An answer changes nothing that is stored.
LEMMA FinishKeeps == ASSUME IInv, NEW r \in Requests, Finish(r) PROVE IInv'
<1>1. "answered" \in Stages \ {"new", "locked", "applied"}
  BY DEF Stages, Ended
<1>2. /\ r \in telemetry /\ asset[r] \in Assets /\ sent[r] \in Payloads
      /\ "answered" \notin InFlight
  BY DEF Finish, IInv, Kept, TypeOK, InFlight
<1>. QED
  BY <1>1, <1>2, MoveKeeps DEF Finish

\* The first upsert takes the row of the asset, which nobody holds.
LEMMA LockRowKeeps == ASSUME IInv, NEW r \in Requests, LockRow(r) PROVE IInv'
<1>1. /\ pc[r] = "accepted" /\ lock[asset[r]] = None
      /\ lock' = [lock EXCEPT ![asset[r]] = r] /\ pc' = [pc EXCEPT ![r] = "locked"]
      /\ UNCHANGED <<row, transitions, telemetry, memory, graph, asset, sent, change, reload,
                     selected, missed, restarts, astray, forged>>
  BY DEF LockRow, dbVars, reloadVars
<1>2. asset[r] \in Assets /\ sent[r] \in Payloads
  BY <1>1 DEF IInv, TypeOK
<1>3. pc'[r] = "locked" /\ \A q \in Requests \ {r} : pc'[q] = pc[q]
  BY <1>1 DEF IInv, TypeOK
<1>4. TypeOK'
  <2>1. pc' \in [Requests -> Stages] /\ lock' \in [Assets -> Requests \cup {None}]
    BY <1>1 DEF IInv, TypeOK, Stages, InFlight
  <2>2. \A q \in Requests, a \in Assets :
          lock'[a] = q <=> asset'[q] = a /\ pc'[q] \in {"locked", "applied"}
    <3>1. \A a \in Assets : lock'[a] = IF a = asset[r] THEN r ELSE lock[a]
      BY <1>1 DEF IInv, TypeOK
    <3>2. \A q \in Requests : q # None
      BY NoneAssumption
    <3>. QED
      BY <1>1, <1>2, <1>3, <3>1, <3>2 DEF IInv, TypeOK
  <2>. QED
    BY <1>1, <1>2, <1>3, <2>1, <2>2 DEF IInv, TypeOK
<1>5. \A q \in Requests : Updating(q)' /\ Kept(q)'
  <2>1. \A q \in Requests : Updating(q)'
    BY <1>1, <1>3, UpdatingStays DEF IInv
  <2>. QED
    BY <1>1, <1>3, <2>1 DEF IInv, Kept, InFlight
<1>6. \A q \in Reloads : Fresh(q)'
  BY <1>1 DEF IInv, Fresh
<1>7. MemoryIsRow'
  <2>1. \A a \in Assets : Writing(a) => Writing(a)'
    BY <1>1, <1>3 DEF Writing
  <2>. QED
    BY <1>1, <2>1 DEF IInv, MemoryIsRow
<1>8. TransitionsChain'
  BY <1>1 DEF IInv, TransitionsChain
<1>9. StoredIsMerged'
  BY <1>1 DEF IInv, StoredIsMerged
<1>. QED
  BY <1>4, <1>5, <1>6, <1>7, <1>8, <1>9 DEF IInv

\* The entry in memory is replaced, and with it the row is promised.
LEMMA ApplyKeeps == ASSUME IInv, NEW r \in Requests, Apply(r) PROVE IInv'
<1> DEFINE a == asset[r]
           new == Merge(Previous(a), sent[r])
<1>1. /\ pc[r] = "locked" /\ memory' = [memory EXCEPT ![a] = new]
      /\ change' = [change EXCEPT ![r] = [from |-> Previous(a).state, new |-> new]]
      /\ forged' = forged \cup ({a} \cap astray)
      /\ pc' = [pc EXCEPT ![r] = "applied"]
      /\ UNCHANGED <<row, transitions, telemetry, lock, graph, asset, sent, reload, selected,
                     missed, restarts, astray>>
  BY DEF Apply, dbVars, reloadVars
<1>2. a \in Assets /\ sent[r] \in Payloads /\ lock[a] = r
  BY <1>1 DEF IInv, TypeOK
<1>3. Previous(a) \in Row /\ Previous(a).state = StateOf(memory[a])
      /\ (memory[a] # None => Previous(a) = memory[a])
  BY <1>2, StatesAssumption DEF IInv, TypeOK, Previous, Row, StateOf
<1>4. /\ new \in Row /\ sent[r].metrics \subseteq new.metrics
      /\ Previous(a).metrics \subseteq new.metrics
  BY <1>2, <1>3, PayloadsAssumption DEF Merge, Row
<1>5. \A q \in Requests : q # r /\ pc[q] = "applied" => asset[q] # a
  BY <1>2 DEF IInv, TypeOK
<1>6. a \notin astray => memory[a] = row[a]
  <2>1. ~Writing(a)
    BY <1>1, <1>5 DEF Writing
  <2>. QED
    BY <1>2, <2>1 DEF IInv, MemoryIsRow
<1> HIDE DEF a, new
<1>7. /\ pc'[r] = "applied" /\ memory'[a] = new
      /\ change'[r] = [from |-> Previous(a).state, new |-> new]
      /\ \A q \in Requests \ {r} : pc'[q] = pc[q] /\ change'[q] = change[q]
      /\ \A b \in Assets \ {a} : memory'[b] = memory[b]
  BY <1>1, <1>2 DEF IInv, TypeOK
<1>8. TypeOK'
  <2>1. pc' \in [Requests -> Stages] /\ memory' \in [Assets -> Row \cup {None}]
    BY <1>1, <1>4 DEF IInv, TypeOK, Stages, InFlight
  <2>2. change'[r] \in [from : States, new : Row]
    BY <1>3, <1>4, <1>7 DEF Row
  <2>3. \A q \in Requests :
          IF pc'[q] = "applied" THEN change'[q] \in [from : States, new : Row]
                                ELSE change'[q] = None
    <3>1. \A q \in Requests :
            IF pc[q] = "applied" THEN change[q] \in [from : States, new : Row]
                                 ELSE change[q] = None
      BY DEF IInv, TypeOK
    <3>. QED
      BY <1>7, <2>2, <3>1
  <2>4. \A q \in Requests, b \in Assets :
          lock'[b] = q <=> asset'[q] = b /\ pc'[q] \in {"locked", "applied"}
    BY <1>1, <1>7 DEF IInv, TypeOK
  <2>5. \A q \in Requests :
          pc'[q] \notin {"new", "rejected"} => asset'[q] \in Assets /\ sent'[q] \in Payloads
    BY <1>1, <1>7 DEF IInv, TypeOK
  <2>6. forged' \subseteq Assets
    BY <1>1, <1>2 DEF IInv, TypeOK
  <2>. QED
    BY <1>1, <2>1, <2>3, <2>4, <2>5, <2>6 DEF IInv, TypeOK
<1>9. Updating(r)'
  <2>1. change'[r] = [from |-> Previous(a).state, new |-> Merge(Previous(a), sent'[r])]
    BY <1>1, <1>7 DEF new
  <2>2. ASSUME a \notin forged' PROVE Previous(a) = Store!Current(a)'
    <3>1. memory[a] = row'[a] /\ a' = a
      BY <1>1, <1>2, <1>6, <2>2 DEF a
    <3>. QED
      BY <3>1 DEF Previous, Store!Current, Store!Unseen
  <2>3. asset'[r] = a
    BY <1>1 DEF a
  <2>4. memory'[a] = change'[r].new
    BY <1>7
  <2>. QED
    BY <1>3, <2>1, <2>2, <2>3, <2>4 DEF Updating, a
<1>10. ASSUME NEW q \in Requests \ {r} PROVE Updating(q)'
  <2>1. pc[q] = "applied" => asset[q] \in Assets \ {a}
    BY <1>5 DEF IInv, TypeOK
  <2>2. Updating(q) /\ forged \subseteq forged'
    BY <1>1 DEF IInv
  <2>. QED
    BY <1>1, <1>7, <2>1, <2>2, UpdatingStays
<1>11. \A q \in Requests : Kept(q)'
  BY <1>1, <1>7 DEF IInv, Kept, InFlight
<1>12. \A s \in Reloads : Fresh(s)'
  BY <1>1 DEF IInv, Fresh
<1>13. MemoryIsRow'
  <2>1. \A b \in Assets : b = a => Writing(b)'
    BY <1>1, <1>7 DEF Writing, a
  <2>2. \A b \in Assets : Writing(b) => Writing(b)'
    BY <1>1, <1>7 DEF Writing
  <2>. QED
    <3>1. ASSUME NEW b \in Assets, b \notin astray, ~Writing(b)' PROVE memory'[b] = row[b]
      <4>1. b # a /\ ~Writing(b)
        BY <2>1, <2>2, <3>1
      <4>. QED
        BY <1>7, <3>1, <4>1 DEF IInv, MemoryIsRow
    <3>. QED
      BY <1>1, <3>1 DEF MemoryIsRow
<1>14. TransitionsChain'
  BY <1>1 DEF IInv, TransitionsChain
<1>15. StoredIsMerged'
  BY <1>1 DEF IInv, StoredIsMerged
<1>. QED
  BY <1>8, <1>9, <1>10, <1>11, <1>12, <1>13, <1>14, <1>15 DEF IInv

\* The transitions of a, from start to the state of its row.
Chain(a, steps, r) ==
    LET start == StateOf(Seeded[a])
    IN /\ \A i \in DOMAIN steps :
            /\ steps[i].from = IF i = 1 THEN start ELSE steps[i - 1].to
            /\ steps[i].from # steps[i].to
       /\ StateOf(r) = IF steps = <<>> THEN start ELSE Last(steps).to

\* A chain that ends where a step starts is a chain with that step.
LEMMA ChainAppend ==
  ASSUME NEW a, NEW steps \in Seq(Step), NEW old, NEW new, NEW step \in Step,
         Chain(a, steps, old), step.from = StateOf(old), step.to = StateOf(new),
         step.from # step.to
  PROVE  Chain(a, Append(steps, step), new)
<1> DEFINE longer == Append(steps, step)
           n == Len(steps)
<1>1. /\ n \in Nat /\ Len(longer) = n + 1 /\ DOMAIN longer = 1 .. n + 1 /\ DOMAIN steps = 1 .. n
      /\ longer[n + 1] = step /\ longer # <<>> /\ Last(longer) = step
      /\ \A i \in 1 .. n : longer[i] = steps[i]
  BY DEF Last
<1>2. step.from = IF n = 0 THEN StateOf(Seeded[a]) ELSE steps[n].to
  <2>1. CASE n = 0
    BY <2>1 DEF Chain
  <2>2. CASE n # 0
    BY <2>2 DEF Chain, Last
  <2>. QED
    BY <2>1, <2>2
<1> HIDE DEF longer, n
<1>3. ASSUME NEW i \in 1 .. n + 1
      PROVE  /\ longer[i].from = IF i = 1 THEN StateOf(Seeded[a]) ELSE longer[i - 1].to
             /\ longer[i].from # longer[i].to
  <2>1. CASE i = n + 1
    <3>1. n # 0 => longer[n] = steps[n]
      BY <1>1
    <3>. QED
      BY <1>1, <1>2, <2>1, <3>1
  <2>2. CASE i # n + 1
    <3>1. i \in 1 .. n /\ (i # 1 => i - 1 \in 1 .. n)
      BY <1>1, <2>2
    <3>2. longer[i] = steps[i] /\ (i # 1 => longer[i - 1] = steps[i - 1])
      BY <1>1, <3>1
    <3>. QED
      BY <1>1, <3>1, <3>2 DEF Chain
  <2>. QED
    BY <2>1, <2>2
<1>. QED
  BY <1>1, <1>3 DEF Chain, longer

\* Row, transition and telemetry are committed, and the entry becomes the row.
LEMMA CommitKeeps == ASSUME IInv, NEW r \in Requests, Commit(r) PROVE IInv'
<1> DEFINE a == asset[r]
           new == change[r].new
           step == [from |-> change[r].from, to |-> new.state]
<1>1. /\ pc[r] = "applied" /\ row' = [row EXCEPT ![a] = new]
      /\ transitions' = IF step.from = step.to THEN transitions
                        ELSE [transitions EXCEPT ![a] = Append(@, step)]
      /\ missed' = [s \in Reloads |->
            IF reload[s] = "selected" THEN missed[s] \cup {a} ELSE missed[s]]
      /\ telemetry' = telemetry \cup {r}
      /\ lock' = Unlocked({r})
      /\ pc' = [pc EXCEPT ![r] = "committed"]
      /\ change' = [change EXCEPT ![r] = None]
      /\ UNCHANGED <<memory, graph, asset, sent, reload, selected, restarts, astray, forged>>
  BY DEF Commit
<1>2. a \in Assets /\ sent[r] \in Payloads /\ lock[a] = r
  BY <1>1 DEF IInv, TypeOK
<1>3. change[r] \in [from : States, new : Row] /\ new \in Row /\ step \in Step /\ new # None
  BY <1>1, NoneAssumption DEF IInv, TypeOK, Step, Row
<1>4. step.from = change[r].from /\ step.to = StateOf(new)
  BY <1>3 DEF StateOf
<1>5. /\ sent[r].metrics \subseteq new.metrics
      /\ a \notin astray => memory[a] = new
      /\ a \notin forged =>
            /\ change[r].from = StateOf(row[a])
            /\ row[a] # None => row[a].metrics \subseteq new.metrics
  BY <1>1, UpdatingMeans
<1>6. \A q \in Requests : q # r /\ pc[q] = "applied" => asset[q] # a
  BY <1>2 DEF IInv, TypeOK
<1> HIDE DEF new, step, a
<1>7. /\ pc'[r] = "committed" /\ row'[a] = new /\ change'[r] = None
      /\ \A q \in Requests \ {r} : pc'[q] = pc[q] /\ change'[q] = change[q]
      /\ \A b \in Assets \ {a} : row'[b] = row[b] /\ transitions'[b] = transitions[b]
  BY <1>1, <1>2 DEF IInv, TypeOK
<1>8. \A b \in Assets : lock'[b] = IF lock[b] = r THEN None ELSE lock[b]
  BY <1>1 DEF Unlocked
<1>9. TypeOK'
  <2>1. pc' \in [Requests -> Stages] /\ row' \in [Assets -> Row \cup {None}]
    BY <1>1, <1>3 DEF IInv, TypeOK, Stages, InFlight
  <2>2. transitions' \in [Assets -> Seq(Step)]
    BY <1>1, <1>2, <1>3 DEF IInv, TypeOK
  <2>3. lock' \in [Assets -> Requests \cup {None}]
    BY <1>1 DEF IInv, TypeOK, Unlocked
  <2>4. \A q \in Requests, b \in Assets :
          lock'[b] = q <=> asset'[q] = b /\ pc'[q] \in {"locked", "applied"}
    <3>1. \A q \in Requests : q # None
      BY NoneAssumption
    <3>2. \A q \in Requests, b \in Assets :
            lock[b] = q <=> asset[q] = b /\ pc[q] \in {"locked", "applied"}
      BY DEF IInv, TypeOK
    <3>3. asset' = asset
      BY <1>1
    <3>4. ASSUME NEW q \in Requests, NEW b \in Assets
          PROVE  lock'[b] = q <=> asset'[q] = b /\ pc'[q] \in {"locked", "applied"}
      <4>1. CASE q = r
        BY <1>7, <1>8, <3>1, <4>1
      <4>2. CASE q # r
        BY <1>7, <1>8, <3>1, <3>2, <3>3, <4>2
      <4>. QED
        BY <4>1, <4>2
    <3>. QED
      BY <3>4
  <2>5. \A q \in Requests :
          IF pc'[q] = "applied" THEN change'[q] \in [from : States, new : Row]
                                ELSE change'[q] = None
    BY <1>7 DEF IInv, TypeOK
  <2>6. \A q \in Requests :
          pc'[q] \notin {"new", "rejected"} => asset'[q] \in Assets /\ sent'[q] \in Payloads
    BY <1>1, <1>2, <1>7 DEF IInv, TypeOK, a
  <2>7. missed' \in [Reloads -> SUBSET Assets]
        /\ \A s \in Reloads :
             IF reload'[s] = "selected" THEN selected'[s] \in [Assets -> Row \cup {None}]
                                        ELSE selected'[s] = None /\ missed'[s] = {}
    BY <1>1, <1>2 DEF IInv, TypeOK
  <2>8. /\ telemetry' \subseteq Requests /\ DOMAIN change' = Requests
        /\ memory' \in [Assets -> Row \cup {None}] /\ graph' \in {Assets, {}}
        /\ asset' \in [Requests -> Assets \cup {None}]
        /\ sent' \in [Requests -> Payloads \cup {None}]
        /\ reload' \in [Reloads -> ReloadStages] /\ DOMAIN selected' = Reloads
        /\ restarts' \in 0 .. MaxRestarts /\ astray' \subseteq Assets /\ forged' \subseteq Assets
    BY <1>1 DEF IInv, TypeOK
  <2>. QED
    BY <2>1, <2>2, <2>3, <2>4, <2>5, <2>6, <2>7, <2>8 DEF TypeOK
<1>10. ASSUME NEW q \in Requests PROVE Updating(q)'
  <2>1. CASE q = r
    BY <1>7, <2>1 DEF Updating
  <2>2. CASE q # r
    <3>1. pc[q] = "applied" => asset[q] \in Assets \ {a}
      BY <1>6, <2>2 DEF IInv, TypeOK
    <3>2. Updating(q)
      BY DEF IInv
    <3>. QED
      BY <1>1, <1>7, <2>2, <3>1, <3>2, UpdatingStays
  <2>. QED
    BY <2>1, <2>2
<1>11. \A q \in Requests : Kept(q)'
  BY <1>1, <1>7 DEF IInv, Kept, InFlight
<1>12. \A s \in Reloads : Fresh(s)'
  BY <1>1, <1>7 DEF IInv, Fresh
<1>13. ASSUME NEW b \in Assets, b \notin astray, ~Writing(b)' PROVE memory[b] = row'[b]
  <2>1. CASE b = a
    BY <1>1, <1>5, <1>7, <1>13, <2>1
  <2>2. CASE b # a
    <3>1. ~Writing(b)
      BY <1>1, <1>7, <1>13, <2>2 DEF Writing, a
    <3>. QED
      BY <1>7, <1>13, <2>2, <3>1 DEF IInv, MemoryIsRow
  <2>. QED
    BY <2>1, <2>2
<1>14. ASSUME NEW b \in Assets \ forged PROVE Chain(b, transitions'[b], row'[b])
  <2>1. Chain(b, transitions[b], row[b]) /\ transitions[b] \in Seq(Step)
    BY DEF IInv, TransitionsChain, Chain, TypeOK
  <2>2. CASE b # a
    BY <1>7, <2>1, <2>2
  <2>3. CASE b = a /\ step.from = step.to
    <3>1. StateOf(row'[b]) = StateOf(row[b]) /\ transitions'[b] = transitions[b]
      BY <1>1, <1>4, <1>5, <1>7, <2>3
    <3>. QED
      BY <2>1, <3>1 DEF Chain
  <2>4. CASE b = a /\ step.from # step.to
    <3>1. step.from = StateOf(row[b]) /\ step.to = StateOf(row'[b])
      BY <1>1, <1>4, <1>5, <1>7, <2>4
    <3>2. transitions'[b] = Append(transitions[b], step)
      BY <1>1, <1>2, <2>4 DEF IInv, TypeOK
    <3>. QED
      BY <1>3, <2>1, <2>4, <3>1, <3>2, ChainAppend
  <2>. QED
    BY <2>2, <2>3, <2>4
<1>15. ASSUME NEW q \in telemetry', asset[q] \notin forged
       PROVE  row'[asset[q]] # None /\ sent[q].metrics \subseteq row'[asset[q]].metrics
  <2>1. CASE q = r
    BY <1>1, <1>3, <1>5, <1>7, <1>15, <2>1 DEF a
  <2>2. CASE q # r
    <3>1. /\ row[asset[q]] # None /\ sent[q].metrics \subseteq row[asset[q]].metrics
          /\ asset[q] \in Assets
      BY <1>1, <1>15, <2>2 DEF IInv, StoredIsMerged, TypeOK, Kept
    <3>2. CASE asset[q] = a
      BY <1>1, <1>3, <1>5, <1>7, <1>15, <3>1, <3>2
    <3>3. CASE asset[q] # a
      BY <1>7, <3>1, <3>3
    <3>. QED
      BY <3>2, <3>3
  <2>. QED
    BY <2>1, <2>2
<1>16. MemoryIsRow'
  BY <1>1, <1>13 DEF MemoryIsRow
<1>17. TransitionsChain'
  BY <1>1, <1>14 DEF TransitionsChain, Chain
<1>18. StoredIsMerged'
  BY <1>1, <1>15 DEF StoredIsMerged
<1>. QED
  BY <1>9, <1>10, <1>11, <1>12, <1>16, <1>17, <1>18 DEF IInv

\* A rolled-back update leaves its entry behind, which is then astray.
LEMMA FailKeeps == ASSUME IInv, NEW r \in Requests, Fail(r) PROVE IInv'
<1>1. /\ pc[r] \in InFlight
      /\ pc' = [pc EXCEPT ![r] = "failed"]
      /\ lock' = Unlocked({r})
      /\ astray' = IF pc[r] = "applied" THEN astray \cup {asset[r]} ELSE astray
      /\ change' = [change EXCEPT ![r] = None]
      /\ UNCHANGED <<row, transitions, telemetry, memory, graph, asset, sent, reload, selected,
                     missed, restarts, forged>>
  BY DEF Fail, dbVars, reloadVars
<1>2. /\ pc'[r] = "failed" /\ change'[r] = None
      /\ \A q \in Requests \ {r} : pc'[q] = pc[q] /\ change'[q] = change[q]
      /\ \A q \in Requests : pc'[q] = "applied" => q # r
  BY <1>1 DEF IInv, TypeOK
<1>3. \A b \in Assets : lock'[b] = IF lock[b] = r THEN None ELSE lock[b]
  BY <1>1 DEF Unlocked
<1>4. asset[r] \in Assets /\ sent[r] \in Payloads
  BY <1>1 DEF IInv, TypeOK, InFlight
<1>5. astray \subseteq astray' /\ astray' \subseteq Assets
  BY <1>1, <1>4 DEF IInv, TypeOK
<1>6. TypeOK'
  <2>1. pc' \in [Requests -> Stages]
    BY <1>1 DEF IInv, TypeOK, Stages, Ended
  <2>2. lock' \in [Assets -> Requests \cup {None}]
    BY <1>1 DEF IInv, TypeOK, Unlocked
  <2>3. ASSUME NEW q \in Requests, NEW b \in Assets
        PROVE  lock'[b] = q <=> asset'[q] = b /\ pc'[q] \in {"locked", "applied"}
    <3>1. q # None /\ asset'[q] = asset[q]
      BY <1>1, NoneAssumption
    <3>2. lock[b] = q <=> asset[q] = b /\ pc[q] \in {"locked", "applied"}
      BY DEF IInv, TypeOK
    <3>3. CASE q = r
      BY <1>2, <1>3, <3>1, <3>3
    <3>4. CASE q # r
      BY <1>2, <1>3, <3>1, <3>2, <3>4
    <3>. QED
      BY <3>3, <3>4
  <2>4. \A q \in Requests :
          IF pc'[q] = "applied" THEN change'[q] \in [from : States, new : Row]
                                ELSE change'[q] = None
    <3>1. \A q \in Requests :
            IF pc[q] = "applied" THEN change[q] \in [from : States, new : Row]
                                 ELSE change[q] = None
      BY DEF IInv, TypeOK
    <3>. QED
      BY <1>2, <3>1
  <2>5. \A q \in Requests :
          pc'[q] \notin {"new", "rejected"} => asset'[q] \in Assets /\ sent'[q] \in Payloads
    BY <1>1, <1>2, <1>4 DEF IInv, TypeOK
  <2>6. DOMAIN change' = Requests
    BY <1>1 DEF IInv, TypeOK
  <2>. QED
    BY <1>1, <1>5, <2>1, <2>2, <2>3, <2>4, <2>5, <2>6 DEF IInv, TypeOK
<1>7. \A q \in Requests : Updating(q)'
  BY <1>1, <1>2, <1>5, UpdatingStays DEF IInv
<1>8. \A q \in Requests : Kept(q)'
  BY <1>1, <1>2 DEF IInv, Kept, InFlight
<1>9. \A s \in Reloads : Fresh(s)'
  BY <1>1 DEF IInv, Fresh
<1>10. MemoryIsRow'
  <2>1. ASSUME NEW b \in Assets, b \notin astray', ~Writing(b)' PROVE ~Writing(b)
    <3>1. \A q \in Requests \ {r} : ~(asset[q] = b /\ pc[q] = "applied")
      BY <1>1, <1>2, <2>1 DEF Writing
    <3>2. ~(asset[r] = b /\ pc[r] = "applied")
      BY <1>1, <2>1
    <3>. QED
      BY <3>1, <3>2 DEF Writing
  <2>. QED
    BY <1>1, <1>5, <2>1 DEF IInv, MemoryIsRow
<1>11. TransitionsChain'
  BY <1>1 DEF IInv, TransitionsChain
<1>12. StoredIsMerged'
  BY <1>1 DEF IInv, StoredIsMerged
<1>. QED
  BY <1>6, <1>7, <1>8, <1>9, <1>10, <1>11, <1>12 DEF IInv

-----------------------------------------------------------------------------
(* Reloads, restarts and stuttering.                                       *)

\* A step that changes no row and no ingest keeps the database part of IInv,
\* whatever it does to memory, as long as it says what it lost.
LEMMA ReloadKeeps ==
  ASSUME IInv, UNCHANGED <<dbVars, lock, ingestVars, restarts, forged>>,
         memory' \in [Assets -> Row \cup {None}], graph' \in {Assets, {}},
         astray' \subseteq Assets,
         reload' \in [Reloads -> ReloadStages], DOMAIN selected' = Reloads,
         missed' \in [Reloads -> SUBSET Assets],
         \A s \in Reloads :
            IF reload'[s] = "selected" THEN selected'[s] \in [Assets -> Row \cup {None}]
                                       ELSE selected'[s] = None /\ missed'[s] = {},
         \A s \in Reloads : Fresh(s)',
         \A q \in Requests : Updating(q)',
         MemoryIsRow'
  PROVE  IInv'
<1>1. UNCHANGED <<row, transitions, telemetry, lock, pc, asset, sent, change, restarts, forged>>
  BY DEF dbVars, ingestVars
<1>2. TypeOK'
  BY <1>1 DEF IInv, TypeOK
<1>3. \A q \in Requests : Kept(q)'
  BY <1>1 DEF IInv, Kept
<1>4. TransitionsChain' /\ StoredIsMerged'
  BY <1>1 DEF IInv, TransitionsChain, StoredIsMerged
<1>. QED
  BY <1>2, <1>3, <1>4 DEF IInv

\* What a reload does before it replaces the entries concerns no entry; what
\* it selects are the rows of that moment.
LEMMA EarlyReloadKeeps ==
  ASSUME IInv, NEW s \in Reloads,
         ClearGraph(s) \/ FillGraph(s) \/ SelectRows(s) \/ FailReload(s)
  PROVE  IInv'
<1>1. /\ UNCHANGED <<row, transitions, telemetry, lock, memory, pc, asset, sent, change, restarts,
                     astray, forged>>
      /\ graph' \in {Assets, {}}
  BY DEF ClearGraph, FillGraph, SelectRows, FailReload, dbVars, ingestVars, IInv, TypeOK
<1>2. /\ reload' \in [Reloads -> ReloadStages] /\ DOMAIN selected' = Reloads
      /\ missed' \in [Reloads -> SUBSET Assets]
  <2>1. reload \in [Reloads -> ReloadStages] /\ DOMAIN selected = Reloads
        /\ missed \in [Reloads -> SUBSET Assets]
    BY DEF IInv, TypeOK
  <2>2. \/ reload' = [reload EXCEPT ![s] = "cleared"] \/ reload' = [reload EXCEPT ![s] = "filled"]
        \/ reload' = [reload EXCEPT ![s] = "selected"] \/ reload' = [reload EXCEPT ![s] = "failed"]
    BY DEF ClearGraph, FillGraph, SelectRows, FailReload
  <2>3. \/ selected' = selected \/ selected' = [selected EXCEPT ![s] = row]
        \/ selected' = [selected EXCEPT ![s] = None]
    BY DEF ClearGraph, FillGraph, SelectRows, FailReload
  <2>4. missed' = missed \/ missed' = [missed EXCEPT ![s] = {}]
    BY DEF ClearGraph, FillGraph, SelectRows, FailReload
  <2>5. reload' \in [Reloads -> ReloadStages]
    BY <2>1, <2>2 DEF ReloadStages
  <2>6. DOMAIN selected' = Reloads
    BY <2>1, <2>3
  <2>7. missed' \in [Reloads -> SUBSET Assets]
    BY <2>1, <2>4
  <2>. QED
    BY <2>5, <2>6, <2>7
<1>3. \/ /\ reload[s] # "selected" /\ reload'[s] # "selected"
         /\ selected' = selected /\ missed' = missed
      \/ /\ reload[s] # "selected" /\ reload'[s] = "selected"
         /\ selected'[s] = row /\ missed' = missed
      \/ /\ reload'[s] # "selected" /\ selected'[s] = None /\ missed'[s] = {}
  BY DEF ClearGraph, FillGraph, SelectRows, FailReload, IInv, TypeOK
<1>4. \A q \in Reloads \ {s} :
        reload'[q] = reload[q] /\ selected'[q] = selected[q] /\ missed'[q] = missed[q]
  BY DEF ClearGraph, FillGraph, SelectRows, FailReload, IInv, TypeOK
<1>5. \A q \in Reloads :
        IF reload'[q] = "selected" THEN selected'[q] \in [Assets -> Row \cup {None}]
                                   ELSE selected'[q] = None /\ missed'[q] = {}
  <2>1. /\ row \in [Assets -> Row \cup {None}]
        /\ \A q \in Reloads :
             IF reload[q] = "selected" THEN selected[q] \in [Assets -> Row \cup {None}]
                                       ELSE selected[q] = None /\ missed[q] = {}
    BY DEF IInv, TypeOK
  <2>. QED
    BY <1>3, <1>4, <2>1
<1>6. ASSUME NEW q \in Reloads PROVE Fresh(q)'
  <2>1. Fresh(q)
    BY DEF IInv
  <2>2. CASE q = s
    BY <1>1, <1>3, <2>2 DEF Fresh
  <2>3. CASE q # s
    BY <1>1, <1>4, <2>1, <2>3 DEF Fresh
  <2>. QED
    BY <2>2, <2>3
<1>7. \A q \in Requests : Updating(q)'
  BY <1>1, UpdatingStays DEF IInv
<1>8. MemoryIsRow'
  BY <1>1 DEF IInv, MemoryIsRow, Writing
<1>9. memory' \in [Assets -> Row \cup {None}] /\ astray' \subseteq Assets
  BY <1>1 DEF IInv, TypeOK
<1>. QED
  BY <1>1, <1>2, <1>5, <1>6, <1>7, <1>8, <1>9, ReloadKeeps DEF dbVars, ingestVars

\* The entries become the rows that were read, except for assets whose row
\* was committed in between, whose update is under way, or without a node.
LEMMA LoadStatesKeeps == ASSUME IInv, NEW s \in Reloads, LoadStates(s) PROVE IInv'
<1>1. /\ reload[s] = "selected"
      /\ memory' = [a \in Assets |-> IF a \in graph THEN selected[s][a] ELSE None]
      /\ reload' = [reload EXCEPT ![s] = "done"]
      /\ astray' = (Assets \ graph) \cup missed[s]
                   \cup {asset[r] : r \in {q \in Requests : pc[q] = "applied"}}
      /\ selected' = [selected EXCEPT ![s] = None]
      /\ missed' = [missed EXCEPT ![s] = {}]
      /\ UNCHANGED <<row, transitions, telemetry, lock, graph, pc, asset, sent, change, restarts,
                     forged>>
  BY DEF LoadStates, dbVars, ingestVars
<1>2. selected[s] \in [Assets -> Row \cup {None}] /\ missed[s] \subseteq Assets
  BY <1>1 DEF IInv, TypeOK
<1>3. memory' \in [Assets -> Row \cup {None}]
  BY <1>1, <1>2
<1>4. astray' \subseteq Assets
  <2>1. \A r \in Requests : pc[r] = "applied" => asset[r] \in Assets
    BY DEF IInv, TypeOK
  <2>. QED
    BY <1>1, <1>2, <2>1
<1>5. /\ reload' \in [Reloads -> ReloadStages] /\ DOMAIN selected' = Reloads
      /\ missed' \in [Reloads -> SUBSET Assets]
  BY <1>1 DEF IInv, TypeOK, ReloadStages
<1>6. /\ reload'[s] = "done" /\ selected'[s] = None /\ missed'[s] = {}
      /\ \A q \in Reloads \ {s} :
           reload'[q] = reload[q] /\ selected'[q] = selected[q] /\ missed'[q] = missed[q]
  BY <1>1 DEF IInv, TypeOK
<1>7. \A q \in Reloads :
        IF reload'[q] = "selected" THEN selected'[q] \in [Assets -> Row \cup {None}]
                                   ELSE selected'[q] = None /\ missed'[q] = {}
  <2>1. \A q \in Reloads :
          IF reload[q] = "selected" THEN selected[q] \in [Assets -> Row \cup {None}]
                                    ELSE selected[q] = None /\ missed[q] = {}
    BY DEF IInv, TypeOK
  <2>. QED
    BY <1>6, <2>1
<1>8. \A q \in Reloads : Fresh(q)'
  BY <1>1, <1>6 DEF IInv, Fresh
<1>9. ASSUME NEW q \in Requests PROVE Updating(q)'
  <2>1. pc[q] = "applied" => asset[q] \in astray'
    BY <1>1
  <2>2. Updating(q)
    BY DEF IInv
  <2>. QED
    BY <1>1, <2>1, <2>2, UpdatingStays
<1>10. MemoryIsRow'
  <2>1. ASSUME NEW a \in Assets, a \notin astray' PROVE memory'[a] = row[a]
    <3>1. a \in graph /\ a \notin missed[s]
      BY <1>1, <2>1
    <3>2. memory'[a] = selected[s][a]
      BY <1>1, <3>1
    <3>. QED
      BY <1>1, <3>1, <3>2 DEF IInv, Fresh
  <2>. QED
    BY <1>1, <2>1 DEF MemoryIsRow
<1>11. graph' \in {Assets, {}}
  BY <1>1 DEF IInv, TypeOK
<1>. QED
  BY <1>1, <1>3, <1>4, <1>5, <1>7, <1>8, <1>9, <1>10, <1>11, ReloadKeeps DEF dbVars, ingestVars

\* A restart ends every ingest and every reload, rolls all of them back and
\* loads the rows, or has nothing that is not astray.
LEMMA RestartKeeps ==
  ASSUME IInv, NEW reachable \in BOOLEAN, Restart(reachable) PROVE IInv'
<1>1. /\ restarts < MaxRestarts /\ restarts' = restarts + 1
      /\ graph' = IF reachable THEN Assets ELSE {}
      /\ memory' = IF reachable THEN row ELSE NoRows
      /\ astray' = IF reachable THEN {} ELSE Assets
      /\ pc' = [r \in Requests |-> IF pc[r] \in InFlight THEN "failed" ELSE pc[r]]
      /\ lock' = NoRows
      /\ reload' = [s \in Reloads |->
           IF reload[s] \in {"cleared", "filled", "selected"} THEN "failed" ELSE reload[s]]
      /\ change' = NoChange
      /\ selected' = [s \in Reloads |-> None]
      /\ missed' = [s \in Reloads |-> {}]
      /\ UNCHANGED <<row, transitions, telemetry, asset, sent, forged>>
  BY DEF Restart, dbVars
<1>2. \A q \in Requests : pc'[q] = (IF pc[q] \in InFlight THEN "failed" ELSE pc[q])
                          /\ pc'[q] \notin InFlight /\ change'[q] = None
  BY <1>1 DEF InFlight, NoChange
<1>3. \A q \in Reloads : reload'[q] # "selected" /\ selected'[q] = None /\ missed'[q] = {}
  BY <1>1
<1>4. TypeOK'
  <2>1. pc' \in [Requests -> Stages]
    BY <1>1 DEF IInv, TypeOK, Stages, Ended
  <2>2. /\ lock' \in [Assets -> Requests \cup {None}]
        /\ memory' \in [Assets -> Row \cup {None}] /\ astray' \subseteq Assets
        /\ graph' \in {Assets, {}} /\ restarts' \in 0 .. MaxRestarts
    BY <1>1, RestartsAssumption DEF IInv, TypeOK, NoRows
  <2>3. reload' \in [Reloads -> ReloadStages]
    BY <1>1 DEF IInv, TypeOK, ReloadStages
  <2>4. DOMAIN change' = Requests /\ DOMAIN selected' = Reloads
        /\ missed' \in [Reloads -> SUBSET Assets]
    BY <1>1 DEF NoChange
  <2>5. \A q \in Requests, b \in Assets :
          lock'[b] = q <=> asset'[q] = b /\ pc'[q] \in {"locked", "applied"}
    <3>1. \A q \in Requests : q # None
      BY NoneAssumption
    <3>. QED
      BY <1>1, <1>2, <3>1 DEF NoRows, InFlight
  <2>6. \A q \in Requests :
          pc'[q] \notin {"new", "rejected"} => asset'[q] \in Assets /\ sent'[q] \in Payloads
    <3>1. \A q \in Requests : pc'[q] \notin {"new", "rejected"} => pc[q] \notin {"new", "rejected"}
      BY <1>2 DEF InFlight
    <3>. QED
      BY <1>1, <3>1 DEF IInv, TypeOK
  <2>7. \A q \in Requests :
          IF pc'[q] = "applied" THEN change'[q] \in [from : States, new : Row]
                                ELSE change'[q] = None
    BY <1>2 DEF InFlight
  <2>8. /\ row' \in [Assets -> Row \cup {None}] /\ transitions' \in [Assets -> Seq(Step)]
        /\ telemetry' \subseteq Requests /\ forged' \subseteq Assets
        /\ asset' \in [Requests -> Assets \cup {None}]
        /\ sent' \in [Requests -> Payloads \cup {None}]
    BY <1>1 DEF IInv, TypeOK
  <2>. QED
    BY <1>3, <2>1, <2>2, <2>3, <2>4, <2>5, <2>6, <2>7, <2>8 DEF TypeOK
<1>5. \A q \in Requests : Updating(q)'
  BY <1>2 DEF Updating, InFlight
<1>6. \A q \in Requests : Kept(q)'
  BY <1>1, <1>2 DEF IInv, Kept, InFlight
<1>7. \A s \in Reloads : Fresh(s)'
  BY <1>3 DEF Fresh
<1>8. MemoryIsRow'
  BY <1>1 DEF MemoryIsRow
<1>9. TransitionsChain' /\ StoredIsMerged'
  BY <1>1 DEF IInv, TransitionsChain, StoredIsMerged
<1>. QED
  BY <1>4, <1>5, <1>6, <1>7, <1>8, <1>9 DEF IInv

-----------------------------------------------------------------------------
(* The theorems.                                                           *)

\* Every step keeps IInv.
LEMMA InvNext == IInv /\ [Next]_vars => IInv'
<1> SUFFICES ASSUME IInv, [Next]_vars PROVE IInv'
  OBVIOUS
<1>1. ASSUME NEW r \in Requests, NEW a \in Assets, NEW p \in Payloads,
             Reject(r, a, p) \/ Accept(r, a, p)
      PROVE  IInv'
  BY <1>1, RejectKeeps, AcceptKeeps
<1>2. ASSUME NEW r \in Requests, LockRow(r) PROVE IInv'
  BY <1>2, LockRowKeeps
<1>3. ASSUME NEW r \in Requests, Apply(r) PROVE IInv'
  BY <1>3, ApplyKeeps
<1>4. ASSUME NEW r \in Requests, Commit(r) PROVE IInv'
  BY <1>4, CommitKeeps
<1>5. ASSUME NEW r \in Requests, Finish(r) PROVE IInv'
  BY <1>5, FinishKeeps
<1>6. ASSUME NEW r \in Requests, Fail(r) PROVE IInv'
  BY <1>6, FailKeeps
<1>7. ASSUME NEW s \in Reloads, ClearGraph(s) \/ FillGraph(s) \/ SelectRows(s) \/ FailReload(s)
      PROVE  IInv'
  BY <1>7, EarlyReloadKeeps
<1>8. ASSUME NEW s \in Reloads, LoadStates(s) PROVE IInv'
  BY <1>8, LoadStatesKeeps
<1>9. ASSUME NEW reachable \in BOOLEAN, Restart(reachable) PROVE IInv'
  BY <1>9, RestartKeeps
<1>10. CASE UNCHANGED vars
  <2>1. /\ UNCHANGED <<row, transitions, telemetry, lock, memory, graph, pc, asset, sent, change,
                       reload, selected, missed, restarts, astray, forged>>
    BY <1>10 DEF vars, dbVars, ingestVars, reloadVars
  <2>2. TypeOK'
    BY <2>1 DEF IInv, TypeOK
  <2>3. \A q \in Requests : Updating(q)' /\ Kept(q)'
    <3>1. \A q \in Requests : Updating(q)'
      BY <2>1, UpdatingStays DEF IInv
    <3>. QED
      BY <2>1, <3>1 DEF IInv, Kept
  <2>4. (\A s \in Reloads : Fresh(s)') /\ MemoryIsRow'
    BY <2>1 DEF IInv, Fresh, MemoryIsRow, Writing
  <2>5. TransitionsChain' /\ StoredIsMerged'
    BY <2>1 DEF IInv, TransitionsChain, StoredIsMerged
  <2>. QED
    BY <2>2, <2>3, <2>4, <2>5 DEF IInv
<1>. QED
  BY <1>1, <1>2, <1>3, <1>4, <1>5, <1>6, <1>7, <1>8, <1>9, <1>10 DEF Next, Reconcile

\* IInv holds in every state.
LEMMA InvHolds == Spec => []IInv
  BY InitSound, InvNext, PTL DEF Spec

\* The state has its shape, and the row of an asset is held by exactly the
\* request between the two upserts of ingest_telemetry.
THEOREM TypeCorrect == Spec => []TypeOK
<1>1. IInv => TypeOK
  BY DEF IInv
<1>. QED
  BY <1>1, InvHolds, PTL

\* What GET /twin/state shows is the committed row, but for the four ways to
\* lose it that astray records.
THEOREM MemoryShowsTheRow == Spec => []MemoryIsRow
<1>1. IInv => MemoryIsRow
  BY DEF IInv
<1>. QED
  BY <1>1, InvHolds, PTL

\* state_transitions tells the whole story of an asset whose updates all
\* started from its row.
THEOREM HistoryIsAChain == Spec => []TransitionsChain
<1>1. IInv => TransitionsChain
  BY DEF IInv
<1>. QED
  BY <1>1, InvHolds, PTL

\* The metrics of stored telemetry are in the row of its asset.
THEOREM StoredTelemetryIsMerged == Spec => []StoredIsMerged
<1>1. IInv => StoredIsMerged
  BY DEF IInv
<1>. QED
  BY <1>1, InvHolds, PTL

-----------------------------------------------------------------------------
(* TwinState implements TwinStore.                                         *)

\* The stored readings, as TwinStore sees them.
StoredView == [r \in telemetry |-> <<asset[r], sent[r]>>]

\* A step that commits nothing leaves the readings and rows as they are.
LEMMA ViewStays ==
  ASSUME IInv, UNCHANGED dbVars,
         \A r \in telemetry : asset'[r] = asset[r] /\ sent'[r] = sent[r]
  PROVE  UNCHANGED <<row, transitions, StoredView>>
BY DEF dbVars, StoredView

\* An answer and a refusal are steps of their own; the other steps of a
\* request between its commits change neither.
LEMMA MoveSimulates ==
  ASSUME IInv, NEW r \in Requests, NEW s, pc' = [pc EXCEPT ![r] = s],
         pc[r] \notin Ended, UNCHANGED <<row, transitions, StoredView, forged>>,
         s = "answered" => r \in telemetry,
         s = "rejected" => r \notin telemetry
  PROVE  Store!Next \/ UNCHANGED Store!vars
<1> DEFINE Answered == {q \in Requests : pc[q] = "answered"}
           Rejected == {q \in Requests : pc[q] = "rejected"}
<1>1. pc'[r] = s /\ \A q \in Requests \ {r} : pc'[q] = pc[q]
  BY DEF IInv, TypeOK
<1>2. DOMAIN StoredView = telemetry
  BY DEF StoredView
<1>3. CASE s = "answered"
  <2>1. Answered' = Answered \cup {r} /\ Rejected' = Rejected
    BY <1>1, <1>3 DEF Ended
  <2>2. Store!Answer(r)
    BY <1>2, <1>3, <2>1 DEF Store!Answer, StoredView
  <2>. QED
    BY <2>2 DEF Store!Next
<1>4. CASE s = "rejected"
  <2>1. Rejected' = Rejected \cup {r} /\ Answered' = Answered
    BY <1>1, <1>4 DEF Ended
  <2>2. Store!Refuse(r)
    BY <1>2, <1>4, <2>1 DEF Store!Refuse, StoredView
  <2>. QED
    BY <2>2 DEF Store!Next
<1>5. CASE s \notin {"answered", "rejected"}
  <2>1. Rejected' = Rejected /\ Answered' = Answered
    BY <1>1, <1>5 DEF Ended
  <2>. QED
    BY <2>1 DEF Store!vars, StoredView
<1>. QED
  BY <1>3, <1>4, <1>5

\* The update of an entry makes its asset suspect if the entry was astray.
LEMMA ApplySimulates ==
  ASSUME IInv, NEW r \in Requests, Apply(r)
  PROVE  Store!Next \/ UNCHANGED Store!vars
<1>1. /\ pc[r] = "locked" /\ pc' = [pc EXCEPT ![r] = "applied"]
      /\ forged' = forged \cup ({asset[r]} \cap astray)
      /\ UNCHANGED <<row, transitions, telemetry, asset, sent>>
  BY DEF Apply, dbVars
<1>2. asset[r] \in Assets
  BY <1>1 DEF IInv, TypeOK
<1>3. /\ UNCHANGED StoredView
      /\ {q \in Requests : pc'[q] = "answered"} = {q \in Requests : pc[q] = "answered"}
      /\ {q \in Requests : pc'[q] = "rejected"} = {q \in Requests : pc[q] = "rejected"}
  BY <1>1 DEF IInv, TypeOK, StoredView
<1>4. CASE asset[r] \in astray
  <2>1. forged' = forged \cup {asset[r]}
    BY <1>1, <1>4
  <2>2. Store!Suspect(asset[r])
    BY <1>1, <1>3, <2>1 DEF Store!Suspect, StoredView
  <2>. QED
    BY <1>2, <2>2 DEF Store!Next
<1>5. CASE asset[r] \notin astray
  <2>1. forged' = forged
    BY <1>1, <1>5
  <2>. QED
    BY <1>1, <1>3, <2>1 DEF Store!vars, StoredView
<1>. QED
  BY <1>4, <1>5

\* A commit is the step that stores a reading, although what it writes was
\* computed from memory when the entry was replaced.
LEMMA CommitSimulates ==
  ASSUME IInv, NEW r \in Requests, Commit(r)
  PROVE  Store!Next
<1> DEFINE a == asset[r]
           p == sent[r]
<1>1. /\ pc[r] = "applied" /\ pc' = [pc EXCEPT ![r] = "committed"]
      /\ row' = [row EXCEPT ![a] = change[r].new]
      /\ transitions' = IF change[r].from = change[r].new.state THEN transitions
                        ELSE [transitions EXCEPT ![a] =
                                Append(@, [from |-> change[r].from, to |-> change[r].new.state])]
      /\ telemetry' = telemetry \cup {r}
      /\ UNCHANGED <<asset, sent, forged>>
  BY DEF Commit
<1>2. a \in Assets /\ p \in Payloads /\ Updating(r) /\ Kept(r)
  BY <1>1 DEF IInv, TypeOK
<1>3. PICK before \in Row :
        /\ change[r] = [from |-> before.state, new |-> Merge(before, p)]
        /\ a \notin forged => before = Store!Current(a)
  BY <1>1, <1>2 DEF Updating
<1>4. r \notin telemetry /\ p.valid
  BY <1>1, <1>2 DEF Kept, InFlight
<1>5. /\ change[r].from = before.state /\ change[r].new.state = p.state
      /\ change[r].new = [state |-> p.state, metrics |-> before.metrics \cup p.metrics]
  BY <1>3 DEF Merge
<1>6. /\ row' = [row EXCEPT ![a] = [state |-> p.state, metrics |-> before.metrics \cup p.metrics]]
      /\ transitions' = IF before.state = p.state THEN transitions
                        ELSE [transitions EXCEPT ![a] =
                                Append(@, [from |-> before.state, to |-> p.state])]
  BY <1>1, <1>5
<1>7. /\ DOMAIN StoredView = telemetry
      /\ StoredView' = [q \in DOMAIN StoredView \cup {r} |->
                          IF q = r THEN <<a, p>> ELSE StoredView[q]]
  BY <1>1 DEF StoredView
<1>8. /\ {q \in Requests : pc'[q] = "answered"} = {q \in Requests : pc[q] = "answered"}
      /\ {q \in Requests : pc'[q] = "rejected"} = {q \in Requests : pc[q] = "rejected"}
      /\ r \notin {q \in Requests : pc[q] = "rejected"}
  BY <1>1 DEF IInv, TypeOK
<1> HIDE DEF a, p
<1>9. Store!Ingest(r, a, p, before)
  BY <1>1, <1>3, <1>4, <1>6, <1>7, <1>8 DEF Store!Ingest, StoredView
<1>10. before \in Store!Row
  BY DEF Row, Store!Row
<1>. QED
  BY <1>2, <1>9, <1>10 DEF Store!Next

\* A restart cuts requests off, which answers and refuses none.
LEMMA RestartSimulates ==
  ASSUME IInv, NEW reachable \in BOOLEAN, Restart(reachable)
  PROVE  UNCHANGED Store!vars
<1>1. /\ pc' = [q \in Requests |-> IF pc[q] \in InFlight THEN "failed" ELSE pc[q]]
      /\ UNCHANGED <<row, transitions, telemetry, asset, sent, forged>>
  BY DEF Restart, dbVars
<1>2. /\ {q \in Requests : pc'[q] = "answered"} = {q \in Requests : pc[q] = "answered"}
      /\ {q \in Requests : pc'[q] = "rejected"} = {q \in Requests : pc[q] = "rejected"}
  BY <1>1 DEF InFlight
<1>. QED
  BY <1>1, <1>2 DEF Store!vars

\* Ingests, reloads, failures and restarts implement the store that takes one
\* reading at a time.
THEOREM TwinImplementsStore == Spec => ImplementsTwinStore
<1>1. Init => Store!Init
  <2> SUFFICES ASSUME Init PROVE Store!Init
    OBVIOUS
  <2>1. /\ telemetry = {} /\ pc = [r \in Requests |-> "new"]
        /\ row = Seeded /\ transitions = [a \in Assets |-> <<>>] /\ forged = {}
    BY DEF Init
  <2>2. [r \in telemetry |-> <<asset[r], sent[r]>>] = [r \in {} |-> None]
    BY <2>1
  <2>3. {r \in Requests : pc[r] = "answered"} = {} /\ {r \in Requests : pc[r] = "rejected"} = {}
    BY <2>1
  <2>. QED
    BY <2>1, <2>2, <2>3 DEF Store!Init
<1>2. ASSUME IInv, [Next]_vars PROVE [Store!Next]_Store!vars
  <2>1. ASSUME NEW r \in Requests, NEW a \in Assets, NEW p \in Payloads,
               Reject(r, a, p) \/ Accept(r, a, p)
        PROVE  Store!Next \/ UNCHANGED Store!vars
    <3>1. pc[r] = "new" /\ r \notin telemetry /\ telemetry \subseteq Requests
      BY <1>2, <2>1 DEF Reject, Accept, IInv, Kept, TypeOK
    <3>2. UNCHANGED dbVars /\ \A q \in telemetry : asset'[q] = asset[q] /\ sent'[q] = sent[q]
      BY <1>2, <2>1, <3>1 DEF Reject, Accept, IInv, TypeOK
    <3>3. UNCHANGED <<row, transitions, StoredView>>
      BY <1>2, <3>2, ViewStays
    <3>. QED
      BY <1>2, <2>1, <3>1, <3>3, MoveSimulates DEF Reject, Accept, Ended
  <2>2. ASSUME NEW r \in Requests, LockRow(r) \/ Finish(r) \/ Fail(r)
        PROVE  Store!Next \/ UNCHANGED Store!vars
    <3>1. UNCHANGED <<row, transitions, StoredView>>
      BY <1>2, <2>2, ViewStays DEF LockRow, Finish, Fail
    <3>2. Finish(r) => r \in telemetry
      BY <1>2 DEF Finish, IInv, Kept
    <3>. QED
      BY <1>2, <2>2, <3>1, <3>2, MoveSimulates DEF LockRow, Finish, Fail, Ended, InFlight
  <2>3. ASSUME NEW s \in Reloads, ClearGraph(s) \/ Reconcile(s)
        PROVE  UNCHANGED Store!vars
    BY <2>3 DEF ClearGraph, Reconcile, FillGraph, SelectRows, LoadStates, FailReload, Store!vars,
                dbVars, ingestVars
  <2>4. CASE UNCHANGED vars
    BY <2>4 DEF vars, dbVars, ingestVars, Store!vars
  <2>. QED
    BY <1>2, <2>1, <2>2, <2>3, <2>4, ApplySimulates, CommitSimulates, RestartSimulates
    DEF Next
<1>. QED
  BY <1>1, <1>2, InvHolds, PTL DEF Spec, ImplementsTwinStore, Store!Spec
=============================================================================
