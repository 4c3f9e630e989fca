--------------------------- MODULE TwinSyncProofs ---------------------------
(***************************************************************************)
(* Proofs about TwinSync for every set of requests, nodes and payloads and *)
(* every threshold: what a request leaves behind in the database, the      *)
(* audit trail and the notifications agrees, wherever it is cut off and    *)
(* whatever interleaves with it.                                           *)
(*                                                                         *)
(* The invariant has three layers.  TypeInv says what a request holds at   *)
(* each stage, StoryInv what it has published and saved by then, and       *)
(* SerialInv what its numbers are while requests do not overlap.           *)
(***************************************************************************)
EXTENDS TwinSync, TLAPS

Row == NodeRow \cup {Absent}
AuditRow == [req : Requests, action : Actions, details : MaybeRow]
Run == [req : Requests, network : Network]

NodeKinds == {"sync", "ingest", "edge"}
RunKinds == {"sync", "optimize", "simulate"}

\* The stages by what the request has done: written its node but not yet
\* published, and so on.
Reading == {"read", "written", "refreshed"}
Drifting == {"synced", "drifted", "triggered"}
Running == {"loaded", "saved"}

-----------------------------------------------------------------------------
(* What a request holds at each stage.                                     *)

Shape(r) ==
    /\ stage[r] \in Reading => kind[r] \in NodeKinds
    /\ stage[r] \in Drifting => kind[r] = "sync"
    /\ stage[r] \in Running => kind[r] \in RunKinds /\ snapshot[r] \in Network
    /\ stage[r] # "new" => kind[r] \in Kinds

Loaded(r) ==
    Active(r) /\ kind[r] \in NodeKinds =>
        /\ target[r] \in Codes
        /\ baseline[r] \in Row
        /\ payload[r] \in IF kind[r] = "sync" THEN SyncPayloads ELSE NodePayloads
        /\ kind[r] = "sync" => baseline[r] \in NodeRow
        /\ baseline[r] # Absent => node[target[r]] \in NodeRow

Wrote(r) ==
    /\ stage[r] \in {"new", "read"} => wrote[r] = None
    /\ Active(r) /\ kind[r] \in NodeKinds /\ stage[r] # "read" =>
         wrote[r] \in Write /\ node[target[r]] \in NodeRow
    /\ stage[r] = "answered" /\ kind[r] \in NodeKinds => wrote[r] \in Write
    /\ kind[r] = "sync" /\ wrote[r] # None => wrote[r].before \in NodeRow
    /\ stage[r] \in {"refreshed", "drifted"} => seen[r] \in NodeRow

TypeInv == TypeOK /\ \A r \in Requests : Shape(r) /\ Loaded(r) /\ Wrote(r)

-----------------------------------------------------------------------------
(* What a request has published and saved at each stage.                   *)

\* What an unfinished request has published.
Due(r, action) ==
    \/ /\ action = "TWIN_TELEMETRY_SYNC"
       /\ stage[r] \in Drifting \/ (stage[r] \in Running /\ kind[r] = "sync")
    \/ /\ action = "AUTO_REOPTIMIZE_TRIGGERED"
       /\ stage[r] = "triggered" \/ (stage[r] \in Running /\ kind[r] = "sync")

Story(r) ==
    stage[r] \notin {"answered", "failed"} =>
        /\ \A a \in Actions : Published(r, a) <=> Due(r, a)
        /\ HasRun(r) <=> stage[r] = "saved"

\* The write of a sync is in the database, and in what its run has loaded.
Earned(r) ==
    Active(r) /\ kind[r] = "sync" /\ stage[r] # "read" =>
        /\ version[target[r]] >= wrote[r].version
        /\ stage[r] \in Running => snapshot[r].version[target[r]] >= wrote[r].version

StoryInv ==
    /\ \A r \in Requests : Story(r) /\ Earned(r)
    /\ AnsweredIsAudited
    /\ TrailIsTruthful
    /\ NotifiedIsAudited
    /\ RunSeesItsTrigger

-----------------------------------------------------------------------------
(* The numbers, while requests do not overlap.                             *)

Alone == \A p, q \in Requests : Active(p) /\ Active(q) => p = q

Exact(r) ==
    /\ stage[r] = "read" => baseline[r] = node[target[r]]
    /\ stage[r] \in {"written", "refreshed", "synced", "drifted"} =>
         node[target[r]] = wrote[r].after
    /\ Active(r) /\ kind[r] = "sync" /\ stage[r] # "read" => wrote[r].before = baseline[r]
    /\ stage[r] = "refreshed" => seen[r] = wrote[r].after
    /\ stage[r] \in {"drifted", "triggered"} \cup Running /\ kind[r] = "sync" =>
         Drifted(wrote[r].before, wrote[r].after)
    /\ stage[r] = "answered" /\ kind[r] = "sync" =>
         (Drifted(wrote[r].before, wrote[r].after) <=> HasRun(r))

SyncRowsExact ==
    \A i \in DOMAIN trail :
        trail[i].action = "TWIN_TELEMETRY_SYNC" =>
            trail[i].details = wrote[trail[i].req].after

SerialInv == ~overlapped => Alone /\ SyncRowsExact /\ \A r \in Requests : Exact(r)

-----------------------------------------------------------------------------
(* Lemmas about the operators.                                             *)

LEMMA Elements ==
    ASSUME NEW S, NEW s \in Seq(S)
    PROVE  \A i \in DOMAIN s : s[i] \in S
OBVIOUS

\* An UPDATE of a row leaves a row.
LEMMA UpdatedRow ==
    ASSUME NEW current \in NodeRow, NEW loaded \in NodeRow,
           NEW p \in SyncPayloads \cup NodePayloads
    PROVE  Updated(current, loaded, p) \in NodeRow
<1>1. p \in [Fields -> Nat \cup {None}]
  BY PayloadsAssumption DEF NodeRow
<1>. QED
  BY <1>1 DEF Updated, NodeRow

\* What publish can leave behind.
LEMMA PublishTypes ==
    ASSUME TypeOK, NEW r \in Requests, NEW action \in Actions, NEW details \in MaybeRow,
           NEW next \in Stages, Publish(r, action, details, next)
    PROVE  /\ trail' \in Seq(AuditRow)
           /\ notifications' \in Seq([req : Requests, action : Actions])
           /\ stage' \in [Requests -> Stages]
           /\ stage' = [stage EXCEPT ![r] = next] \/ stage' = [stage EXCEPT ![r] = "failed"]
<1>1. trail' \in Seq(AuditRow)
  BY DEF Publish, TypeOK, AuditRow
<1>2. notifications' \in Seq([req : Requests, action : Actions])
  <2>1. notifications \in Seq([req : Requests, action : Actions])
    BY DEF TypeOK
  <2>2. Append(notifications, [req |-> r, action |-> action])
          \in Seq([req : Requests, action : Actions])
    BY <2>1
  <2>. QED
    BY <2>1, <2>2 DEF Publish, Notified
<1>3. stage' = [stage EXCEPT ![r] = next] \/ stage' = [stage EXCEPT ![r] = "failed"]
  BY DEF Publish, Goto
<1>. QED
  BY <1>1, <1>2, <1>3 DEF TypeOK, Stages

-----------------------------------------------------------------------------
(* TypeInv is inductive.                                                   *)

LEMMA TypeInvInit == Init => TypeInv
<1> SUFFICES ASSUME Init
             PROVE  TypeInv
  OBVIOUS
<1>1. TypeOK
  <2>1. /\ trail \in Seq([req : Requests, action : Actions, details : MaybeRow])
        /\ runs \in Seq([req : Requests, network : Network])
        /\ notifications \in Seq([req : Requests, action : Actions])
    BY DEF Init
  <2>2. node \in [Codes -> NodeRow \cup {Absent}]
    BY NodesAssumption DEF Init
  <2>. QED
    BY <2>1, <2>2 DEF Init, TypeOK, Stages, MaybeRow
<1>2. \A r \in Requests : Shape(r) /\ Loaded(r) /\ Wrote(r)
  BY DEF Init, Shape, Loaded, Wrote, Active, Ended, Reading, Drifting, Running
<1>. QED
  BY <1>1, <1>2 DEF TypeInv

LEMMA TypeInvReads ==
    ASSUME TypeInv, NEW r \in Requests,
           \/ \E n \in Nodes, p \in SyncPayloads : SyncRead(r, n, p)
           \/ \E n \in Codes, p \in NodePayloads : IngestRead(r, n, p)
    PROVE  TypeInv'
<1>1. ASSUME NEW n \in Nodes, NEW p \in SyncPayloads, SyncRead(r, n, p)
      PROVE  TypeInv'
  <2>1. n \in Codes /\ node[n] \in Row
    BY DEF TypeInv, TypeOK, Codes, Row
  <2>2. TypeOK'
    BY <1>1, <2>1 DEF TypeInv, TypeOK, SyncRead, Begin, Goto, Stages, Kinds, MaybeRow, Row, db
  <2>3. \A q \in Requests : (Shape(q) /\ Loaded(q) /\ Wrote(q))'
    BY <1>1, <2>1 DEF TypeInv, TypeOK, SyncRead, Begin, Goto, Shape, Loaded, Wrote, Active, Ended,
       Reading, Drifting, Running, NodeKinds, RunKinds, Kinds, Row, db
  <2>. QED
    BY <2>2, <2>3 DEF TypeInv
<1>2. ASSUME NEW n \in Codes, NEW p \in NodePayloads, IngestRead(r, n, p)
      PROVE  TypeInv'
  <2>1. node[n] \in Row
    BY DEF TypeInv, TypeOK, Row
  <2>2. TypeOK'
    BY <1>2, <2>1 DEF TypeInv, TypeOK, IngestRead, Begin, Goto, Stages, Kinds, MaybeRow, Row, db
  <2>3. \A q \in Requests : (Shape(q) /\ Loaded(q) /\ Wrote(q))'
    BY <1>2, <2>1 DEF TypeInv, TypeOK, IngestRead, Begin, Goto, Shape, Loaded, Wrote, Active, Ended,
       Reading, Drifting, Running, NodeKinds, RunKinds, Kinds, Row, db
  <2>. QED
    BY <2>2, <2>3 DEF TypeInv
<1>. QED
  BY <1>1, <1>2

LEMMA TypeInvCommit ==
    ASSUME TypeInv, NEW r \in Requests, CommitNode(r)
    PROVE  TypeInv'
<1>1. stage[r] = "read" /\ Active(r) /\ kind[r] \in NodeKinds
  BY DEF CommitNode, Active, Ended, TypeInv, Shape, Reading
<1>2. Loaded(r)
  BY DEF TypeInv
<1>3. CASE stage' = [stage EXCEPT ![r] = "failed"] /\ UNCHANGED <<node, version, wrote>>
  <2>1. TypeOK'
    BY <1>3 DEF TypeInv, TypeOK, CommitNode, Stages
  <2>2. \A q \in Requests : (Shape(q) /\ Loaded(q) /\ Wrote(q))'
    BY <1>1, <1>3 DEF TypeInv, TypeOK, CommitNode, Shape, Loaded, Wrote, Active, Ended,
       Reading, Drifting, Running, NodeKinds, Kinds
  <2>. QED
    BY <2>1, <2>2 DEF TypeInv
<1>4. ASSUME NEW new,
             new = IF baseline[r] = Absent THEN payload[r]
                   ELSE Updated(node[target[r]], baseline[r], payload[r]),
             node' = [node EXCEPT ![target[r]] = new],
             version' = [version EXCEPT ![target[r]] = @ + 1],
             wrote' = [wrote EXCEPT ![r] = [before |-> node[target[r]], after |-> new,
                                            version |-> version[target[r]] + 1]],
             stage' = [stage EXCEPT ![r] = "written"]
      PROVE  TypeInv'
  <2>1. target[r] \in Codes /\ baseline[r] \in Row
    BY <1>1, <1>2 DEF Loaded
  <2>2. new \in NodeRow
    <3>1. CASE baseline[r] = Absent
      BY <1>1, <1>2, <1>4, <3>1, PayloadsAssumption, ValuesAssumption DEF Loaded
    <3>2. CASE baseline[r] # Absent
      <4>1. node[target[r]] \in NodeRow /\ baseline[r] \in NodeRow
            /\ payload[r] \in SyncPayloads \cup NodePayloads
        BY <1>1, <1>2, <3>2 DEF Loaded, Row
      <4>. QED
        BY <1>4, <3>2, <4>1, UpdatedRow
    <3>. QED
      BY <3>1, <3>2
  <2>3. wrote'[r] \in Write /\ wrote'[r] # None /\ wrote'[r].before = node[target[r]]
    BY <1>4, <2>1, <2>2, ValuesAssumption DEF TypeInv, TypeOK, Write
  <2>4. TypeOK'
    BY <1>4, <2>1, <2>2, <2>3 DEF TypeInv, TypeOK, CommitNode, Stages
  <2>5. \A m \in Codes : node[m] \in NodeRow \/ m = target[r] => node'[m] \in NodeRow
    BY <1>4, <2>1, <2>2 DEF TypeInv, TypeOK
  <2>6. \A q \in Requests : q # r => /\ stage'[q] = stage[q] /\ kind'[q] = kind[q]
                                     /\ wrote'[q] = wrote[q]
    BY <1>4 DEF CommitNode, TypeInv, TypeOK
  <2>7. UNCHANGED <<kind, target, payload, baseline, seen, snapshot>> /\ stage'[r] = "written"
    BY <1>4 DEF CommitNode, TypeInv, TypeOK
  <2>8. \A q \in Requests : Shape(q)'
    BY <1>1, <2>6, <2>7 DEF TypeInv, Shape, Reading, Drifting, Running, NodeKinds, Kinds
  <2>9. \A q \in Requests : Loaded(q)'
    BY <1>1, <2>5, <2>6, <2>7 DEF TypeInv, Loaded, Active, Ended
  <2>10. \A q \in Requests : Wrote(q)'
    <3>1. ASSUME NEW q \in Requests, q # r
          PROVE  Wrote(q)'
      BY <2>5, <2>6, <2>7, <3>1 DEF TypeInv, Loaded, Wrote, Active, Ended
    <3>2. Wrote(r)'
      <4>1. kind[r] = "sync" => node[target[r]] \in NodeRow
        BY <1>1, <1>2, ValuesAssumption DEF Loaded
      <4>. QED
        BY <2>1, <2>3, <2>5, <2>7, <4>1 DEF Wrote
    <3>. QED
      BY <3>1, <3>2
  <2>. QED
    BY <2>4, <2>8, <2>9, <2>10 DEF TypeInv
<1>. QED
  BY <1>3, <1>4 DEF CommitNode, Goto

LEMMA TypeInvPublishes ==
    ASSUME TypeInv, NEW r \in Requests,
           PublishNode(r) \/ PublishTrigger(r) \/ PublishRun(r)
    PROVE  TypeInv'
<1>1. PICK action \in Actions, details \in MaybeRow, next \in Stages :
        /\ Publish(r, action, details, next)
        /\ \/ next = "synced" /\ stage[r] = "refreshed" /\ kind[r] = "sync"
           \/ next = "answered" /\ stage[r] = "refreshed"
           \/ next = "triggered" /\ stage[r] = "drifted"
           \/ next = "answered" /\ stage[r] = "saved"
  <2>1. seen[r] \in MaybeRow /\ None \in MaybeRow
    BY DEF TypeInv, TypeOK, MaybeRow
  <2>2. CASE PublishNode(r)
    BY <2>1, <2>2 DEF PublishNode, Actions, Stages
  <2>3. CASE PublishTrigger(r)
    BY <2>1, <2>3 DEF PublishTrigger, Actions, Stages
  <2>4. CASE PublishRun(r)
    BY <2>1, <2>4 DEF PublishRun, Actions, Stages
  <2>. QED
    BY <2>2, <2>3, <2>4
<1>2. UNCHANGED <<node, version, runs, locals, overlapped>>
  BY DEF PublishNode, PublishTrigger, PublishRun
<1>3. /\ trail' \in Seq(AuditRow)
      /\ notifications' \in Seq([req : Requests, action : Actions])
      /\ stage' \in [Requests -> Stages]
      /\ stage' = [stage EXCEPT ![r] = next] \/ stage' = [stage EXCEPT ![r] = "failed"]
  BY <1>1, PublishTypes DEF TypeInv
<1>4. TypeOK'
  BY <1>2, <1>3 DEF TypeInv, TypeOK, AuditRow, locals
<1>5. \A q \in Requests : (Shape(q) /\ Loaded(q) /\ Wrote(q))'
  <2>1. ASSUME NEW q \in Requests
        PROVE  (Shape(q) /\ Loaded(q) /\ Wrote(q))'
    <3>1. CASE stage'[q] = stage[q]
      BY <1>2, <3>1 DEF TypeInv, TypeOK, Shape, Loaded, Wrote, Active, locals
    <3>2. CASE q = r
      BY <1>1, <1>2, <1>3, <3>2 DEF TypeInv, TypeOK, Shape, Loaded, Wrote, Active, Ended,
         Reading, Drifting, Running, NodeKinds, RunKinds, locals
    <3>. QED
      BY <1>3, <3>1, <3>2 DEF TypeInv, TypeOK
  <2>. QED
    BY <2>1
<1>. QED
  BY <1>4, <1>5 DEF TypeInv

LEMMA TypeInvSteps ==
    ASSUME TypeInv, NEW r \in Requests,
           \/ Refresh(r) \/ Evaluate(r) \/ LoadNetwork(r)
           \/ \E k \in {"optimize", "simulate"} : StartRun(r, k)
           \/ SaveRun(r) \/ Fail(r)
    PROVE  TypeInv'
<1>1. Shape(r) /\ Loaded(r) /\ Wrote(r)
  BY DEF TypeInv
<1>2. [node |-> node, version |-> version] \in Network
  BY DEF TypeInv, TypeOK, Network
<1>3. stage[r] \in {"written", "synced"} => node[target[r]] \in NodeRow
  BY <1>1 DEF Shape, Wrote, Active, Ended, Reading, Drifting, NodeKinds
<1>4. CASE Refresh(r)
  <2>1. TypeOK'
    BY <1>3, <1>4 DEF TypeInv, TypeOK, Refresh, Goto, Stages, MaybeRow, db
  <2>2. \A q \in Requests : (Shape(q) /\ Loaded(q) /\ Wrote(q))'
    BY <1>3, <1>4 DEF TypeInv, TypeOK, Refresh, Goto, Shape, Loaded, Wrote, Active, Ended,
       Reading, Drifting, Running, db
  <2>. QED
    BY <2>1, <2>2 DEF TypeInv
<1>5. CASE Evaluate(r)
  <2>1. TypeOK'
    BY <1>3, <1>5 DEF TypeInv, TypeOK, Evaluate, Goto, Stages, MaybeRow, db
  <2>2. \A q \in Requests : (Shape(q) /\ Loaded(q) /\ Wrote(q))'
    BY <1>3, <1>5 DEF TypeInv, TypeOK, Evaluate, Goto, Shape, Loaded, Wrote, Active, Ended,
       Reading, Drifting, Running, NodeKinds, db
  <2>. QED
    BY <2>1, <2>2 DEF TypeInv
<1>6. CASE LoadNetwork(r)
  <2>1. TypeOK'
    BY <1>2, <1>6 DEF TypeInv, TypeOK, LoadNetwork, Goto, Stages, db
  <2>2. \A q \in Requests : (Shape(q) /\ Loaded(q) /\ Wrote(q))'
    BY <1>2, <1>6 DEF TypeInv, TypeOK, LoadNetwork, Goto, Shape, Loaded, Wrote, Active, Ended,
       Reading, Drifting, Running, RunKinds, db
  <2>. QED
    BY <2>1, <2>2 DEF TypeInv
<1>7. ASSUME NEW k \in {"optimize", "simulate"}, StartRun(r, k)
      PROVE  TypeInv'
  <2>1. TypeOK'
    BY <1>2, <1>7 DEF TypeInv, TypeOK, StartRun, Begin, Goto, Stages, Kinds, db
  <2>2. \A q \in Requests : (Shape(q) /\ Loaded(q) /\ Wrote(q))'
    BY <1>2, <1>7 DEF TypeInv, TypeOK, StartRun, Begin, Goto, Shape, Loaded, Wrote, Active, Ended,
       Reading, Drifting, Running, NodeKinds, RunKinds, Kinds, db
  <2>. QED
    BY <2>1, <2>2 DEF TypeInv
<1>8. CASE SaveRun(r)
  <2>1. snapshot[r] \in Network
    BY <1>1, <1>8 DEF SaveRun, Shape, Running
  <2>2. runs' \in Seq([req : Requests, network : Network])
    <3>1. runs \in Seq([req : Requests, network : Network])
      BY DEF TypeInv, TypeOK
    <3>. QED
      BY <1>8, <2>1, <3>1 DEF SaveRun
  <2>3. TypeOK'
    <3>1. stage' \in [Requests -> Stages]
      BY <1>8 DEF SaveRun, Goto, TypeInv, TypeOK, Stages
    <3>2. UNCHANGED <<node, version, trail, notifications, locals, overlapped>>
      BY <1>8 DEF SaveRun
    <3>. QED
      BY <2>2, <3>1, <3>2 DEF TypeInv, TypeOK, locals
  <2>4. \A q \in Requests : (Shape(q) /\ Loaded(q) /\ Wrote(q))'
    BY <1>8 DEF TypeInv, TypeOK, SaveRun, Goto, Shape, Loaded, Wrote, Active, Ended,
       Reading, Drifting, Running, locals
  <2>. QED
    BY <2>3, <2>4 DEF TypeInv
<1>9. CASE Fail(r)
  <2>1. TypeOK'
    BY <1>9 DEF TypeInv, TypeOK, Fail, Goto, Stages, db, locals
  <2>2. \A q \in Requests : (Shape(q) /\ Loaded(q) /\ Wrote(q))'
    BY <1>9 DEF TypeInv, TypeOK, Fail, Goto, Shape, Loaded, Wrote, Active, Ended,
       Reading, Drifting, Running, db, locals
  <2>. QED
    BY <2>1, <2>2 DEF TypeInv
<1>. QED
  BY <1>4, <1>5, <1>6, <1>7, <1>8, <1>9

LEMMA TypeInvRestart == TypeInv /\ Restart => TypeInv'
<1> SUFFICES ASSUME TypeInv, Restart
             PROVE  TypeInv'
  OBVIOUS
<1>1. \A r \in Requests : stage'[r] = "failed" \/ (stage'[r] = stage[r] /\ ~Active(r))
  BY DEF Restart
<1>2. TypeOK'
  <2>1. notifications' \in Seq([req : Requests, action : Actions])
    BY DEF Restart
  <2>2. stage' \in [Requests -> Stages]
    BY DEF Restart, TypeInv, TypeOK, Stages
  <2>. QED
    BY <2>1, <2>2 DEF Restart, TypeInv, TypeOK, db, locals
<1>3. ASSUME NEW q \in Requests
      PROVE  (Shape(q) /\ Loaded(q) /\ Wrote(q))'
  <2>1. kind'[q] = kind[q] /\ wrote'[q] = wrote[q]
    BY DEF Restart, locals
  <2>2. Shape(q) /\ Wrote(q) /\ (Active(q) => kind[q] \in Kinds)
    BY DEF TypeInv, Shape, Active
  <2>3. CASE stage'[q] = "failed"
    <3>1. stage[q] # "new"
      BY <2>3 DEF Restart, Active, Ended
    <3>2. Shape(q)'
      BY <2>1, <2>2, <2>3, <3>1 DEF Shape, Reading, Drifting, Running
    <3>3. ~Active(q)'
      BY <2>3 DEF Active, Ended
    <3>. QED
      BY <2>1, <2>2, <2>3, <3>2, <3>3 DEF Loaded, Wrote
  <2>4. CASE stage'[q] = stage[q] /\ ~Active(q)
    BY <2>1, <2>2, <2>4 DEF Shape, Loaded, Wrote, Active, Ended, Reading, Drifting, Running
  <2>. QED
    BY <1>1, <2>3, <2>4
<1>. QED
  BY <1>2, <1>3 DEF TypeInv

LEMMA TypeInvNext == TypeInv /\ [Next]_vars => TypeInv'
<1>1. CASE UNCHANGED vars
  BY <1>1 DEF vars, TypeInv, TypeOK, Shape, Loaded, Wrote, Active
<1>. QED
  BY <1>1, TypeInvReads, TypeInvCommit, TypeInvPublishes, TypeInvSteps, TypeInvRestart DEF Next

-----------------------------------------------------------------------------
(* What a step leaves alone.                                               *)

\* What a request has written is not written again.
Kept(r) ==
    stage[r] \notin {"new", "read"} =>
        kind'[r] = kind[r] /\ target'[r] = target[r] /\ wrote'[r] = wrote[r]

LEMMA StepKeeps ==
    ASSUME TypeInv, [Next]_vars
    PROVE  \A q \in Requests : Kept(q)
<1>1. CASE UNCHANGED <<kind, target, wrote>>
  BY <1>1 DEF Kept
<1>2. ASSUME NEW r \in Requests, NEW n \in Nodes, NEW p \in SyncPayloads, SyncRead(r, n, p)
      PROVE  \A q \in Requests : Kept(q)
  BY <1>2 DEF SyncRead, Begin, Kept, TypeInv, TypeOK
<1>3. ASSUME NEW r \in Requests, NEW n \in Codes, NEW p \in NodePayloads, IngestRead(r, n, p)
      PROVE  \A q \in Requests : Kept(q)
  BY <1>3 DEF IngestRead, Begin, Kept, TypeInv, TypeOK
<1>4. ASSUME NEW r \in Requests, CommitNode(r)
      PROVE  \A q \in Requests : Kept(q)
  BY <1>4 DEF CommitNode, Kept, TypeInv, TypeOK
<1>5. ASSUME NEW r \in Requests, NEW k \in {"optimize", "simulate"}, StartRun(r, k)
      PROVE  \A q \in Requests : Kept(q)
  BY <1>5 DEF StartRun, Begin, Kept, TypeInv, TypeOK
<1>. QED
  BY <1>1, <1>2, <1>3, <1>4, <1>5 DEF Next, vars, Refresh, PublishNode, Evaluate,
     PublishTrigger, LoadNetwork, SaveRun, PublishRun, Fail, Restart, locals, db

\* Versions only grow.
LEMMA VersionsGrow ==
    ASSUME TypeInv, [Next]_vars
    PROVE  \A n \in Codes : version'[n] >= version[n]
<1>1. CASE UNCHANGED version
  BY <1>1 DEF TypeInv, TypeOK
<1>2. ASSUME NEW r \in Requests, CommitNode(r)
      PROVE  \A n \in Codes : version'[n] >= version[n]
  <2>1. version' = version \/ version' = [version EXCEPT ![target[r]] = @ + 1]
    BY <1>2 DEF CommitNode
  <2>2. version \in [Codes -> Nat]
    BY DEF TypeInv, TypeOK
  <2>. QED
    BY <2>1, <2>2
<1>. QED
  BY <1>1, <1>2 DEF Next, vars, SyncRead, IngestRead, StartRun, Refresh, PublishNode, Evaluate,
     PublishTrigger, LoadNetwork, SaveRun, PublishRun, Fail, Restart, db

\* A new row is one more thing its request has published.
LEMMA AppendPublishes ==
    ASSUME trail \in Seq(AuditRow), NEW e \in AuditRow, trail' = Append(trail, e),
           NEW q, NEW a
    PROVE  Published(q, a)' <=> (Published(q, a) \/ (e.req = q /\ e.action = a))
<1>1. /\ DOMAIN trail' = DOMAIN trail \cup {Len(trail) + 1}
      /\ \A i \in DOMAIN trail : trail'[i] = trail[i]
      /\ trail'[Len(trail) + 1] = e
  OBVIOUS
<1>. QED
  BY <1>1 DEF Published

LEMMA AppendRuns ==
    ASSUME runs \in Seq(Run), NEW e \in Run, runs' = Append(runs, e), NEW q
    PROVE  HasRun(q)' <=> (HasRun(q) \/ e.req = q)
<1>1. /\ DOMAIN runs' = DOMAIN runs \cup {Len(runs) + 1}
      /\ \A i \in DOMAIN runs : runs'[i] = runs[i]
      /\ runs'[Len(runs) + 1] = e
  OBVIOUS
<1>. QED
  BY <1>1 DEF HasRun

\* A row and a run belong to a request that is past its first stages.
LEMMA RunIsLate ==
    ASSUME TypeInv, StoryInv, NEW q \in Requests, HasRun(q) \/ wrote[q] # None
    PROVE  stage[q] \notin {"new", "read"}
BY DEF StoryInv, Story, TypeInv, Wrote

-----------------------------------------------------------------------------
(* StoryInv is inductive: steps that publish nothing and save no run.      *)

LEMMA StoryInit == Init => StoryInv
BY DEF Init, StoryInv, Story, Due, Earned, Published, HasRun, AnsweredIsAudited,
   TrailIsTruthful, NotifiedIsAudited, RunSeesItsTrigger, Active, Ended, Drifting, Running

\* Everything that is already told stays true.
LEMMA QuietKeeps ==
    ASSUME TypeInv, StoryInv, [Next]_vars, UNCHANGED <<trail, runs>>,
           notifications' \in {notifications, <<>>}
    PROVE  /\ \A q \in Requests : stage[q] = "answered" => Audited(q)'
           /\ TrailIsTruthful'
           /\ NotifiedIsAudited'
           /\ RunSeesItsTrigger'
<1>1. \A q \in Requests : Kept(q)
  BY StepKeeps
<1>2. /\ \A q, a : Published(q, a)' <=> Published(q, a)
      /\ \A q : HasRun(q)' <=> HasRun(q)
  BY DEF Published, HasRun
<1>3. \A q \in Requests : stage[q] = "answered" => Audited(q)'
  BY <1>1, <1>2 DEF StoryInv, AnsweredIsAudited, Audited, Kept
<1>4. TrailIsTruthful'
  <2>1. \A q \in Requests : wrote[q] # None => wrote'[q] # None
    BY <1>1, RunIsLate DEF Kept
  <2>2. \A i \in DOMAIN trail : trail[i] \in AuditRow
    BY Elements DEF TypeInv, TypeOK, AuditRow
  <2>3. \A i \in DOMAIN trail : trail[i].req \in Requests
    BY <2>2 DEF AuditRow
  <2>4. TrailIsTruthful
    BY DEF StoryInv
  <2>5. trail' = trail /\ \A q : HasRun(q) => HasRun(q)'
    BY <1>2
  <2>6. ASSUME NEW i \in DOMAIN trail
        PROVE  Truthful(i)'
    <3>1. Truthful(i) /\ trail[i].req \in Requests
      BY <2>3, <2>4 DEF TrailIsTruthful
    <3>. QED
      BY <2>1, <2>5, <3>1 DEF Truthful
  <2>. QED
    BY <2>5, <2>6 DEF TrailIsTruthful
<1>5. NotifiedIsAudited'
  BY <1>2 DEF StoryInv, NotifiedIsAudited
<1>6. RunSeesItsTrigger'
  <2>1. \A i \in DOMAIN runs : runs[i] \in Run
    BY Elements DEF TypeInv, TypeOK, Run
  <2>2. \A i \in DOMAIN runs : runs[i].req \in Requests /\ HasRun(runs[i].req)
    BY <2>1 DEF Run, HasRun
  <2>3. \A i \in DOMAIN runs : Kept(runs[i].req) /\ stage[runs[i].req] \notin {"new", "read"}
    BY <1>1, <2>2, RunIsLate
  <2>4. RunSeesItsTrigger
    BY DEF StoryInv
  <2>5. \A i \in DOMAIN runs : LET q == runs[i].req
                              IN kind'[q] = kind[q] /\ target'[q] = target[q] /\ wrote'[q] = wrote[q]
    BY <2>3 DEF Kept
  <2>6. runs' = runs
    OBVIOUS
  <2>7. ASSUME NEW i \in DOMAIN runs
        PROVE  kind'[runs[i].req] = "sync" =>
                 runs[i].network.version[target'[runs[i].req]] >= wrote'[runs[i].req].version
    BY <2>4, <2>5 DEF RunSeesItsTrigger
  <2>. QED
    BY <2>6, <2>7 DEF RunSeesItsTrigger
<1>. QED
  BY <1>3, <1>4, <1>5, <1>6

\* Nothing about request r has changed but, maybe, the nodes around it.
Same(r) ==
    /\ stage'[r] = stage[r]
    /\ kind'[r] = kind[r]
    /\ target'[r] = target[r]
    /\ wrote'[r] = wrote[r]
    /\ snapshot'[r] = snapshot[r]
    /\ \A a \in Actions : Published(r, a)' <=> Published(r, a)
    /\ HasRun(r)' <=> HasRun(r)

LEMMA SameKeeps ==
    ASSUME TypeInv, StoryInv, [Next]_vars, NEW q \in Requests, Same(q)
    PROVE  Story(q)' /\ Earned(q)' /\ (stage'[q] = "answered" => Audited(q)')
<1>1. Story(q)'
  <2>1. Story(q)
    BY DEF StoryInv
  <2>. QED
    BY <2>1 DEF Story, Due, Same
<1>2. Earned(q)'
  <2>1. Earned(q)
    BY DEF StoryInv
  <2>2. Active(q)' <=> Active(q)
    BY DEF Active, Same
  <2>3. CASE Active(q) /\ kind[q] = "sync" /\ stage[q] # "read"
    <3>1. target[q] \in Codes /\ wrote[q] \in Write
      BY <2>3 DEF TypeInv, Loaded, Wrote, NodeKinds
    <3>2. version'[target[q]] >= version[target[q]]
      BY <3>1, VersionsGrow
    <3>3. version[target[q]] \in Nat /\ version'[target[q]] \in Nat
      BY <3>1, TypeInvNext DEF TypeInv, TypeOK
    <3>4. wrote[q].version \in Nat
      BY <3>1 DEF Write
    <3>. QED
      BY <2>1, <2>2, <2>3, <3>2, <3>3, <3>4 DEF Earned, Same
  <2>. QED
    BY <2>2, <2>3 DEF Earned, Same
<1>3. stage'[q] = "answered" => Audited(q)'
  <2>1. stage[q] = "answered" => Audited(q)
    BY DEF StoryInv, AnsweredIsAudited
  <2>. QED
    BY <2>1 DEF Audited, Same, Actions
<1>. QED
  BY <1>1, <1>2, <1>3

\* A quiet step of one request.
LEMMA QuietStep ==
    ASSUME TypeInv, StoryInv, [Next]_vars, UNCHANGED <<trail, runs, notifications>>,
           NEW r \in Requests,
           \A q \in Requests \ {r} : /\ stage'[q] = stage[q]
                                     /\ kind'[q] = kind[q]
                                     /\ target'[q] = target[q]
                                     /\ wrote'[q] = wrote[q]
                                     /\ snapshot'[q] = snapshot[q],
           Story(r)', Earned(r)', stage'[r] = "answered" => Audited(r)'
    PROVE  StoryInv'
<1>1. /\ \A q, a : Published(q, a)' <=> Published(q, a)
      /\ \A q : HasRun(q)' <=> HasRun(q)
  BY DEF Published, HasRun
<1>2. \A q \in Requests \ {r} : Same(q)
  BY <1>1 DEF Same
<1>3. \A q \in Requests : Story(q)' /\ Earned(q)' /\ (stage'[q] = "answered" => Audited(q)')
  BY <1>2, SameKeeps
<1>4. TrailIsTruthful' /\ NotifiedIsAudited' /\ RunSeesItsTrigger'
  BY QuietKeeps
<1>. QED
  BY <1>3, <1>4 DEF StoryInv, AnsweredIsAudited

LEMMA StoryReads ==
    ASSUME TypeInv, StoryInv, [Next]_vars, NEW r \in Requests,
           \/ \E n \in Nodes, p \in SyncPayloads : SyncRead(r, n, p)
           \/ \E n \in Codes, p \in NodePayloads : IngestRead(r, n, p)
           \/ \E k \in {"optimize", "simulate"} : StartRun(r, k)
    PROVE  StoryInv'
<1>1. /\ UNCHANGED <<trail, runs, notifications>>
      /\ stage[r] = "new"
      /\ \/ stage'[r] \in {"read", "rejected"}
         \/ stage'[r] = "loaded" /\ kind'[r] # "sync"
      /\ \A q \in Requests \ {r} : /\ stage'[q] = stage[q]
                                    /\ kind'[q] = kind[q]
                                    /\ target'[q] = target[q]
                                    /\ wrote'[q] = wrote[q]
                                    /\ snapshot'[q] = snapshot[q]
  BY DEF SyncRead, IngestRead, StartRun, Begin, Goto, TypeInv, TypeOK, db
<1>2. Story(r)'
  <2>1. /\ \A a \in Actions : ~Published(r, a)
        /\ ~HasRun(r)
    BY <1>1 DEF StoryInv, Story, Due, Drifting, Running
  <2>. QED
    BY <1>1, <2>1 DEF Story, Due, Published, HasRun, Drifting, Running
<1>3. Earned(r)' /\ stage'[r] # "answered"
  BY <1>1 DEF Earned, Active, Ended
<1>. QED
  BY <1>1, <1>2, <1>3, QuietStep

LEMMA StoryQuietSteps ==
    ASSUME TypeInv, StoryInv, [Next]_vars, NEW r \in Requests,
           CommitNode(r) \/ Refresh(r) \/ Evaluate(r) \/ LoadNetwork(r) \/ Fail(r)
    PROVE  StoryInv'
<1>1. /\ UNCHANGED <<trail, runs, notifications, kind, target>>
      /\ \A q \in Requests \ {r} : /\ stage'[q] = stage[q]
                                    /\ kind'[q] = kind[q]
                                    /\ target'[q] = target[q]
                                    /\ wrote'[q] = wrote[q]
                                    /\ snapshot'[q] = snapshot[q]
  BY DEF CommitNode, Refresh, Evaluate, LoadNetwork, Fail, Goto, TypeInv, TypeOK, db, locals
<1>2. /\ \A q, a : Published(q, a)' <=> Published(q, a)
      /\ \A q : HasRun(q)' <=> HasRun(q)
  BY <1>1 DEF Published, HasRun
<1>3. Story(r) /\ Earned(r) /\ Shape(r) /\ Loaded(r) /\ Wrote(r)
  BY DEF StoryInv, TypeInv
<1>4. \/ stage[r] = "read" /\ stage'[r] \in {"written", "failed"}
      \/ stage[r] = "written" /\ stage'[r] = "refreshed"
      \/ stage[r] = "synced" /\ stage'[r] \in {"drifted", "answered"}
      \/ stage[r] = "triggered" /\ stage'[r] = "loaded"
      \/ stage'[r] = "failed"
  BY DEF CommitNode, Refresh, Evaluate, LoadNetwork, Fail, Goto, TypeInv, TypeOK
<1>5. Story(r)'
  BY <1>1, <1>2, <1>3, <1>4 DEF Story, Due, Shape, Drifting, Running
<1>6. Earned(r)'
  <2>1. CASE CommitNode(r)
    <3>1. CASE stage'[r] = "failed"
      BY <3>1 DEF Earned, Active, Ended
    <3>2. CASE stage'[r] = "written"
      <4>1. target[r] \in Codes
        BY <1>3, <2>1 DEF CommitNode, Shape, Loaded, Active, Ended, Reading
      <4>2. /\ version \in [Codes -> Nat]
            /\ wrote \in [Requests -> Write \cup {None}]
            /\ stage[r] = "read" /\ stage \in [Requests -> Stages]
        BY <2>1 DEF CommitNode, TypeInv, TypeOK
      <4>3. version'[target[r]] = version[target[r]] + 1
            /\ wrote'[r].version = version[target[r]] + 1
        BY <2>1, <3>2, <4>1, <4>2 DEF CommitNode, Goto
      <4>. QED
        BY <1>1, <3>2, <4>1, <4>2, <4>3 DEF Earned, Running
    <3>. QED
      BY <1>4, <2>1, <3>1, <3>2 DEF CommitNode
  <2>2. CASE LoadNetwork(r)
    <3>1. snapshot'[r].version = version /\ UNCHANGED <<version, wrote>> /\ stage[r] = "triggered"
      BY <2>2 DEF LoadNetwork, TypeInv, TypeOK, db
    <3>. QED
      BY <1>1, <1>3, <3>1 DEF Earned, Active, Ended
  <2>3. CASE Refresh(r) \/ Evaluate(r)
    <3>1. UNCHANGED <<version, wrote, snapshot>> /\ stage[r] \in {"written", "synced"}
      BY <2>3 DEF Refresh, Evaluate, db
    <3>2. stage'[r] \notin Running
      BY <1>4, <3>1 DEF Running
    <3>. QED
      BY <1>1, <1>3, <3>1, <3>2 DEF Earned, Active, Ended
  <2>4. CASE Fail(r)
    <3>1. stage'[r] = "failed"
      BY <2>4 DEF Fail, Goto, TypeInv, TypeOK
    <3>. QED
      BY <3>1 DEF Earned, Active, Ended
  <2>. QED
    BY <2>1, <2>2, <2>3, <2>4
<1>7. ASSUME stage'[r] = "answered"
      PROVE  Audited(r)'
  <2>1. stage[r] = "synced" /\ UNCHANGED wrote
    BY <1>4, <1>7 DEF CommitNode, Refresh, Evaluate, LoadNetwork, Fail, Goto, locals
  <2>2. kind[r] = "sync" /\ wrote[r] # None
    BY <1>3, <2>1, ValuesAssumption DEF Shape, Wrote, Drifting, NodeKinds, Active, Ended
  <2>3. /\ Published(r, "TWIN_TELEMETRY_SYNC")
        /\ ~Published(r, "AUTO_REOPTIMIZE_TRIGGERED")
        /\ ~Published(r, "MILP_OPTIMIZATION_EXECUTED")
        /\ ~HasRun(r)
    BY <1>3, <2>1 DEF Story, Due, Drifting, Running, Actions
  <2>. QED
    BY <1>1, <1>2, <2>1, <2>2, <2>3 DEF Audited
<1>. QED
  BY <1>1, <1>5, <1>6, <1>7, QuietStep

LEMMA StoryRestart ==
    ASSUME TypeInv, StoryInv, [Next]_vars, Restart
    PROVE  StoryInv'
<1>1. UNCHANGED <<trail, runs, kind, target, wrote, snapshot>> /\ notifications' = <<>>
  BY DEF Restart, db, locals
<1>2. /\ \A q, a : Published(q, a)' <=> Published(q, a)
      /\ \A q : HasRun(q)' <=> HasRun(q)
  BY <1>1 DEF Published, HasRun
<1>3. ASSUME NEW q \in Requests
      PROVE  Story(q)' /\ Earned(q)' /\ (stage'[q] = "answered" => stage[q] = "answered")
  <2>1. CASE stage'[q] = "failed"
    BY <2>1 DEF Story, Earned, Active, Ended
  <2>2. CASE stage'[q] = stage[q]
    <3>1. Same(q)
      BY <1>1, <1>2, <2>2 DEF Same
    <3>. QED
      BY <2>2, <3>1, SameKeeps
  <2>. QED
    BY <2>1, <2>2 DEF Restart
<1>4. /\ \A q \in Requests : stage[q] = "answered" => Audited(q)'
      /\ TrailIsTruthful' /\ NotifiedIsAudited' /\ RunSeesItsTrigger'
  BY <1>1, QuietKeeps
<1>. QED
  BY <1>3, <1>4 DEF StoryInv, AnsweredIsAudited

-----------------------------------------------------------------------------
(* StoryInv is inductive: steps that publish or save a run.                *)

\* A request may publish what it has a reason for and has not published yet.
LEMMA StoryPublish ==
    ASSUME TypeInv, StoryInv, [Next]_vars, NEW r \in Requests,
           NEW action \in Actions, NEW details \in MaybeRow, NEW next \in Stages,
           Publish(r, action, details, next),
           UNCHANGED <<node, version, runs, locals, overlapped>>,
           ~Published(r, action),
           action \in {"TWIN_TELEMETRY_SYNC", "NODE_INGESTED", "EDGE_INGESTED"} =>
             wrote[r] # None,
           action = "AUTO_REOPTIMIZE_TRIGGERED" => Published(r, "TWIN_TELEMETRY_SYNC"),
           action \in {"MILP_OPTIMIZATION_EXECUTED", "SIMULATION_COMPLETED"} => HasRun(r)
    PROVE  /\ TrailIsTruthful'
           /\ NotifiedIsAudited'
           /\ RunSeesItsTrigger'
           /\ \A a : Published(r, a)' <=> (Published(r, a) \/ a = action)
           /\ \A q \in Requests \ {r} :
                Story(q)' /\ Earned(q)' /\ (stage'[q] = "answered" => Audited(q)')
<1> DEFINE e == [req |-> r, action |-> action, details |-> details]
<1>1. trail' = Append(trail, e) /\ e \in AuditRow /\ trail \in Seq(AuditRow)
  BY DEF Publish, TypeInv, TypeOK, AuditRow
<1>2. \A q, a : Published(q, a)' <=> (Published(q, a) \/ (r = q /\ action = a))
  BY <1>1, AppendPublishes
<1>3. UNCHANGED <<runs, kind, target, wrote, snapshot>> /\ \A q : HasRun(q)' <=> HasRun(q)
  BY DEF locals, HasRun
<1>4. TrailIsTruthful'
  <2>1. /\ DOMAIN trail' = DOMAIN trail \cup {Len(trail) + 1}
        /\ DOMAIN trail = 1 .. Len(trail) /\ Len(trail) \in Nat
        /\ \A i \in DOMAIN trail : trail'[i] = trail[i]
        /\ trail'[Len(trail) + 1] = e
    BY <1>1
  <2>2. ASSUME NEW i \in DOMAIN trail
        PROVE  Truthful(i)'
    <3>1. Truthful(i) /\ trail'[i] = trail[i]
      BY <2>1 DEF StoryInv, TrailIsTruthful
    <3>2. \A j \in 1 .. i - 1 : trail'[j] = trail[j]
      BY <2>1
    <3>3. \A j \in DOMAIN trail' :
            trail'[j].req = trail[i].req /\ trail'[j].action = trail[i].action => j = i
      <4>1. ~(trail[i].req = r /\ trail[i].action = action)
        BY DEF Published
      <4>. QED
        BY <2>1, <3>1, <4>1 DEF Truthful
    <3>. QED
      BY <1>3, <3>1, <3>2, <3>3 DEF Truthful
  <2>3. ASSUME NEW i \in Nat, i = Len(trail) + 1
        PROVE  Truthful(i)'
    <3>1. trail'[i].req = r /\ trail'[i].action = action
      BY <2>1, <2>3
    <3>2. action = "AUTO_REOPTIMIZE_TRIGGERED" =>
            \E j \in 1 .. i - 1 :
                trail'[j].req = r /\ trail'[j].action = "TWIN_TELEMETRY_SYNC"
      BY <2>1, <2>3 DEF Published
    <3>3. \A j \in DOMAIN trail' :
            trail'[j].req = r /\ trail'[j].action = action => j = i
      BY <2>1, <2>3 DEF Published
    <3>. QED
      BY <1>3, <3>1, <3>2, <3>3 DEF Truthful
  <2>. QED
    BY <2>1, <2>2, <2>3 DEF TrailIsTruthful
<1>5. NotifiedIsAudited'
  <2>1. CASE notifications' = notifications
    BY <1>2, <2>1 DEF StoryInv, NotifiedIsAudited
  <2>2. CASE notifications' = Append(notifications, [req |-> r, action |-> action])
    <3>1. notifications \in Seq([req : Requests, action : Actions])
      BY DEF TypeInv, TypeOK
    <3>2. /\ DOMAIN notifications' = DOMAIN notifications \cup {Len(notifications) + 1}
          /\ \A i \in DOMAIN notifications : notifications'[i] = notifications[i]
          /\ notifications'[Len(notifications) + 1] = [req |-> r, action |-> action]
      BY <2>2, <3>1
    <3>. QED
      BY <1>2, <3>2 DEF StoryInv, NotifiedIsAudited
  <2>. QED
    BY <2>1, <2>2 DEF Publish, Notified
<1>6. RunSeesItsTrigger'
  BY <1>3 DEF StoryInv, RunSeesItsTrigger
<1>7. ASSUME NEW q \in Requests \ {r}
      PROVE  Story(q)' /\ Earned(q)' /\ (stage'[q] = "answered" => Audited(q)')
  <2>1. stage'[q] = stage[q]
    BY DEF Publish, Goto, TypeInv, TypeOK
  <2>2. Same(q)
    BY <1>2, <1>3, <2>1 DEF Same
  <2>. QED
    BY <2>2, SameKeeps
<1>. QED
  BY <1>2, <1>4, <1>5, <1>6, <1>7

LEMMA StoryPublishNode ==
    ASSUME TypeInv, StoryInv, [Next]_vars, NEW r \in Requests, PublishNode(r)
    PROVE  StoryInv'
<1>1. /\ stage[r] = "refreshed" /\ Active(r) /\ kind[r] \in NodeKinds
      /\ UNCHANGED <<node, version, runs, locals, overlapped>>
  BY DEF PublishNode, Active, Ended, TypeInv, Shape, Reading
<1>2. wrote[r] \in Write /\ wrote[r] # None /\ seen[r] \in MaybeRow
  BY <1>1, ValuesAssumption DEF TypeInv, TypeOK, Wrote
<1>3. /\ \A a \in Actions : ~Published(r, a)
      /\ ~HasRun(r) /\ Earned(r)
  BY <1>1 DEF StoryInv, Story, Due, Drifting, Running
<1>4. PICK action \in {"TWIN_TELEMETRY_SYNC", "NODE_INGESTED", "EDGE_INGESTED"},
           next \in {"synced", "answered"} :
        /\ Publish(r, action, seen[r], next)
        /\ \/ kind[r] = "sync" /\ action = "TWIN_TELEMETRY_SYNC" /\ next = "synced"
           \/ kind[r] = "ingest" /\ action = "NODE_INGESTED" /\ next = "answered"
           \/ kind[r] = "edge" /\ action = "EDGE_INGESTED" /\ next = "answered"
  <2>1. CASE kind[r] = "sync"
    BY <2>1 DEF PublishNode
  <2>2. CASE kind[r] = "ingest"
    BY <2>2 DEF PublishNode
  <2>3. CASE kind[r] = "edge"
    BY <2>3 DEF PublishNode
  <2>. QED
    BY <1>1, <2>1, <2>2, <2>3 DEF NodeKinds
<1>5. /\ TrailIsTruthful' /\ NotifiedIsAudited' /\ RunSeesItsTrigger'
      /\ \A a : Published(r, a)' <=> (Published(r, a) \/ a = action)
      /\ \A q \in Requests \ {r} :
           Story(q)' /\ Earned(q)' /\ (stage'[q] = "answered" => Audited(q)')
  <2>1. action \in Actions /\ next \in Stages
    BY DEF Actions, Stages
  <2>. QED
    BY <1>1, <1>2, <1>3, <1>4, <2>1, StoryPublish
<1>6. stage'[r] \in {next, "failed"} /\ UNCHANGED <<version, kind, target, wrote, snapshot>>
      /\ (HasRun(r)' <=> HasRun(r))
  BY <1>1, <1>4 DEF Publish, Goto, TypeInv, TypeOK, locals, HasRun
<1>7. Story(r)' /\ Earned(r)' /\ (stage'[r] = "answered" => Audited(r)')
  <2>1. Story(r)'
    BY <1>3, <1>4, <1>5, <1>6 DEF Story, Due, Drifting, Running, Actions
  <2>2. Earned(r)'
    BY <1>1, <1>3, <1>4, <1>6 DEF Earned, Active, Ended, Running
  <2>3. stage'[r] = "answered" => Audited(r)'
    BY <1>2, <1>4, <1>5, <1>6 DEF Audited
  <2>. QED
    BY <2>1, <2>2, <2>3
<1>. QED
  BY <1>5, <1>7 DEF StoryInv, AnsweredIsAudited

LEMMA StoryPublishTrigger ==
    ASSUME TypeInv, StoryInv, [Next]_vars, NEW r \in Requests, PublishTrigger(r)
    PROVE  StoryInv'
<1> DEFINE action == "AUTO_REOPTIMIZE_TRIGGERED"
<1>1. /\ stage[r] = "drifted" /\ kind[r] = "sync"
      /\ UNCHANGED <<node, version, runs, locals, overlapped>>
      /\ Publish(r, action, seen[r], "triggered") /\ seen[r] \in MaybeRow
  BY DEF PublishTrigger, TypeInv, TypeOK, Shape, Drifting
<1>2. /\ \A a \in Actions : Published(r, a) <=> a = "TWIN_TELEMETRY_SYNC"
      /\ ~HasRun(r) /\ Earned(r)
  BY <1>1 DEF StoryInv, Story, Due, Drifting, Running
<1>3. /\ TrailIsTruthful' /\ NotifiedIsAudited' /\ RunSeesItsTrigger'
      /\ \A a : Published(r, a)' <=> (Published(r, a) \/ a = action)
      /\ \A q \in Requests \ {r} :
           Story(q)' /\ Earned(q)' /\ (stage'[q] = "answered" => Audited(q)')
  <2>1. /\ action \in Actions /\ "triggered" \in Stages
        /\ Published(r, "TWIN_TELEMETRY_SYNC") /\ ~Published(r, action)
    BY <1>2 DEF Actions, Stages
  <2>. QED
    BY <1>1, <2>1, StoryPublish
<1>4. stage'[r] \in {"triggered", "failed"} /\ UNCHANGED <<version, kind, target, wrote, snapshot>>
      /\ (HasRun(r)' <=> HasRun(r))
  BY <1>1 DEF Publish, Goto, TypeInv, TypeOK, locals, HasRun
<1>5. Story(r)' /\ Earned(r)' /\ stage'[r] # "answered"
  BY <1>1, <1>2, <1>3, <1>4 DEF Story, Due, Earned, Active, Ended, Drifting, Running
<1>. QED
  BY <1>3, <1>5 DEF StoryInv, AnsweredIsAudited

LEMMA StoryPublishRun ==
    ASSUME TypeInv, StoryInv, [Next]_vars, NEW r \in Requests, PublishRun(r)
    PROVE  StoryInv'
<1> DEFINE action == IF kind[r] = "simulate" THEN "SIMULATION_COMPLETED"
                                             ELSE "MILP_OPTIMIZATION_EXECUTED"
<1>1. /\ stage[r] = "saved" /\ kind[r] \in RunKinds
      /\ UNCHANGED <<node, version, runs, locals, overlapped>>
      /\ Publish(r, action, None, "answered")
  BY DEF PublishRun, TypeInv, Shape, Running
<1>2. HasRun(r) /\ \A a \in Actions : Published(r, a) <=> Due(r, a)
  BY <1>1 DEF StoryInv, Story
<1>3. kind[r] = "sync" => wrote[r] # None
  BY <1>1, ValuesAssumption DEF TypeInv, Wrote, NodeKinds, Active, Ended
<1>4. /\ TrailIsTruthful' /\ NotifiedIsAudited' /\ RunSeesItsTrigger'
      /\ \A a : Published(r, a)' <=> (Published(r, a) \/ a = action)
      /\ \A q \in Requests \ {r} :
           Story(q)' /\ Earned(q)' /\ (stage'[q] = "answered" => Audited(q)')
  <2>1. action \in {"MILP_OPTIMIZATION_EXECUTED", "SIMULATION_COMPLETED"}
    OBVIOUS
  <2>2. action \in Actions /\ "answered" \in Stages /\ None \in MaybeRow
    BY <2>1 DEF Actions, Stages, MaybeRow
  <2>3. ~Published(r, action)
    BY <1>2, <2>1, <2>2 DEF Due
  <2>. QED
    BY <1>1, <1>2, <2>1, <2>2, <2>3, StoryPublish
<1>5. stage'[r] \in {"answered", "failed"} /\ UNCHANGED <<kind, wrote>>
      /\ (HasRun(r)' <=> HasRun(r))
  BY <1>1 DEF Publish, Goto, TypeInv, TypeOK, locals, HasRun
<1>6. Story(r)' /\ Earned(r)'
  BY <1>5 DEF Story, Earned, Active, Ended
<1>7. Audited(r)'
  <2>1. kind[r] = "sync" => /\ Published(r, "TWIN_TELEMETRY_SYNC")
                            /\ Published(r, "AUTO_REOPTIMIZE_TRIGGERED")
    BY <1>1, <1>2 DEF Due, Running, Actions
  <2>. QED
    BY <1>1, <1>2, <1>3, <1>4, <1>5, <2>1 DEF Audited, RunKinds
<1>. QED
  BY <1>4, <1>6, <1>7 DEF StoryInv, AnsweredIsAudited

LEMMA StorySaveRun ==
    ASSUME TypeInv, StoryInv, [Next]_vars, NEW r \in Requests, SaveRun(r)
    PROVE  StoryInv'
<1> DEFINE e == [req |-> r, network |-> snapshot[r]]
<1>1. /\ stage[r] = "loaded" /\ stage' = [stage EXCEPT ![r] = "saved"]
      /\ stage \in [Requests -> Stages]
      /\ UNCHANGED <<version, trail, notifications, kind, target, wrote, snapshot>>
      /\ runs' = Append(runs, e)
  BY DEF SaveRun, Goto, TypeInv, TypeOK, locals
<1>2. e \in Run /\ runs \in Seq(Run)
  BY <1>1 DEF TypeInv, TypeOK, Shape, Running, Run
<1>3. /\ \A q, a : Published(q, a)' <=> Published(q, a)
      /\ \A q : HasRun(q)' <=> (HasRun(q) \/ q = r)
  <2>1. \A q : HasRun(q)' <=> (HasRun(q) \/ q = r)
    BY <1>1, <1>2, AppendRuns
  <2>. QED
    BY <1>1, <2>1 DEF Published
<1>4. \A q \in Requests \ {r} : Story(q)' /\ Earned(q)' /\ (stage'[q] = "answered" => Audited(q)')
  <2>1. \A q \in Requests \ {r} : Same(q)
    BY <1>1, <1>3 DEF Same
  <2>. QED
    BY <2>1, SameKeeps
<1>5. Story(r)' /\ Earned(r)' /\ stage'[r] # "answered"
  BY <1>1, <1>3 DEF StoryInv, Story, Due, Earned, Active, Ended, Drifting, Running
<1>6. TrailIsTruthful'
  <2>1. ASSUME NEW i \in DOMAIN trail
        PROVE  Truthful(i)'
    <3>1. Truthful(i)
      BY DEF StoryInv, TrailIsTruthful
    <3>. QED
      BY <1>1, <1>3, <3>1 DEF Truthful
  <2>. QED
    BY <1>1, <2>1 DEF TrailIsTruthful
<1>7. NotifiedIsAudited'
  BY <1>1, <1>3 DEF StoryInv, NotifiedIsAudited
<1>8. RunSeesItsTrigger'
  <2>1. /\ DOMAIN runs' = DOMAIN runs \cup {Len(runs) + 1}
        /\ \A i \in DOMAIN runs : runs'[i] = runs[i]
        /\ runs'[Len(runs) + 1] = e
    BY <1>1, <1>2
  <2>2. kind[r] = "sync" => snapshot[r].version[target[r]] >= wrote[r].version
    BY <1>1 DEF StoryInv, Earned, Active, Ended, Running
  <2>. QED
    BY <1>1, <2>1, <2>2 DEF StoryInv, RunSeesItsTrigger
<1>. QED
  BY <1>4, <1>5, <1>6, <1>7, <1>8 DEF StoryInv, AnsweredIsAudited

LEMMA StoryNext == TypeInv /\ StoryInv /\ [Next]_vars => StoryInv'
<1> SUFFICES ASSUME TypeInv, StoryInv, [Next]_vars
             PROVE  StoryInv'
  OBVIOUS
<1>1. CASE UNCHANGED vars
  <2>1. \A q \in Requests : Same(q)
    BY <1>1 DEF vars, Same, Published, HasRun
  <2>2. UNCHANGED <<trail, runs, notifications>>
    BY <1>1 DEF vars
  <2>. QED
    BY <2>1, <2>2, SameKeeps, QuietKeeps DEF StoryInv, AnsweredIsAudited
<1>. QED
  BY <1>1, StoryReads, StoryQuietSteps, StoryRestart, StoryPublishNode, StoryPublishTrigger,
     StoryPublishRun, StorySaveRun DEF Next

-----------------------------------------------------------------------------
(* Drift as the code computes it is drift as the reference states it.      *)

LEMMA Division ==
    ASSUME NEW a \in Nat, NEW b \in Nat \ {0}, NEW q \in Nat
    PROVE  a \div b > q <=> a >= (q + 1) * b
OBVIOUS

LEMMA Doubled ==
    ASSUME NEW t \in Nat, NEW p \in Nat
    PROVE  (t + 1) * (2 * p) = (2 * t + 1) * p + p
OBVIOUS

\* A percentage that is rounded half up exceeds the threshold when the exact
\* one reaches the threshold and a half.
LEMMA RoundedExceeds ==
    ASSUME NEW gap \in Nat, NEW p \in Nat \ {0}, NEW t \in Nat
    PROVE  (2 * 10000 * gap + p) \div (2 * p) > t <=> 20000 * gap >= (2 * t + 1) * p
<1>1. PICK a \in Nat, b \in Nat \ {0}, c \in Nat :
        a = 2 * 10000 * gap + p /\ b = 2 * p /\ c = (2 * t + 1) * p
  OBVIOUS
<1>2. a \div b > t <=> a >= (t + 1) * b
  BY Division
<1>3. (t + 1) * b = c + p
  BY <1>1, Doubled
<1>4. a >= c + p <=> 20000 * gap >= c
  BY <1>1
<1>. QED
  BY <1>1, <1>2, <1>3, <1>4

LEMMA DriftIsMove ==
    ASSUME NEW before \in NodeRow, NEW after \in NodeRow
    PROVE  Drifted(before, after) <=> MovedFar(before, after)
<1>1. ASSUME NEW field \in Fields
      PROVE  Delta(field, before, after) > Threshold <=>
               IF before[field] = 0
               THEN after[field] # 0 /\ Threshold < 10000
               ELSE 20000 * Abs(after[field] - before[field]) >= (2 * Threshold + 1) * before[field]
  <2> DEFINE p == before[field]
             n == after[field]
             gap == Abs(n - p)
  <2>1. p \in Nat /\ n \in Nat /\ gap \in Nat /\ Threshold \in Nat
    BY ThresholdAssumption DEF NodeRow, Abs
  <2>2. CASE p = 0
    BY <2>1, <2>2 DEF Delta, compute_relative_delta_pct
  <2>3. CASE p # 0
    <3>1. Delta(field, before, after) = (2 * 10000 * gap + p) \div (2 * p)
      BY <2>1, <2>3 DEF Delta, compute_relative_delta_pct
    <3>2. (2 * 10000 * gap + p) \div (2 * p) > Threshold <=>
            20000 * gap >= (2 * Threshold + 1) * p
      BY <2>1, <2>3, RoundedExceeds
    <3>. QED
      BY <2>3, <3>1, <3>2
  <2>. QED
    BY <2>2, <2>3
<1>. QED
  BY <1>1 DEF Drifted, MovedFar

-----------------------------------------------------------------------------
(* SerialInv is inductive.                                                 *)

LEMMA SerialInit == Init => SerialInv
BY DEF Init, SerialInv, Alone, SyncRowsExact, Exact, Active, Ended, Running

\* A request that is not running keeps what its answer said.
LEMMA RestingKeeps ==
    ASSUME TypeInv, StoryInv, NEW q \in Requests, Exact(q), ~Active(q), Same(q)
    PROVE  Exact(q)'
BY DEF Exact, Same, Active, Ended, Running

\* Rows that are in the trail already stay exact.
LEMMA SyncRowsKept ==
    ASSUME TypeInv, StoryInv, [Next]_vars, SyncRowsExact
    PROVE  \A i \in DOMAIN trail :
             trail[i].action = "TWIN_TELEMETRY_SYNC" =>
                 trail[i].details = wrote'[trail[i].req].after
<1> SUFFICES ASSUME NEW i \in DOMAIN trail, trail[i].action = "TWIN_TELEMETRY_SYNC"
             PROVE  trail[i].details = wrote'[trail[i].req].after
  OBVIOUS
<1> DEFINE q == trail[i].req
<1>1. q \in Requests
  <2>1. trail[i] \in AuditRow
    BY Elements DEF TypeInv, TypeOK, AuditRow
  <2>. QED
    BY <2>1 DEF AuditRow
<1>2. Published(q, "TWIN_TELEMETRY_SYNC")
  BY DEF Published
<1>3. stage[q] \notin {"new", "read"}
  BY <1>1, <1>2 DEF StoryInv, Story, Due, Drifting, Running, Actions
<1>4. wrote'[q] = wrote[q]
  BY <1>1, <1>3, StepKeeps DEF Kept
<1>. QED
  BY <1>4 DEF SyncRowsExact

LEMMA SerialReads ==
    ASSUME TypeInv, StoryInv, SerialInv, [Next]_vars, ~overlapped', NEW r \in Requests,
           \/ \E n \in Nodes, p \in SyncPayloads : SyncRead(r, n, p)
           \/ \E n \in Codes, p \in NodePayloads : IngestRead(r, n, p)
           \/ \E k \in {"optimize", "simulate"} : StartRun(r, k)
    PROVE  SerialInv'
<1>1. /\ UNCHANGED <<trail, runs, node>>
      /\ \/ stage'[r] = "read" /\ baseline'[r] = node[target'[r]]
         \/ stage'[r] = "rejected"
         \/ stage'[r] = "loaded" /\ kind'[r] # "sync"
      /\ \A q \in Requests \ {r} : /\ stage'[q] = stage[q]
                                    /\ kind'[q] = kind[q]
                                    /\ target'[q] = target[q]
                                    /\ wrote'[q] = wrote[q]
                                    /\ snapshot'[q] = snapshot[q]
  BY DEF SyncRead, IngestRead, StartRun, Begin, Goto, TypeInv, TypeOK, db
<1>2. ~overlapped /\ \A q \in Requests : ~Active(q)
  BY DEF SyncRead, IngestRead, StartRun, Begin
<1>3. SyncRowsExact /\ \A q \in Requests : Exact(q)
  BY <1>2 DEF SerialInv
<1>4. \A q \in Requests \ {r} : Same(q)
  BY <1>1 DEF Same, Published, HasRun
<1>5. \A q \in Requests \ {r} : Exact(q)' /\ ~Active(q)'
  <2>1. \A q \in Requests \ {r} : Exact(q)'
    BY <1>2, <1>3, <1>4, RestingKeeps
  <2>. QED
    BY <1>1, <1>2, <2>1 DEF Active
<1>6. Exact(r)'
  BY <1>1 DEF Exact, Active, Ended, Running
<1>7. SyncRowsExact'
  BY <1>1, <1>3, SyncRowsKept DEF SyncRowsExact
<1>. QED
  BY <1>5, <1>6, <1>7 DEF SerialInv, Alone

\* What is left to show of a step of the only running request.
LEMMA SerialStep ==
    ASSUME TypeInv, StoryInv, SerialInv, ~overlapped, NEW r \in Requests, Active(r),
           \A q \in Requests \ {r} : Same(q),
           SyncRowsExact', Exact(r)'
    PROVE  SerialInv'
<1>1. \A q \in Requests \ {r} : ~Active(q) /\ Exact(q)
  BY DEF SerialInv, Alone
<1>2. \A q \in Requests \ {r} : Exact(q)' /\ ~Active(q)'
  <2>1. \A q \in Requests \ {r} : Exact(q)'
    BY <1>1, RestingKeeps
  <2>. QED
    BY <1>1, <2>1 DEF Active, Same
<1>. QED
  BY <1>2 DEF SerialInv, Alone

LEMMA SerialQuietSteps ==
    ASSUME TypeInv, StoryInv, SerialInv, [Next]_vars, ~overlapped, NEW r \in Requests,
           CommitNode(r) \/ Refresh(r) \/ Evaluate(r) \/ LoadNetwork(r) \/ Fail(r)
    PROVE  SerialInv'
<1>1. /\ UNCHANGED <<trail, runs, kind, target, baseline>>
      /\ Active(r)
      /\ \A q \in Requests \ {r} : /\ stage'[q] = stage[q]
                                    /\ kind'[q] = kind[q]
                                    /\ target'[q] = target[q]
                                    /\ wrote'[q] = wrote[q]
                                    /\ snapshot'[q] = snapshot[q]
  BY DEF CommitNode, Refresh, Evaluate, LoadNetwork, Fail, Active, Ended, Goto, TypeInv, TypeOK,
     db, locals
<1>2. \A q \in Requests \ {r} : Same(q)
  BY <1>1 DEF Same, Published, HasRun
<1>3. SyncRowsExact'
  BY <1>1, SyncRowsKept DEF SerialInv, SyncRowsExact
<1>4. Exact(r) /\ Story(r) /\ Shape(r) /\ Loaded(r) /\ stage \in [Requests -> Stages]
      /\ (HasRun(r)' <=> HasRun(r))
  BY <1>1 DEF SerialInv, StoryInv, TypeInv, TypeOK, HasRun
<1>5. Exact(r)'
  <2>1. CASE CommitNode(r)
    <3>1. CASE stage'[r] = "failed"
      BY <3>1 DEF Exact, Active, Ended, Running
    <3>2. CASE stage'[r] = "written"
      <4>1. target[r] \in Codes /\ stage[r] = "read"
        BY <1>4, <2>1 DEF CommitNode, Shape, Loaded, Active, Ended, Reading
      <4>2. /\ node \in [Codes -> NodeRow \cup {Absent}]
            /\ wrote \in [Requests -> Write \cup {None}]
        BY DEF TypeInv, TypeOK
      <4>3. node'[target[r]] = wrote'[r].after /\ wrote'[r].before = node[target[r]]
        BY <1>4, <2>1, <3>2, <4>1, <4>2 DEF CommitNode, Goto
      <4>. QED
        BY <1>1, <1>4, <3>2, <4>1, <4>3 DEF Exact, Running
    <3>. QED
      BY <1>4, <2>1, <3>1, <3>2 DEF CommitNode, Goto
  <2>2. CASE Refresh(r)
    <3>1. /\ stage[r] = "written" /\ stage'[r] = "refreshed" /\ UNCHANGED <<node, wrote>>
          /\ seen'[r] = node[target[r]]
      BY <2>2 DEF Refresh, Goto, TypeInv, TypeOK, db
    <3>. QED
      BY <1>1, <1>4, <3>1 DEF Exact, Active, Ended, Running
  <2>3. CASE Evaluate(r)
    <3>1. /\ stage[r] = "synced" /\ UNCHANGED <<node, wrote>>
          /\ stage'[r] = IF Drifted(baseline[r], node[target[r]]) THEN "drifted" ELSE "answered"
      BY <1>4, <2>3 DEF Evaluate, Goto, db
    <3>2. /\ kind[r] = "sync" /\ ~HasRun(r)
          /\ node[target[r]] = wrote[r].after /\ wrote[r].before = baseline[r]
      BY <1>1, <1>4, <3>1 DEF Shape, Story, Drifting, Exact
    <3>. QED
      BY <1>1, <1>4, <3>1, <3>2 DEF Exact, Active, Ended, Running
  <2>4. CASE LoadNetwork(r)
    <3>1. stage[r] = "triggered" /\ stage'[r] = "loaded" /\ UNCHANGED <<node, wrote>>
      BY <1>4, <2>4 DEF LoadNetwork, Goto, db
    <3>. QED
      BY <1>1, <1>4, <3>1 DEF Exact, Active, Ended, Running
  <2>5. CASE Fail(r)
    <3>1. stage'[r] = "failed"
      BY <1>4, <2>5 DEF Fail, Goto
    <3>. QED
      BY <3>1 DEF Exact, Active, Ended, Running
  <2>. QED
    BY <2>1, <2>2, <2>3, <2>4, <2>5
<1>. QED
  BY <1>1, <1>2, <1>3, <1>5, SerialStep

\* A row of a request changes nothing about the others.
LEMMA PublishSame ==
    ASSUME TypeInv, NEW r \in Requests, NEW action \in Actions, NEW details \in MaybeRow, NEW next,
           Publish(r, action, details, next), UNCHANGED <<runs, locals>>
    PROVE  \A q \in Requests \ {r} : Same(q)
<1> DEFINE e == [req |-> r, action |-> action, details |-> details]
<1>1. trail' = Append(trail, e) /\ e \in AuditRow /\ trail \in Seq(AuditRow)
  BY DEF Publish, TypeInv, TypeOK, AuditRow
<1>2. \A q, a : Published(q, a)' <=> (Published(q, a) \/ (r = q /\ action = a))
  BY <1>1, AppendPublishes
<1>3. \A q \in Requests \ {r} : stage'[q] = stage[q]
  BY DEF Publish, Goto, TypeInv, TypeOK
<1>. QED
  BY <1>2, <1>3 DEF Same, HasRun, locals

LEMMA SerialPublishes ==
    ASSUME TypeInv, StoryInv, SerialInv, [Next]_vars, ~overlapped, NEW r \in Requests,
           PublishNode(r) \/ PublishTrigger(r) \/ PublishRun(r)
    PROVE  SerialInv'
<1>1. PICK action \in Actions, details \in MaybeRow, next \in Stages :
        /\ Publish(r, action, details, next)
        /\ \/ /\ stage[r] = "refreshed" /\ kind[r] = "sync" /\ next = "synced"
              /\ action = "TWIN_TELEMETRY_SYNC" /\ details = seen[r]
           \/ /\ stage[r] = "refreshed" /\ kind[r] # "sync" /\ next = "answered"
              /\ action # "TWIN_TELEMETRY_SYNC"
           \/ /\ stage[r] = "drifted" /\ next = "triggered"
              /\ action # "TWIN_TELEMETRY_SYNC"
           \/ /\ stage[r] = "saved" /\ next = "answered"
              /\ action # "TWIN_TELEMETRY_SYNC"
  <2>1. seen[r] \in MaybeRow /\ None \in MaybeRow
    BY DEF TypeInv, TypeOK, MaybeRow
  <2>2. CASE PublishNode(r)
    BY <2>1, <2>2 DEF PublishNode, Actions, Stages
  <2>3. CASE PublishTrigger(r)
    BY <2>1, <2>3 DEF PublishTrigger, Actions, Stages
  <2>4. CASE PublishRun(r)
    BY <2>1, <2>4 DEF PublishRun, Actions, Stages
  <2>. QED
    BY <2>2, <2>3, <2>4
<1>2. UNCHANGED <<node, runs, locals>> /\ Active(r)
  BY DEF PublishNode, PublishTrigger, PublishRun, Active, Ended
<1>3. \A q \in Requests \ {r} : Same(q)
  BY <1>1, <1>2, PublishSame
<1>4. Exact(r) /\ Story(r) /\ Shape(r) /\ SyncRowsExact
  BY DEF SerialInv, StoryInv, TypeInv
<1>5. SyncRowsExact'
  <2>1. trail \in Seq(AuditRow)
    BY DEF TypeInv, TypeOK, AuditRow
  <2>2. trail' = Append(trail, [req |-> r, action |-> action, details |-> details])
    BY <1>1 DEF Publish
  <2>3. /\ DOMAIN trail' = DOMAIN trail \cup {Len(trail) + 1}
        /\ \A i \in DOMAIN trail : trail'[i] = trail[i]
        /\ trail'[Len(trail) + 1] = [req |-> r, action |-> action, details |-> details]
    BY <2>1, <2>2
  <2>4. action = "TWIN_TELEMETRY_SYNC" => details = wrote'[r].after
    BY <1>1, <1>2, <1>4 DEF Exact, locals
  <2>. QED
    BY <1>4, <2>3, <2>4, SyncRowsKept DEF SyncRowsExact
<1>6. Exact(r)'
  <2>1. UNCHANGED <<kind, target, baseline, seen, wrote>> /\ (HasRun(r)' <=> HasRun(r))
    BY <1>2 DEF locals, HasRun
  <2>2. stage'[r] = next \/ stage'[r] = "failed"
    BY <1>1 DEF Publish, Goto, TypeInv, TypeOK
  <2>3. CASE stage'[r] = "failed"
    BY <2>3 DEF Exact, Active, Ended, Running
  <2>4. CASE stage'[r] = next /\ next = "answered" /\ stage[r] = "saved"
    BY <1>4, <2>1, <2>4 DEF Exact, Story, Active, Ended, Running
  <2>5. CASE stage'[r] = next /\ stage[r] # "saved"
    BY <1>1, <1>2, <1>4, <2>1, <2>5 DEF Exact, Active, Ended, Running
  <2>. QED
    BY <1>1, <2>2, <2>3, <2>4, <2>5
<1>. QED
  BY <1>2, <1>3, <1>5, <1>6, SerialStep

LEMMA SerialSaveRun ==
    ASSUME TypeInv, StoryInv, SerialInv, [Next]_vars, ~overlapped, NEW r \in Requests, SaveRun(r)
    PROVE  SerialInv'
<1>1. /\ stage[r] = "loaded" /\ stage'[r] = "saved" /\ Active(r)
      /\ \A q \in Requests \ {r} : stage'[q] = stage[q]
      /\ UNCHANGED <<node, trail, kind, target, baseline, seen, wrote, snapshot>>
      /\ runs' = Append(runs, [req |-> r, network |-> snapshot[r]])
  BY DEF SaveRun, Goto, TypeInv, TypeOK, Active, Ended, locals
<1>2. \A q \in Requests \ {r} : Same(q)
  <2>1. [req |-> r, network |-> snapshot[r]] \in Run /\ runs \in Seq(Run)
    BY <1>1 DEF TypeInv, TypeOK, Shape, Running, Run
  <2>2. \A q \in Requests \ {r} : HasRun(q)' <=> HasRun(q)
    BY <1>1, <2>1, AppendRuns
  <2>. QED
    BY <1>1, <2>2 DEF Same, Published
<1>3. SyncRowsExact'
  BY <1>1, SyncRowsKept DEF SerialInv, SyncRowsExact
<1>4. Exact(r)'
  <2>1. Exact(r)
    BY DEF SerialInv
  <2>. QED
    BY <1>1, <2>1 DEF Exact, Active, Ended, Running
<1>. QED
  BY <1>1, <1>2, <1>3, <1>4, SerialStep

LEMMA SerialRestart ==
    ASSUME TypeInv, StoryInv, SerialInv, [Next]_vars, ~overlapped, Restart
    PROVE  SerialInv'
<1>1. /\ UNCHANGED <<trail, runs, kind, target, wrote, snapshot>>
      /\ \A q \in Requests : stage'[q] = "failed" \/ (stage'[q] = stage[q] /\ ~Active(q))
  BY DEF Restart, db, locals
<1>2. ASSUME NEW q \in Requests
      PROVE  Exact(q)' /\ ~Active(q)'
  <2>1. CASE stage'[q] = "failed"
    BY <2>1 DEF Exact, Active, Ended, Running
  <2>2. CASE stage'[q] = stage[q] /\ ~Active(q)
    <3>1. Same(q) /\ Exact(q)
      BY <1>1, <2>2 DEF Same, Published, HasRun, SerialInv
    <3>2. ~Active(q)'
      BY <2>2 DEF Active
    <3>. QED
      BY <2>2, <3>1, <3>2, RestingKeeps
  <2>. QED
    BY <1>1, <2>1, <2>2
<1>3. SyncRowsExact'
  BY <1>1, SyncRowsKept DEF SerialInv, SyncRowsExact
<1>. QED
  BY <1>2, <1>3 DEF SerialInv, Alone

LEMMA SerialNext == TypeInv /\ StoryInv /\ SerialInv /\ [Next]_vars => SerialInv'
<1> SUFFICES ASSUME TypeInv, StoryInv, SerialInv, [Next]_vars, ~overlapped'
             PROVE  SerialInv'
  BY DEF SerialInv
<1>1. ~overlapped
  BY DEF Next, vars, SyncRead, IngestRead, StartRun, Begin, CommitNode, Refresh, PublishNode,
     Evaluate, PublishTrigger, LoadNetwork, SaveRun, PublishRun, Fail, Restart
<1>2. CASE UNCHANGED vars
  <2>1. UNCHANGED vars
    BY <1>2
  <2>. QED
    BY <1>1, <2>1 DEF vars, SerialInv, Alone, SyncRowsExact, Exact, HasRun, Active
<1>. QED
  BY <1>1, <1>2, SerialReads, SerialQuietSteps, SerialPublishes, SerialSaveRun, SerialRestart
     DEF Next

-----------------------------------------------------------------------------

Inv == TypeInv /\ StoryInv /\ SerialInv

LEMMA Invariance == Spec => []Inv
<1>1. Init => Inv
  BY TypeInvInit, StoryInit, SerialInit DEF Inv
<1>2. Inv /\ [Next]_vars => Inv'
  BY TypeInvNext, StoryNext, SerialNext DEF Inv
<1>. QED
  BY <1>1, <1>2, PTL DEF Spec

\* Every value a request, the database or the trail holds has its type.
THEOREM TypeCorrect == Spec => []TypeOK
<1>1. Inv => TypeOK
  BY DEF Inv, TypeInv
<1>. QED
  BY <1>1, Invariance, PTL

\* An answered request left its change, its run and a row for each behind.
THEOREM AnsweredRequestsAudited == Spec => []AnsweredIsAudited
<1>1. Inv => AnsweredIsAudited
  BY DEF Inv, StoryInv
<1>. QED
  BY <1>1, Invariance, PTL

\* No row of the audit trail claims what did not happen, or says it twice.
THEOREM TrailTellsTheTruth == Spec => []TrailIsTruthful
<1>1. Inv => TrailIsTruthful
  BY DEF Inv, StoryInv
<1>. QED
  BY <1>1, Invariance, PTL

\* Every notification shown has its audit row.
THEOREM NotificationsAudited == Spec => []NotifiedIsAudited
<1>1. Inv => NotifiedIsAudited
  BY DEF Inv, StoryInv
<1>. QED
  BY <1>1, Invariance, PTL

\* An automatic re-optimisation has loaded the write that triggered it.
THEOREM RunsSeeTheirTrigger == Spec => []RunSeesItsTrigger
<1>1. Inv => RunSeesItsTrigger
  BY DEF Inv, StoryInv
<1>. QED
  BY <1>1, Invariance, PTL

\* Without overlapping requests a sync is re-optimised exactly when its own
\* write moved a column by more than the threshold.
THEOREM SerialSyncsExact == Spec => []SerialSyncIsExact
<1>1. Inv => SerialSyncIsExact
  <2> SUFFICES ASSUME Inv, ~overlapped
               PROVE  SerialSyncIsExact
    BY DEF SerialSyncIsExact
  <2>1. SyncRowsExact /\ \A r \in Requests : Exact(r)
    BY DEF Inv, SerialInv
  <2>2. ASSUME NEW r \in Requests, kind[r] = "sync", stage[r] = "answered"
        PROVE  WroteLargeDrift(r) <=> HasRun(r)
    <3>1. wrote[r] \in Write /\ wrote[r] # None /\ wrote[r].before \in NodeRow
      BY <2>2, ValuesAssumption DEF Inv, TypeInv, Wrote, NodeKinds
    <3>2. wrote[r].after \in NodeRow
      BY <3>1 DEF Write
    <3>3. Drifted(wrote[r].before, wrote[r].after) <=> MovedFar(wrote[r].before, wrote[r].after)
      BY <3>1, <3>2, DriftIsMove
    <3>. QED
      BY <2>1, <2>2, <3>1, <3>3 DEF Exact, WroteLargeDrift
  <2>. QED
    BY <2>1, <2>2 DEF SerialSyncIsExact, SyncRowsExact
<1>. QED
  BY <1>1, Invariance, PTL

\* A column of an existing row only changes to what a request was sent for it.
THEOREM SentColumnsOnly == Spec => OnlySentColumnsChange
<1>1. ASSUME Inv, [Next]_vars, NEW n \in Codes, NEW field \in Fields,
             node[n] # Absent, node'[n][field] # node[n][field]
      PROVE  \E r \in Requests : /\ stage[r] = "read" /\ stage'[r] = "written"
                                 /\ target[r] = n
                                 /\ payload[r][field] = node'[n][field]
  <2>1. PICK r \in Requests : CommitNode(r)
    BY <1>1 DEF Next, vars, SyncRead, IngestRead, StartRun, Refresh, PublishNode, Evaluate,
       PublishTrigger, LoadNetwork, SaveRun, PublishRun, Fail, Restart, db
  <2>2. /\ stage[r] = "read" /\ stage' = [stage EXCEPT ![r] = "written"]
        /\ baseline[r] = Absent => node[target[r]] = Absent
        /\ node' = [node EXCEPT ![target[r]] =
              IF baseline[r] = Absent THEN payload[r]
              ELSE Updated(node[target[r]], baseline[r], payload[r])]
    BY <1>1, <2>1 DEF CommitNode, Goto
  <2>3. /\ stage \in [Requests -> Stages]
        /\ node \in [Codes -> NodeRow \cup {Absent}]
    BY <1>1 DEF Inv, TypeInv, TypeOK
  <2>4. target[r] = n
    BY <1>1, <2>2, <2>3
  <2>5. node'[n] = Updated(node[n], baseline[r], payload[r])
    BY <1>1, <2>2, <2>3, <2>4
  <2>6. payload[r][field] = node'[n][field]
    BY <1>1, <2>5 DEF Updated
  <2>. QED
    BY <2>2, <2>3, <2>4, <2>6
<1>2. Inv /\ [Next]_vars =>
        [\A n \in Codes, field \in Fields :
           node[n] # Absent /\ node'[n][field] # node[n][field] =>
               \E r \in Requests :
                   /\ stage[r] = "read" /\ stage'[r] = "written"
                   /\ target[r] = n
                   /\ payload[r][field] = node'[n][field]]_vars
  BY <1>1
<1>. QED
  BY <1>2, Invariance, PTL DEF Spec, OnlySentColumnsChange
=============================================================================
