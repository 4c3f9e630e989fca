----------------------------- MODULE FeedsProofs -----------------------------
(***************************************************************************)
(* Proofs about Feeds, for every finite set of messages, every set of      *)
(* alerts and every number of lines: what the counters of GET /mqtt/status *)
(* add up to, and that nothing is posted twice.  And about Traffic, which  *)
(* Feeds runs beside the api: for every fleet, geofence, road and pace,    *)
(* what becomes of the readings that the generator posts.                  *)
(***************************************************************************)
EXTENDS Feeds, FiniteSetTheorems, TLAPS

Places == Counters \cup {"broker", "scheduled", "ingesting", "ignored", "raised", "gone"}

\* The messages that are at a place.
At(place) == {m \in Messages : msgs[m] = place}

\* Those the process has received.
Mine == {m \in Messages : msgs[m] \notin {"broker", "gone"}}

\* A counter holds the number of messages that ended under its name.
CountInv ==
    /\ msgs \in [Messages -> Places]
    /\ stats \in [Counters \cup {"received"} -> Nat]
    /\ stats["received"] = Cardinality(Mine)
    /\ \A c \in Counters : stats[c] = Cardinality(At(c))

\* What becomes of a message follows from its topic and its payload.
FateInv ==
    \A m \in Messages :
        /\ msgs[m] \in {"ingesting", "ingested", "ingest_errors"} =>
              Topic[m] # "status" /\ Body[m] = "valid"
        /\ msgs[m] \in {"rejected_parse", "rejected_validation"} =>
              Topic[m] # "status" /\ Body[m] # "not an object"
        /\ msgs[m] = "ignored" => Topic[m] = "status"
        /\ msgs[m] = "raised" => Body[m] = "not an object"
        /\ msgs[m] = "ingested" /\ Topic[m] = "telemetry" => m \in stored

\* A later line may stop the pass that reads this one.
Exposed(l) == \E k \in Lines : k > l /\ Shape[k] # "good"

\* An alert with an id that was posted is seen, and what was seen was dealt with.
SeenInv ==
    /\ posted \in [Alerts \cup Lines -> 0..2]
    /\ \A a \in Alerts : Shape[a] # "no id" =>
          posted[a] \in {0, 1} /\ (a \notin seen => posted[a] = 0)
    /\ seen \subseteq Alerts
    /\ \A a \in seen : posted[a] > 0 \/ a \in failed \/ Shape[a] = "no agent"

\* A line that was posted lies before the offset and is in no batch any more,
\* unless a later line may stop the reader; the offset is where a pass ended.
LineInv ==
    /\ offset \in Nat /\ size \in Nat
    /\ offset = 0 \/ offset \in cuts
    /\ batch \subseteq Lines
    /\ \A l \in Lines : ~Exposed(l) =>
          /\ posted[l] \in {0, 1}
          /\ l \in batch => 2 * l <= offset
          /\ l \in batch \/ 2 * l > offset => posted[l] = 0
    /\ \A l \in Lines : 2 * l <= offset =>
          posted[l] > 0 \/ l \in batch \/ l \in failed \/ (2 * l - 1) \in cuts

PostInv == SeenInv /\ LineInv

Inv == CountInv /\ FateInv /\ PostInv

-----------------------------------------------------------------------------
(* Counting.                                                               *)

\* What the set that holds one more message counts.
LEMMA OneMore ==
  ASSUME NEW S, NEW x, IsFiniteSet(S), x \notin S
  PROVE  Cardinality(S \cup {x}) = Cardinality(S) + 1
  BY FS_AddElement

LEMMA AtFinite ==
  /\ \A place : IsFiniteSet(At(place)) /\ Cardinality(At(place)) \in Nat
  /\ IsFiniteSet(Mine) /\ Cardinality(Mine) \in Nat
<1>1. ASSUME NEW S \in SUBSET Messages
      PROVE  IsFiniteSet(S) /\ Cardinality(S) \in Nat
  <2>1. IsFiniteSet(S)
    BY MessagesAssumption, FS_Subset
  <2>. QED
    BY <2>1, FS_CardinalityType
<1>2. \A place : At(place) \in SUBSET Messages
  BY DEF At
<1>3. Mine \in SUBSET Messages
  BY DEF Mine
<1>. QED
  BY <1>1, <1>2, <1>3

\* The cardinalities of disjoint finite sets add up.
LEMMA Disjoint ==
  ASSUME NEW S, NEW T, IsFiniteSet(S), IsFiniteSet(T), S \cap T = {}
  PROVE  /\ IsFiniteSet(S \cup T)
         /\ Cardinality(S \cup T) = Cardinality(S) + Cardinality(T)
<1>1. Cardinality({}) = 0
  BY FS_EmptySet
<1>2. Cardinality(S) \in Nat /\ Cardinality(T) \in Nat
  BY FS_CardinalityType
<1>3. IsFiniteSet(S \cup T) /\ Cardinality(S \cup T) = Cardinality(S) + Cardinality(T) - Cardinality(S \cap T)
  BY FS_Union
<1>4. Cardinality(S \cap T) = 0
  BY <1>1, Zenon
<1>. QED
  BY <1>2, <1>3, <1>4

-----------------------------------------------------------------------------
(* The messages.                                                           *)

\* A message comes in.
LEMMA CountArrives ==
  ASSUME CountInv, NEW m \in Messages, OnMessage(m)
  PROVE  CountInv'
<1>1. /\ msgs[m] = "broker"
      /\ msgs' = [msgs EXCEPT ![m] = "scheduled"]
      /\ stats' = [stats EXCEPT !["received"] = stats["received"] + 1]
  BY DEF OnMessage
<1>2. msgs' \in [Messages -> Places] /\ stats' \in [Counters \cup {"received"} -> Nat]
  BY <1>1 DEF CountInv, Places
<1>3. Mine' = Mine \cup {m} /\ m \notin Mine
  BY <1>1 DEF CountInv, Mine
<1>4. \A c \in Counters : At(c)' = At(c) /\ stats'[c] = stats[c]
  BY <1>1 DEF CountInv, At, Counters
<1>5. stats'["received"] = stats["received"] + 1
  BY <1>1 DEF CountInv
<1>6. Cardinality(Mine') = Cardinality(Mine) + 1
  BY <1>3, AtFinite, OneMore
<1>7. \A c \in Counters : stats'[c] = Cardinality(At(c)')
  BY <1>4 DEF CountInv
<1>. QED
  BY <1>2, <1>5, <1>6, <1>7 DEF CountInv

\* A message that is under way moves on.
LEMMA CountEnds ==
  ASSUME CountInv, NEW m \in Messages, NEW outcome \in Places \ {"broker", "gone"},
         msgs[m] \in {"scheduled", "ingesting"}, Ends(m, outcome)
  PROVE  CountInv'
<1>1. /\ msgs' = [msgs EXCEPT ![m] = outcome]
      /\ stats' = IF outcome \in Counters THEN [stats EXCEPT ![outcome] = stats[outcome] + 1] ELSE stats
  BY DEF Ends
<1>2. msgs' \in [Messages -> Places]
  BY <1>1 DEF CountInv
<1>3. stats' \in [Counters \cup {"received"} -> Nat]
  BY <1>1 DEF CountInv
<1>4. Mine' = Mine
  BY <1>1 DEF CountInv, Mine
<1>5. stats'["received"] = stats["received"]
  BY <1>1 DEF CountInv, Counters
<1>6. ASSUME NEW c \in Counters
      PROVE  stats'[c] = Cardinality(At(c)')
  <2>1. CASE c = outcome
    <3>1. At(c)' = At(c) \cup {m} /\ m \notin At(c)
      BY <1>1, <2>1 DEF CountInv, At, Counters
    <3>2. Cardinality(At(c)') = Cardinality(At(c)) + 1
      BY <3>1, AtFinite, OneMore
    <3>3. stats'[c] = stats[c] + 1
      BY <1>1, <2>1 DEF CountInv
    <3>. QED
      BY <3>2, <3>3 DEF CountInv
  <2>2. CASE c # outcome
    <3>1. At(c)' = At(c)
      BY <1>1, <2>2 DEF CountInv, At, Counters
    <3>2. stats'[c] = stats[c]
      BY <1>1, <2>2 DEF CountInv
    <3>. QED
      BY <3>1, <3>2 DEF CountInv
  <2>. QED
    BY <2>1, <2>2
<1>. QED
  BY <1>2, <1>3, <1>4, <1>5, <1>6 DEF CountInv

\* Nothing of a message is left.
LEMMA CountRestarts ==
  ASSUME CountInv, Restart
  PROVE  CountInv'
<1>1. /\ msgs' = [m \in Messages |-> IF msgs[m] = "broker" THEN "broker" ELSE "gone"]
      /\ stats' = NoStats
  BY DEF Restart
<1>2. msgs' \in [Messages -> Places]
  BY <1>1 DEF Places
<1>3. Mine' = {} /\ \A c \in Counters : At(c)' = {}
  BY <1>1 DEF Mine, At, Counters
<1>4. stats' \in [Counters \cup {"received"} -> Nat] /\ \A c \in Counters \cup {"received"} : stats'[c] = 0
  BY <1>1 DEF NoStats
<1>5. Cardinality({}) = 0
  BY FS_EmptySet
<1>6. stats'["received"] = Cardinality(Mine') /\ \A c \in Counters : stats'[c] = Cardinality(At(c)')
  <2>. HIDE DEF Counters, NoStats
  <2>1. \A c \in Counters : stats'[c] = Cardinality(At(c)')
    BY <1>3, <1>4, <1>5
  <2>2. stats'["received"] = Cardinality(Mine')
    BY <1>3, <1>4, <1>5
  <2>. QED
    BY <2>1, <2>2
<1>. QED
  BY <1>2, <1>4, <1>6 DEF CountInv

LEMMA VerdictIsPlace ==
  ASSUME NEW m \in Messages
  PROVE  Verdict(m) \in Places \ {"broker", "gone"}
<1>1. Body[m] \in {"valid", "invalid", "not an object", "not json"}
  BY MessagesAssumption
<1>. QED
  BY <1>1 DEF Verdict, Places, Counters

LEMMA CountNext ==
  ASSUME CountInv, [Next]_vars
  PROVE  CountInv'
<1>1. CASE UNCHANGED <<msgs, stats>>
  <2>1. Mine' = Mine /\ \A c : At(c)' = At(c)
    BY <1>1 DEF Mine, At
  <2>. QED
    BY <1>1, <2>1 DEF CountInv
<1>2. CASE Mqtt
  <2>1. CASE OnConnect \/ OnDisconnect
    BY <1>1, <2>1 DEF OnConnect, OnDisconnect
  <2>2. ASSUME NEW m \in Messages, OnMessage(m)
        PROVE  CountInv'
    BY <2>2, CountArrives
  <2>3. ASSUME NEW m \in Messages, Handle(m)
        PROVE  CountInv'
    BY <2>3, VerdictIsPlace, CountEnds DEF Handle
  <2>4. ASSUME NEW m \in Messages, StoreTelemetry(m)
        PROVE  CountInv'
    BY <1>1, <2>4 DEF StoreTelemetry
  <2>5. ASSUME NEW m \in Messages, Ingested(m) \/ IngestFails(m)
        PROVE  CountInv'
    <3>1. "ingested" \in Places \ {"broker", "gone"} /\ "ingest_errors" \in Places \ {"broker", "gone"}
      BY DEF Places, Counters
    <3>. QED
      BY <2>5, <3>1, CountEnds DEF Ingested, IngestFails
  <2>. QED
    BY <1>2, <2>1, <2>2, <2>3, <2>4, <2>5 DEF Mqtt
<1>3. CASE Restart
  BY <1>3, CountRestarts
<1>4. CASE Forwarders \/ Ditto \/ Generator \/ UNCHANGED vars
  BY <1>1, <1>4 DEF Forwarders, Ditto, OfDitto, Generator, mqttVars, vars
<1>. QED
  BY <1>2, <1>3, <1>4 DEF Next

LEMMA FateNext ==
  ASSUME CountInv, FateInv, [Next]_vars
  PROVE  FateInv'
<1>1. CASE UNCHANGED <<msgs, stored>>
  BY <1>1 DEF FateInv
<1>2. CASE Mqtt
  <2>1. CASE OnConnect \/ OnDisconnect
    BY <1>1, <2>1 DEF OnConnect, OnDisconnect
  <2>2. ASSUME NEW m \in Messages, OnMessage(m)
        PROVE  FateInv'
    BY <2>2 DEF OnMessage, FateInv, CountInv
  <2>3. ASSUME NEW m \in Messages, Handle(m)
        PROVE  FateInv'
    <3>1. msgs' = [msgs EXCEPT ![m] = Verdict(m)] /\ stored' = stored
      BY <2>3 DEF Handle, Ends
    <3>2. /\ Verdict(m) = "ingesting" => Topic[m] # "status" /\ Body[m] = "valid"
          /\ Verdict(m) \in {"rejected_parse", "rejected_validation"} =>
                Topic[m] # "status" /\ Body[m] # "not an object"
          /\ Verdict(m) = "ignored" => Topic[m] = "status"
          /\ Verdict(m) = "raised" => Body[m] = "not an object"
          /\ Verdict(m) \notin {"ingested", "ingest_errors"}
      <4>1. Body[m] \in {"valid", "invalid", "not an object", "not json"}
        BY MessagesAssumption
      <4>. QED
        BY <4>1 DEF Verdict
    <3>. HIDE DEF Verdict
    <3>. QED
      BY <3>1, <3>2 DEF FateInv, CountInv
  <2>4. ASSUME NEW m \in Messages, StoreTelemetry(m)
        PROVE  FateInv'
    BY <2>4 DEF StoreTelemetry, FateInv
  <2>5. ASSUME NEW m \in Messages, Ingested(m)
        PROVE  FateInv'
    BY <2>5 DEF Ingested, Ends, FateInv, CountInv
  <2>6. ASSUME NEW m \in Messages, IngestFails(m)
        PROVE  FateInv'
    BY <2>6 DEF IngestFails, Ends, FateInv, CountInv
  <2>. QED
    BY <1>2, <2>1, <2>2, <2>3, <2>4, <2>5, <2>6 DEF Mqtt
<1>3. CASE Restart
  BY <1>3 DEF Restart, FateInv
<1>4. CASE Forwarders \/ Ditto \/ Generator \/ UNCHANGED vars
  BY <1>1, <1>4 DEF Forwarders, Ditto, OfDitto, Generator, mqttVars, vars
<1>. QED
  BY <1>2, <1>3, <1>4 DEF Next

-----------------------------------------------------------------------------
(* The forwarders.                                                         *)

LEMMA LinesAreNumbers ==
  /\ Lines \subseteq Nat
  /\ \A l \in Lines : l \in Nat /\ l >= 1 /\ l \notin Alerts
<1>. DEFINE n == Cardinality(Lines)
<1>1. Lines = 1..n /\ Alerts \cap Lines = {}
  BY FeedsAssumption
<1>. HIDE DEF n
<1>2. \A l \in 1..n : l \in Nat /\ l >= 1
  OBVIOUS
<1>3. \A l \in Lines : l \in Nat /\ l >= 1
  BY <1>1, <1>2, Zenon
<1>. QED
  BY <1>1, <1>3, Zenon

\* What a post does to the counts of x and of everything else.
LEMMA PostCounts ==
  ASSUME SeenInv, NEW x \in Alerts \cup Lines, NEW o \in Outcomes, Post(x, o)
  PROVE  /\ posted' \in [Alerts \cup Lines -> 0..2]
         /\ posted'[x] > 0 \/ x \in failed'
         /\ posted'[x] >= posted[x] /\ (posted[x] = 0 => posted'[x] \in {0, 1})
         /\ failed \subseteq failed'
         /\ \A y \in Alerts \cup Lines : y # x => posted'[y] = posted[y]
<1>1. posted \in [Alerts \cup Lines -> 0..2]
  BY DEF SeenInv
<1>2. CASE o = "unreachable"
  BY <1>1, <1>2 DEF Post
<1>3. CASE o # "unreachable"
  <2>1. posted' = [posted EXCEPT ![x] = IF posted[x] = 0 THEN 1 ELSE 2] /\ failed' = failed
    BY <1>3 DEF Post
  <2>. QED
    BY <1>1, <2>1
<1>. QED
  BY <1>2, <1>3

\* An alert is looked at.
LEMMA AlertKeeps ==
  ASSUME PostInv, NEW a \in Alerts, NEW o \in Outcomes, ForwardAlert(a, o)
  PROVE  PostInv'
<1>. USE DEF PostInv
<1>1. UNCHANGED <<size, offset, batch, cuts>>
  BY DEF ForwardAlert
<1>2. CASE UNCHANGED <<seen, posted, failed>>
  BY <1>1, <1>2 DEF SeenInv, LineInv
<1>3. CASE a \notin seen /\ Shape[a] = "no agent"
  <2>1. seen' = seen \cup {a} /\ UNCHANGED <<posted, failed>>
    BY <1>3 DEF ForwardAlert
  <2>. QED
    BY <1>1, <1>3, <2>1 DEF SeenInv, LineInv
<1>4. CASE a \notin seen /\ Shape[a] # "no agent"
  <2>1. seen' = (IF Shape[a] = "no id" THEN seen ELSE seen \cup {a}) /\ Post(a, o)
    BY <1>4 DEF ForwardAlert
  <2>2. SeenInv'
    BY <1>4, <2>1, PostCounts DEF SeenInv
  <2>3. \A l \in Lines : l # a /\ posted'[l] = posted[l]
    BY <2>1, PostCounts, LinesAreNumbers
  <2>4. failed \subseteq failed'
    BY <2>1, PostCounts
  <2>5. LineInv'
    BY <1>1, <2>3, <2>4 DEF LineInv, Exposed
  <2>. QED
    BY <2>2, <2>5
<1>. QED
  BY <1>2, <1>3, <1>4 DEF ForwardAlert

\* A pass over eve.json.
LEMMA TailKeeps ==
  ASSUME PostInv, tail_alerts
  PROVE  PostInv'
<1>. USE DEF PostInv
<1>1. /\ batch = {} /\ offset < size /\ UNCHANGED <<seen, size, posted, failed>>
      /\ batch' = {l \in Whole : \A k \in Stops : l < k}
      /\ IF Stops = {} THEN offset' = size /\ cuts' = cuts \cup {size}
         ELSE UNCHANGED <<offset, cuts>>
  BY DEF tail_alerts
<1>2. SeenInv'
  BY <1>1 DEF SeenInv
<1>3. batch' \subseteq Lines
  BY <1>1 DEF Whole
<1>4. CASE Stops = {}
  <2>1. offset' = size /\ cuts' = cuts \cup {size} /\ batch' = Whole
    BY <1>1, <1>4
  <2>2. ASSUME NEW l \in Lines, ~Exposed(l)
        PROVE  /\ posted'[l] \in {0, 1}
               /\ l \in batch' => 2 * l <= offset'
               /\ l \in batch' \/ 2 * l > offset' => posted'[l] = 0
    BY <1>1, <2>1, <2>2, LinesAreNumbers DEF LineInv, Whole
  <2>3. ASSUME NEW l \in Lines, 2 * l <= offset'
        PROVE  posted'[l] > 0 \/ l \in batch' \/ l \in failed' \/ (2 * l - 1) \in cuts'
    <3>1. CASE 2 * l <= offset
      BY <1>1, <2>1, <3>1 DEF LineInv
    <3>2. CASE offset <= 2 * (l - 1)
      BY <2>1, <2>3, <3>2 DEF Whole
    <3>3. CASE offset = 2 * l - 1
      BY <2>1, <3>3, LinesAreNumbers DEF LineInv
    <3>. QED
      BY <3>1, <3>2, <3>3, LinesAreNumbers DEF LineInv
  <2>. QED
    BY <1>1, <1>2, <1>3, <2>1, <2>2, <2>3 DEF LineInv, Exposed
<1>5. CASE Stops # {}
  <2>1. UNCHANGED <<offset, cuts>>
    BY <1>1, <1>5
  <2>2. ASSUME NEW l \in batch'
        PROVE  Exposed(l)
    <3>1. PICK k \in Stops : l < k
      BY <1>1, <1>5, <2>2
    <3>2. k \in Lines /\ Shape[k] # "good"
      BY <3>1 DEF Stops, Whole
    <3>. QED
      BY <1>3, <2>2, <3>1, <3>2, LinesAreNumbers DEF Exposed
  <2>. QED
    BY <1>1, <1>2, <1>3, <2>1, <2>2 DEF LineInv, Exposed
<1>. QED
  BY <1>4, <1>5

\* A line is posted.
LEMMA LineKeeps ==
  ASSUME PostInv, NEW l \in Lines, NEW o \in Outcomes, ForwardLine(l, o)
  PROVE  PostInv'
<1>. USE DEF PostInv
<1>1. /\ l \in batch /\ batch' = batch \ {l} /\ UNCHANGED <<seen, size, offset, cuts>>
      /\ Post(l, o)
  BY DEF ForwardLine
<1>2. /\ posted' \in [Alerts \cup Lines -> 0..2]
      /\ posted'[l] > 0 \/ l \in failed'
      /\ posted[l] = 0 => posted'[l] \in {0, 1}
      /\ failed \subseteq failed'
      /\ \A y \in Alerts \cup Lines : y # l => posted'[y] = posted[y]
  BY <1>1, PostCounts
<1>3. \A a \in Alerts : posted'[a] = posted[a]
  BY <1>2, LinesAreNumbers
<1>4. SeenInv'
  BY <1>1, <1>2, <1>3 DEF SeenInv
<1>5. ASSUME NEW k \in Lines, ~Exposed(k)
      PROVE  /\ posted'[k] \in {0, 1}
             /\ k \in batch' => 2 * k <= offset'
             /\ k \in batch' \/ 2 * k > offset' => posted'[k] = 0
  <2>1. CASE k = l
    <3>1. posted[l] = 0 /\ 2 * l <= offset
      BY <1>1, <1>5, <2>1 DEF LineInv
    <3>. QED
      BY <1>1, <1>2, <2>1, <3>1, LinesAreNumbers DEF LineInv
  <2>2. CASE k # l
    BY <1>1, <1>2, <1>5, <2>2 DEF LineInv
  <2>. QED
    BY <2>1, <2>2
<1>6. ASSUME NEW k \in Lines, 2 * k <= offset'
      PROVE  posted'[k] > 0 \/ k \in batch' \/ k \in failed' \/ (2 * k - 1) \in cuts'
  <2>1. CASE k = l
    BY <1>2, <2>1
  <2>2. CASE k # l
    BY <1>1, <1>2, <1>6, <2>2 DEF LineInv
  <2>. QED
    BY <2>1, <2>2
<1>. QED
  BY <1>1, <1>4, <1>5, <1>6 DEF LineInv, Exposed

LEMMA PostNext ==
  ASSUME PostInv, [Next]_vars
  PROVE  PostInv'
<1>1. CASE UNCHANGED <<seen, size, offset, batch, posted, failed, cuts>>
  BY <1>1 DEF PostInv, SeenInv, LineInv, Exposed
<1>2. CASE Forwarders
  <2>1. CASE fetch_alerts
    BY <1>1, <2>1 DEF fetch_alerts
  <2>2. CASE WriteEve
    <3>1. size' = size + 1 /\ UNCHANGED <<seen, offset, batch, posted, failed, cuts>>
      BY <2>2 DEF WriteEve
    <3>2. SeenInv'
      BY <3>1 DEF PostInv, SeenInv
    <3>3. LineInv'
      BY <3>1 DEF PostInv, LineInv, Exposed
    <3>. QED
      BY <3>2, <3>3 DEF PostInv
  <2>3. CASE tail_alerts
    BY <2>3, TailKeeps
  <2>4. ASSUME NEW a \in Alerts, NEW o \in Outcomes, ForwardAlert(a, o)
        PROVE  PostInv'
    BY <2>4, AlertKeeps
  <2>5. ASSUME NEW l \in Lines, NEW o \in Outcomes, ForwardLine(l, o)
        PROVE  PostInv'
    BY <2>5, LineKeeps
  <2>. QED
    BY <1>2, <2>1, <2>2, <2>3, <2>4, <2>5 DEF Forwarders
<1>3. CASE Restart
  <2>1. /\ seen' = {} /\ offset' = 0 /\ batch' = {} /\ size' = size /\ failed' = {} /\ cuts' = {}
        /\ posted' = [x \in Alerts \cup Lines |-> 0]
    BY <1>3 DEF Restart
  <2>2. SeenInv'
    BY <2>1 DEF SeenInv
  <2>3. \A l \in Lines : posted'[l] = 0 /\ ~(2 * l <= 0)
    BY <2>1, LinesAreNumbers
  <2>4. LineInv'
    BY <2>1, <2>3 DEF PostInv, LineInv, Exposed
  <2>. QED
    BY <2>2, <2>4 DEF PostInv
<1>4. CASE Mqtt \/ Ditto \/ Generator \/ UNCHANGED vars
  BY <1>1, <1>4 DEF Mqtt, Ditto, OfDitto, Generator, alertVars, vars
<1>. QED
  BY <1>2, <1>3, <1>4 DEF Next

-----------------------------------------------------------------------------
(* The theorems.                                                           *)

LEMMA InvInit == Init => Inv
<1> SUFFICES ASSUME Init
             PROVE  Inv
  OBVIOUS
<1>1. CountInv
  <2>1. Mine = {} /\ \A c \in Counters : At(c) = {}
    BY DEF Init, Mine, At, Counters
  <2>2. /\ stats \in [Counters \cup {"received"} -> Nat]
        /\ \A c \in Counters \cup {"received"} : stats[c] = 0
    BY DEF Init, NoStats
  <2>3. Cardinality({}) = 0
    BY FS_EmptySet
  <2>4. msgs \in [Messages -> Places]
    BY DEF Init, Places
  <2>. QED
    BY <2>1, <2>2, <2>3, <2>4 DEF CountInv
<1>2. FateInv
  BY DEF Init, FateInv
<1>3. PostInv
  <2>1. SeenInv
    BY DEF Init, SeenInv
  <2>2. /\ size = 0 /\ offset = 0 /\ batch = {}
        /\ posted = [x \in Alerts \cup Lines |-> 0]
    BY DEF Init
  <2>3. \A l \in Lines : posted[l] = 0 /\ ~(2 * l <= 0)
    BY <2>2, LinesAreNumbers
  <2>4. LineInv
    BY <2>2, <2>3 DEF LineInv
  <2>. QED
    BY <2>1, <2>4 DEF PostInv
<1>. QED
  BY <1>1, <1>2, <1>3 DEF Inv

LEMMA Invariance == Spec => []Inv
<1>1. Inv /\ [Next]_vars => Inv'
  BY CountNext, FateNext, PostNext DEF Inv
<1>. QED
  BY InvInit, <1>1, PTL DEF Spec

\* The counters of GET /mqtt/status: of the messages a process received they
\* miss exactly those in flight, on the status topic or without an object for
\* a payload, and count every other one once (MQTTBridge._handle_message).
THEOREM CountersAddUp == Spec => []CountersBalance
<1>1. Inv => CountersBalance
  <2> SUFFICES ASSUME Inv
               PROVE  CountersBalance
    OBVIOUS
  <2>. DEFINE uncounted == {m \in Mine : \/ msgs[m] \in {"scheduled", "ingesting"}
                                         \/ Topic[m] = "status"
                                         \/ Body[m] = "not an object"}
              one == At("ingested") \cup At("rejected_parse")
              two == one \cup At("rejected_validation")
              three == two \cup At("ingest_errors")
  <2>1. IsFiniteSet(uncounted)
    BY AtFinite, FS_Subset
  <2>2. \A m \in Mine : msgs[m] \in Counters \cup {"scheduled", "ingesting", "ignored", "raised"}
    BY DEF Inv, CountInv, Mine, Places
  <2>3. three \cup uncounted = Mine
    BY <2>2 DEF Inv, FateInv, CountInv, Mine, At, Counters
  <2>4. three \cap uncounted = {}
    BY MessagesAssumption DEF Inv, FateInv, CountInv, At, Mine
  <2>5. /\ At("ingested") \cap At("rejected_parse") = {}
        /\ one \cap At("rejected_validation") = {}
        /\ two \cap At("ingest_errors") = {}
    BY DEF At
  <2>6. IsFiniteSet(one) /\ Cardinality(one) = Cardinality(At("ingested")) + Cardinality(At("rejected_parse"))
    BY <2>5, AtFinite, Disjoint
  <2>7. /\ IsFiniteSet(two)
        /\ Cardinality(two) = Cardinality(one) + Cardinality(At("rejected_validation"))
    <3>. HIDE DEF one
    <3>. QED
      BY <2>5, <2>6, AtFinite, Disjoint
  <2>8. /\ IsFiniteSet(three)
        /\ Cardinality(three) = Cardinality(two) + Cardinality(At("ingest_errors"))
    <3>. HIDE DEF two
    <3>. QED
      BY <2>5, <2>7, AtFinite, Disjoint
  <2>9. Cardinality(Mine) = Cardinality(three) + Cardinality(uncounted)
    <3>. HIDE DEF three, uncounted
    <3>. QED
      BY <2>1, <2>3, <2>4, <2>8, Disjoint
  <2>10. /\ stats["received"] = Cardinality(Mine)
         /\ stats["ingested"] = Cardinality(At("ingested"))
         /\ stats["rejected_parse"] = Cardinality(At("rejected_parse"))
         /\ stats["rejected_validation"] = Cardinality(At("rejected_validation"))
         /\ stats["ingest_errors"] = Cardinality(At("ingest_errors"))
    BY DEF Inv, CountInv, Counters
  <2>11. stats["received"] = stats["ingested"] + stats["rejected_parse"] + stats["rejected_validation"]
                             + stats["ingest_errors"] + Cardinality(uncounted)
    <3>. HIDE DEF one, two, three, uncounted
    <3>. QED
      BY <2>6, <2>7, <2>8, <2>9, <2>10
  <2>12. stats["ingested"] <= Cardinality({m \in Mine : Body[m] = "valid"})
    <3>1. IsFiniteSet({m \in Mine : Body[m] = "valid"})
      BY AtFinite, FS_Subset
    <3>2. At("ingested") \in SUBSET {m \in Mine : Body[m] = "valid"}
      BY DEF Inv, FateInv, At, Mine
    <3>. QED
      BY <2>10, <3>1, <3>2, FS_Subset
  <2>13. \A m \in Mine : msgs[m] = "ingested" /\ Topic[m] = "telemetry" => m \in stored
    BY DEF Inv, FateInv, Mine
  <2>. QED
    BY <2>10, <2>11, <2>12, <2>13 DEF CountersBalance, Mine
<1>. QED
  BY <1>1, Invariance, PTL

\* From one process, an alert with an id is posted at most once, a line more
\* than once only if a later line can stop the reader, and what a forwarder has
\* put behind it was posted but for the four ways of losing it
\* (WazuhAdapter.fetch_alerts, SuricataAdapter.tail_alerts).
THEOREM PostedAsRead == Spec => []PostedOnce
<1>1. Inv => PostedOnce
  <2> SUFFICES ASSUME Inv
               PROVE  PostedOnce
    OBVIOUS
  <2>1. SeenInv /\ LineInv
    BY DEF Inv, PostInv
  <2>2. ASSUME NEW a \in Alerts, posted[a] > 1
        PROVE  Shape[a] = "no id"
    <3>1. posted[a] \notin {0, 1}
      BY <2>2
    <3>. QED
      BY <2>1, <3>1 DEF SeenInv
  <2>3. \A l \in Lines : posted[l] > 1 => \E k \in Lines : k > l /\ Shape[k] # "good"
    BY <2>1 DEF LineInv, Exposed
  <2>4. \A a \in seen : posted[a] > 0 \/ a \in failed \/ Shape[a] = "no agent"
    BY <2>1 DEF SeenInv
  <2>5. \A l \in Lines : 2 * l <= offset =>
           posted[l] > 0 \/ l \in batch \/ l \in failed \/ (2 * l - 1) \in cuts
    BY <2>1 DEF LineInv
  <2>. QED
    BY <2>2, <2>3, <2>4, <2>5 DEF PostedOnce
<1>. QED
  BY <1>1, Invariance, PTL

-----------------------------------------------------------------------------
(* The traffic generator.                                                  *)


Trackers == [progress : 0..1000, direction : {-1, 1}]

TrackInv ==
    /\ \A a \in Drivers : road[a] \in {Waypoints[a], Osrm[a]}
    /\ tracker \in [Drivers -> Trackers]

\* The counters, and that a reading under way is counted already.
SentInv ==
    /\ DOMAIN generator = {"mode", "sent", "ok", "failed", "anomalies"}
    /\ generator["sent"] \in Nat /\ generator["ok"] \in Nat
    /\ generator["failed"] \in Nat /\ generator["anomalies"] \in Nat
    /\ generator["sent"] = generator["ok"] + generator["failed"]
                           + (IF reading["phase"] = "none" THEN 0 ELSE 1)
    /\ generator["anomalies"] <= (IF generator["mode"] = "attack" THEN generator["sent"] ELSE 0)

-----------------------------------------------------------------------------
(* Payloads.                                                               *)

Quiet == {"API_GATEWAY", "APPLICATION", "DATABASE"}

\* What GENERATORS says of an asset of a type.
Base(p, type) ==
    /\ DOMAIN p = DOMAIN Nothing
    /\ p["door_status"] = None /\ p["destinations"] = 0 /\ p["inRegion"] = TRUE
    /\ type = "TRUCK" =>
          /\ p["speed"] \in Int /\ p["temperature"] \in Int
          /\ p["fuel"] \in 0..100 /\ p["battery"] \in 0..100
    /\ type # "TRUCK" =>
          p["speed"] = None /\ p["fuel"] = None /\ p["battery"] = None /\ p["distance"] = None
    /\ type \in {"WAREHOUSE", "SENSOR"} => p["temperature"] \in Int /\ p["humidity"] \in Int
    /\ type = "WAREHOUSE" => p["power_consumption"] \in Int
    /\ type \in Quiet => p["unusual_api_calls"] \in {0, 5}
    /\ type = "VEHICLE_GATEWAY" => p["unusual_api_calls"] \in {0, 3}
    /\ type \in {"TRUCK", "WAREHOUSE", "SENSOR", "AUTH_SYSTEM"} => p["unusual_api_calls"] = None
    /\ type \in Quiet \cup {"VEHICLE_GATEWAY", "AUTH_SYSTEM"} => p["temperature"] = None
    /\ type = "VEHICLE_GATEWAY" => p["failed_logins"] \in {0, 2}
    /\ type = "AUTH_SYSTEM" => p["failed_logins"] \in {0, 3}
    /\ type \in Quiet \cup {"TRUCK", "WAREHOUSE", "SENSOR"} => p["failed_logins"] = None
    /\ type \in {"TRUCK", "VEHICLE_GATEWAY"} => p["status"] = "ACTIVE"
    /\ type \notin {"TRUCK", "VEHICLE_GATEWAY"} => p["status"] = None
    /\ p["firmware"] = IF type = "VEHICLE_GATEWAY" THEN "v2" ELSE None

\* What inject_anomaly makes of it.
Odd(p, type) ==
    /\ DOMAIN p = DOMAIN Nothing
    /\ type = "TRUCK" =>
          /\ p["speed"] \in Int /\ p["temperature"] \in Int
          /\ p["speed"] \in {110, 160} \/ p["temperature"] \in {12, 20} \/ p["inRegion"] = FALSE
          /\ p["inRegion"] = FALSE => p["distance"] \in Int
    /\ type = "WAREHOUSE" => p["temperature"] \in {42, 55}
    /\ type \in {"VEHICLE_GATEWAY", "AUTH_SYSTEM"} => p["failed_logins"] \in {10, 25, 15, 40}
    /\ type \in Quiet \cup {"SENSOR"} => Base(p, type)

\* A distance that is not beyond every point of the road.
OnRoad(d, path) == d \in Int /\ \E i \in DOMAIN path : d <= Distance(path[i])

\* A payload as it is posted.
Posted(p, anomaly) ==
    /\ p["asset_id"] \in Assets /\ p["asset_type"] = TypeOf[p["asset_id"]]
    /\ IF anomaly THEN Odd(p, p["asset_type"])
       ELSE /\ Base(p, p["asset_type"])
            /\ p["asset_type"] = "TRUCK" => OnRoad(p["distance"], road[p["asset_id"]])
    /\ p["asset_type"] = "TRUCK" => p["distance"] \in Int

ReadingInv ==
    /\ DOMAIN reading = DOMAIN NoReading
    /\ reading["anomaly"] \in BOOLEAN
    /\ reading["phase"] = "posted" =>
          /\ Posted(reading["payload"], reading["anomaly"])
          /\ reading["findings"] = {} /\ reading["state"] = None
    /\ Arrived => IF reading["anomaly"] THEN AnomalyMet(reading["payload"]["asset_type"])
                  ELSE BaselineMet(reading["payload"])

TrafficInv == TrackInv /\ SentInv /\ ReadingInv

LEMMA WithFields ==
  ASSUME NEW record, NEW fields
  PROVE  /\ DOMAIN With(record, fields) = DOMAIN record
         /\ \A x \in DOMAIN record :
               With(record, fields)[x] = IF x \in DOMAIN fields THEN fields[x] ELSE record[x]
  BY DEF With

Fields == {"asset_id", "asset_type", "speed", "temperature", "fuel", "battery", "distance",
           "inRegion", "failed_logins", "firmware", "status", "destinations", "door_status",
           "humidity", "power_consumption", "unusual_api_calls"}

LEMMA NothingHas ==
  /\ DOMAIN Nothing = Fields
  /\ \A x \in Fields \ {"inRegion", "destinations"} : Nothing[x] = None
  /\ Nothing["inRegion"] = TRUE /\ Nothing["destinations"] = 0
  BY DEF Nothing, Fields

Kinds == Quiet \cup {"TRUCK", "WAREHOUSE", "SENSOR", "VEHICLE_GATEWAY", "AUTH_SYSTEM"}

\* The fields that are drawn.
LEMMA GaussFields ==
  ASSUME NEW type \in Kinds
  PROVE  /\ DOMAIN Gauss(type) =
               IF type = "TRUCK" THEN {"speed", "temperature", "fuel", "battery"}
               ELSE IF type = "WAREHOUSE" THEN {"temperature", "humidity", "power_consumption"}
               ELSE IF type = "SENSOR" THEN {"temperature", "humidity"} ELSE {}
         /\ \A x \in DOMAIN Gauss(type) : Gauss(type)[x][1] \in Int /\ Gauss(type)[x][2] \in Int
<1>1. CASE type = "TRUCK"
  BY <1>1 DEF Gauss
<1>2. CASE type = "WAREHOUSE"
  BY <1>2 DEF Gauss
<1>3. CASE type = "SENSOR"
  BY <1>3 DEF Gauss
<1>4. CASE type \notin {"TRUCK", "WAREHOUSE", "SENSOR"}
  BY <1>4 DEF Gauss
<1>. QED
  BY <1>1, <1>2, <1>3, <1>4

LEMMA DrawnHas ==
  ASSUME NEW type \in Kinds, NEW d \in Drawn(type)
  PROVE  /\ DOMAIN d = DOMAIN Gauss(type)
         /\ \A x \in DOMAIN d : d[x] \in Int /\ (x \in {"fuel", "battery"} => d[x] \in 0..100)
<1>. DEFINE g == Gauss(type)
<1>1. PICK k \in [DOMAIN g -> Draws] :
         d = [x \in DOMAIN g |-> Clamped(x, g[x][1] + k[x] * g[x][2])]
  BY DEF Drawn
<1>2. ASSUME NEW x \in DOMAIN g
      PROVE  d[x] \in Int /\ (x \in {"fuel", "battery"} => d[x] \in 0..100)
  <2>1. PICK mean \in Int, far \in Int, sd \in Int : mean = g[x][1] /\ far = k[x] /\ sd = g[x][2]
    BY <1>1, <1>2, GaussFields, DrawsAssumption
  <2>2. mean + far * sd \in Int
    OBVIOUS
  <2>3. d[x] = Clamped(x, mean + far * sd)
    BY <1>1, <1>2, <2>1
  <2>4. \A y \in Int : /\ Clamped(x, y) \in Int
                       /\ x \in {"fuel", "battery"} => Clamped(x, y) \in 0..100
    BY DEF Clamped
  <2>. QED
    BY <2>2, <2>3, <2>4
<1>. QED
  BY <1>1, <1>2

LEMMA GeneratorsBase ==
  ASSUME NEW type \in Kinds, NEW p \in GENERATORS(type)
  PROVE  Base(p, type)
<1>. USE NothingHas DEF Fields
<1>1. PICK fixed \in Fixed(type), drawn \in Drawn(type) : p = With(With(Nothing, fixed), drawn)
  BY DEF GENERATORS
<1>2. /\ DOMAIN p = DOMAIN Nothing
      /\ \A x \in DOMAIN Nothing :
            p[x] = IF x \in DOMAIN drawn THEN drawn[x]
                   ELSE IF x \in DOMAIN fixed THEN fixed[x] ELSE Nothing[x]
  BY <1>1, WithFields
<1>3. /\ DOMAIN drawn = DOMAIN Gauss(type)
      /\ \A x \in DOMAIN drawn :
            drawn[x] \in Int /\ (x \in {"fuel", "battery"} => drawn[x] \in 0..100)
  BY DrawnHas
<1>4. CASE type = "TRUCK"
  <2>1. DOMAIN drawn = {"speed", "temperature", "fuel", "battery"}
    BY <1>3, <1>4, GaussFields
  <2>2. DOMAIN fixed = {"status", "distance"} /\ fixed["status"] = "ACTIVE"
    BY <1>4 DEF Fixed
  <2>. QED
    BY <1>2, <1>3, <1>4, <2>1, <2>2 DEF Base, Quiet
<1>5. CASE type = "WAREHOUSE"
  <2>1. DOMAIN drawn = {"temperature", "humidity", "power_consumption"}
    BY <1>3, <1>5, GaussFields
  <2>2. DOMAIN fixed = {}
    BY <1>5 DEF Fixed
  <2>. QED
    BY <1>2, <1>3, <1>5, <2>1, <2>2 DEF Base, Quiet
<1>6. CASE type = "SENSOR"
  <2>1. DOMAIN drawn = {"temperature", "humidity"}
    BY <1>3, <1>6, GaussFields
  <2>2. DOMAIN fixed = {}
    BY <1>6 DEF Fixed
  <2>. QED
    BY <1>2, <1>3, <1>6, <2>1, <2>2 DEF Base, Quiet
<1>7. CASE type \in Quiet \cup {"VEHICLE_GATEWAY", "AUTH_SYSTEM"}
  <2>1. DOMAIN drawn = {}
    BY <1>3, <1>7, GaussFields DEF Quiet
  <2>2. CASE type = "VEHICLE_GATEWAY"
    <3>1. /\ DOMAIN fixed = {"failed_logins", "unusual_api_calls", "status", "firmware"}
          /\ fixed["failed_logins"] \in {0, 2} /\ fixed["unusual_api_calls"] \in {0, 3}
          /\ fixed["status"] = "ACTIVE" /\ fixed["firmware"] = "v2"
      BY <2>2 DEF Fixed
    <3>. QED
      BY <1>2, <2>1, <2>2, <3>1 DEF Base, Quiet
  <2>3. CASE type = "AUTH_SYSTEM"
    <3>1. DOMAIN fixed = {"failed_logins"} /\ fixed["failed_logins"] \in {0, 3}
      BY <2>3 DEF Fixed
    <3>. QED
      BY <1>2, <2>1, <2>3, <3>1 DEF Base, Quiet
  <2>4. CASE type \in Quiet
    <3>1. DOMAIN fixed = {"unusual_api_calls"} /\ fixed["unusual_api_calls"] \in {0, 5}
      BY <2>4 DEF Fixed, Quiet
    <3>. QED
      BY <1>2, <2>1, <2>4, <3>1 DEF Base, Quiet
  <2>. QED
    BY <1>7, <2>2, <2>3, <2>4
<1>. QED
  BY <1>4, <1>5, <1>6, <1>7 DEF Kinds

LEMMA InjectOdd ==
  ASSUME NEW type \in Kinds, NEW p \in inject_anomaly(type)
  PROVE  Odd(p, type)
<1>. USE NothingHas DEF Fields
<1>1. CASE type = "TRUCK"
  <2>1. PICK base \in GENERATORS(type) :
           \/ \E v \in {110, 160} : p = With(base, [speed |-> v])
           \/ \E t \in {12, 20} : p = With(base, [temperature |-> t])
           \/ p = With(base, [distance |-> Abroad, inRegion |-> FALSE])
    <3>. DEFINE made(base) ==
                    {With(base, [speed |-> v]) : v \in {110, 160}}
                    \cup {With(base, [temperature |-> t]) : t \in {12, 20}}
                    \cup {With(base, [distance |-> Abroad, inRegion |-> FALSE])}
    <3>0. inject_anomaly(type) = UNION {made(base) : base \in GENERATORS(type)}
      BY <1>1 DEF inject_anomaly
    <3>1. PICK base \in GENERATORS(type) : p \in made(base)
      <4>. HIDE DEF made
      <4>. QED
        BY <3>0
    <3>2. \/ p \in {With(base, [speed |-> v]) : v \in {110, 160}}
          \/ p \in {With(base, [temperature |-> t]) : t \in {12, 20}}
          \/ p = With(base, [distance |-> Abroad, inRegion |-> FALSE])
      BY <3>1
    <3>. QED
      BY <3>2
  <2>2. Base(base, type)
    BY GeneratorsBase
  <2>3. CASE \E v \in {110, 160} : p = With(base, [speed |-> v])
    <3>1. PICK v \in {110, 160} : p = With(base, [speed |-> v])
      BY <2>3
    <3>2. /\ DOMAIN p = DOMAIN Nothing /\ p["speed"] = v
          /\ p["temperature"] = base["temperature"] /\ p["inRegion"] = base["inRegion"]
      BY <2>2, <3>1, WithFields DEF Base
    <3>. QED
      BY <1>1, <2>2, <3>2 DEF Base, Odd, Quiet
  <2>4. CASE \E t \in {12, 20} : p = With(base, [temperature |-> t])
    <3>1. PICK t \in {12, 20} : p = With(base, [temperature |-> t])
      BY <2>4
    <3>2. /\ DOMAIN p = DOMAIN Nothing /\ p["temperature"] = t
          /\ p["speed"] = base["speed"] /\ p["inRegion"] = base["inRegion"]
      BY <2>2, <3>1, WithFields DEF Base
    <3>. QED
      BY <1>1, <2>2, <3>2 DEF Base, Odd, Quiet
  <2>5. CASE p = With(base, [distance |-> Abroad, inRegion |-> FALSE])
    <3>1. /\ DOMAIN p = DOMAIN Nothing /\ p["distance"] = Abroad /\ p["inRegion"] = FALSE
          /\ p["speed"] = base["speed"] /\ p["temperature"] = base["temperature"]
      BY <2>2, <2>5, WithFields DEF Base
    <3>. QED
      BY <1>1, <2>2, <3>1, PaceAssumption DEF Base, Odd, Quiet
  <2>. QED
    BY <2>1, <2>3, <2>4, <2>5
<1>2. CASE type = "WAREHOUSE"
  <2>1. PICK base \in GENERATORS(type), t \in {42, 55} :
           p = With(base, [temperature |-> t, door_status |-> "OPEN"])
    <3>. HIDE DEF GENERATORS
    <3>. QED
      BY <1>2 DEF inject_anomaly
  <2>2. Base(base, type)
    BY GeneratorsBase
  <2>3. DOMAIN p = DOMAIN Nothing /\ p["temperature"] = t
    BY <2>1, <2>2, WithFields DEF Base
  <2>. QED
    BY <1>2, <2>3 DEF Odd, Quiet
<1>3. CASE type = "VEHICLE_GATEWAY"
  <2>1. PICK base \in GENERATORS(type), n \in {10, 25} :
           p = With(base, [failed_logins |-> n, unusual_api_calls |-> 150, destinations |-> 5,
                           firmware |-> "v1"])
    <3>. HIDE DEF GENERATORS
    <3>. QED
      BY <1>3 DEF inject_anomaly
  <2>2. Base(base, type)
    BY GeneratorsBase
  <2>3. DOMAIN p = DOMAIN Nothing /\ p["failed_logins"] = n
    BY <2>1, <2>2, WithFields DEF Base
  <2>. QED
    BY <1>3, <2>3 DEF Odd, Quiet
<1>4. CASE type = "AUTH_SYSTEM"
  <2>1. PICK base \in GENERATORS(type), n \in {15, 40} : p = With(base, [failed_logins |-> n])
    <3>. HIDE DEF GENERATORS
    <3>. QED
      BY <1>4 DEF inject_anomaly
  <2>2. Base(base, type)
    BY GeneratorsBase
  <2>3. DOMAIN p = DOMAIN Nothing /\ p["failed_logins"] = n
    BY <2>1, <2>2, WithFields DEF Base
  <2>. QED
    BY <1>4, <2>3 DEF Odd, Quiet
<1>5. CASE type \in Quiet \cup {"SENSOR"}
  <2>1. p \in GENERATORS(type)
    <3>. HIDE DEF GENERATORS
    <3>. QED
      BY <1>5 DEF inject_anomaly, Quiet
  <2>2. Base(p, type)
    BY <2>1, GeneratorsBase
  <2>3. DOMAIN p = DOMAIN Nothing
    BY <2>2 DEF Base
  <2>. QED
    BY <1>5, <2>2, <2>3 DEF Odd, Quiet
<1>. QED
  BY <1>1, <1>2, <1>3, <1>4, <1>5 DEF Kinds

-----------------------------------------------------------------------------
(* Roads.                                                                  *)

LEMMA MovedOn == ASSUME NEW t \in Trackers PROVE Moved(t) \in Trackers
<1>. DEFINE at == t.progress + Pace * t.direction
<1>1. t.progress \in 0..1000 /\ t.direction \in {-1, 1} /\ Pace \in 1..1000
  BY PaceAssumption DEF Trackers
<1>2. at \in Int
  <2>0. t.progress \in Int /\ Pace \in Int
    BY <1>1
  <2>1. PICK x \in Int : x = t.progress
    BY <2>0, Zenon
  <2>2. PICK v \in Int : v = Pace
    BY <2>0, Zenon
  <2>3. CASE t.direction = 1
    <3>1. x + v * 1 \in Int
      OBVIOUS
    <3>. QED
      BY <2>1, <2>2, <2>3, <3>1
  <2>4. CASE t.direction = -1
    <3>1. x + v * (-1) \in Int
      OBVIOUS
    <3>. QED
      BY <2>1, <2>2, <2>4, <3>1
  <2>. QED
    BY <1>1, <2>3, <2>4
<1>3. Moved(t) = IF at >= 1000 THEN [progress |-> 1000, direction |-> -1]
                 ELSE IF at <= 0 THEN [progress |-> 0, direction |-> 1]
                 ELSE [progress |-> at, direction |-> t.direction]
  BY DEF Moved
<1>. HIDE DEF at
<1>4. CASE at >= 1000
  BY <1>3, <1>4 DEF Trackers
<1>5. CASE ~(at >= 1000) /\ at <= 0
  BY <1>3, <1>5 DEF Trackers
<1>6. CASE ~(at >= 1000) /\ ~(at <= 0)
  BY <1>1, <1>2, <1>3, <1>6 DEF Trackers
<1>. QED
  BY <1>4, <1>5, <1>6

Thousandths == 0..1000

Share(d, k) == (d * k) \div 1000

\* A part of a difference lies between nothing and all of it.
LEMMA PartOf ==
  ASSUME NEW d \in Int, NEW k \in Thousandths
  PROVE  /\ d >= 0 => Share(d, k) \in 0..d
         /\ d <= 0 => Share(d, k) \in d..0
<1>. USE DEF Thousandths, Share
<1>1. d >= 0 => 0 <= d * k /\ d * k <= 1000 * d
  OBVIOUS
<1>2. d <= 0 => d * k <= 0 /\ 1000 * d <= d * k
  OBVIOUS
<1>3. \A x \in Int : /\ d >= 0 /\ 0 <= x /\ x <= 1000 * d => x \div 1000 \in 0..d
                     /\ d <= 0 /\ x <= 0 /\ 1000 * d <= x => x \div 1000 \in d..0
  OBVIOUS
<1>4. d * k \in Int
  OBVIOUS
<1>. QED
  BY <1>1, <1>2, <1>3, <1>4

\* The point k thousandths of the way from one point to another.
Part(x, y, k) == x + ((y - x) * k) \div 1000

\* It is no farther out than both of them.
LEMMA Between ==
  ASSUME NEW x \in Int, NEW y \in Int, NEW k \in Thousandths
  PROVE  /\ Part(x, y, k) \in Int
         /\ \/ Distance(Part(x, y, k)) <= Distance(x)
            \/ Distance(Part(x, y, k)) <= Distance(y)
<1>1. PICK d \in Int : d = y - x
  OBVIOUS
<1>2. /\ d >= 0 => Share(d, k) \in 0..d
      /\ d <= 0 => Share(d, k) \in d..0
  BY PartOf, Zenon
<1>3. PICK part : part = Share(d, k)
  OBVIOUS
<1>4. Part(x, y, k) = x + part
  BY <1>1, <1>3 DEF Part, Share
<1>5. /\ d >= 0 => part \in 0..d
      /\ d <= 0 => part \in d..0
  BY <1>2, <1>3
<1>. QED
  BY <1>1, <1>4, <1>5 DEF Distance

\* The smaller of two numbers.
LEMMA MinOfTwo ==
  ASSUME NEW a \in Int, NEW b \in Int
  PROVE  Min({a, b}) = IF a <= b THEN a ELSE b
<1>. DEFINE m == IF a <= b THEN a ELSE b
<1>1. m \in {a, b} /\ \A z \in {a, b} : m <= z
  OBVIOUS
<1>2. \A z \in {a, b} : (\A w \in {a, b} : z <= w) => z = m
  OBVIOUS
<1>3. Min({a, b}) = CHOOSE z \in {a, b} : \A w \in {a, b} : z <= w
  BY DEF Min
<1>. HIDE DEF m
<1>4. Min({a, b}) = m
  BY <1>1, <1>2, <1>3
<1>. QED
  BY <1>4 DEF m

\* The leg on which a truck is, that has come far along a road of n legs, each
\* of them a thousand, and how far along that leg it has come.
Way(n) == 0..(1000 * n)
LegAt(far, n) == Min({far \div 1000, n - 1})
Rest(far, n) == far - 1000 * LegAt(far, n)

LEMMA LegOf ==
  ASSUME NEW n \in Nat \ {0}, NEW far \in Way(n)
  PROVE  LegAt(far, n) \in 0..(n - 1) /\ Rest(far, n) \in Thousandths
<1>. USE DEF Thousandths, Way
<1>1. PICK q \in Nat : q = far \div 1000
  OBVIOUS
<1>2. 1000 * q <= far /\ far < 1000 * q + 1000
  BY <1>1
<1>3. PICK i \in Int : i = IF q <= n - 1 THEN q ELSE n - 1
  OBVIOUS
<1>4. Min({q, n - 1}) = i
  BY <1>3, MinOfTwo
<1>5. i \in 0..(n - 1) /\ far - 1000 * i \in 0..1000
  BY <1>2, <1>3
<1>. QED
  BY <1>1, <1>4, <1>5 DEF LegAt, Rest

\* How far a share of the whole road is.
LEMMA FarOf ==
  ASSUME NEW n \in Nat, NEW share \in Thousandths
  PROVE  share * n \in Way(n)
  BY DEF Thousandths, Way

LEMMA PositionOnRoad ==
  ASSUME NEW path \in Seq(Int), path # <<>>, NEW t \in Trackers
  PROVE  OnRoad(Distance(Position(path, t)), path)
<1>. DEFINE n == Len(path) - 1
            along == t.progress * n
            i == Min({along \div 1000, n - 1})
<1>1. Len(path) \in Nat /\ Len(path) >= 1 /\ DOMAIN path = 1..Len(path)
  OBVIOUS
<1>2. CASE n < 1
  <2>1. Position(path, t) = path[1]
    BY <1>2 DEF Position
  <2>2. 1 \in DOMAIN path /\ path[1] \in Int
    BY <1>1
  <2>3. Distance(path[1]) \in Int /\ Distance(path[1]) <= Distance(path[1])
    BY <2>2 DEF Distance
  <2>. QED
    BY <2>1, <2>2, <2>3 DEF OnRoad
<1>3. CASE ~(n < 1)
  <2>1. n \in Nat \ {0}
    BY <1>1, <1>3
  <2>2. PICK legs \in Nat \ {0} : legs = n
    <3>. HIDE DEF n
    <3>. QED
      BY <2>1
  <2>3. PICK share \in Thousandths : share = t.progress
    BY DEF Trackers, Thousandths
  <2>4. PICK far \in Way(legs) : far = share * legs
    <3>1. share * legs \in Way(legs)
      BY FarOf
    <3>. QED
      BY <3>1, Zenon
  <2>5. LegAt(far, legs) \in 0..(legs - 1) /\ Rest(far, legs) \in Thousandths
    BY LegOf, Zenon
  <2>6. PICK leg \in 0..(legs - 1), k \in Thousandths : leg = LegAt(far, legs) /\ k = Rest(far, legs)
    BY <2>5
  <2>7. leg + 1 \in DOMAIN path /\ leg + 2 \in DOMAIN path
    <3>. HIDE DEF n
    <3>. QED
      BY <1>1, <2>2 DEF n
  <2>8. PICK x \in Int, y \in Int : x = path[leg + 1] /\ y = path[leg + 2]
    BY <2>7
  <2>9. Position(path, t) = Part(x, y, k)
    <3>1. far = along /\ leg = i /\ k = along - 1000 * i
      BY <2>2, <2>3, <2>4, <2>6 DEF LegAt, Rest
    <3>2. Position(path, t) = path[i + 1] + ((path[i + 2] - path[i + 1]) * (along - 1000 * i)) \div 1000
      BY <1>3 DEF Position
    <3>. HIDE DEF along, i
    <3>. QED
      BY <2>8, <3>1, <3>2 DEF Part
  <2>10. Part(x, y, k) \in Int /\ (\/ Distance(Part(x, y, k)) <= Distance(x)
                                  \/ Distance(Part(x, y, k)) <= Distance(y))
    BY <2>8, Between, Zenon
  <2>11. Distance(Part(x, y, k)) \in Int
    BY <2>10 DEF Distance
  <2>. HIDE DEF n, along, i
  <2>. QED
    BY <2>7, <2>8, <2>9, <2>10, <2>11 DEF OnRoad
<1>. QED
  BY <1>2, <1>3

-----------------------------------------------------------------------------
(* What is posted.                                                         *)

LEMMA KindOf == ASSUME NEW a \in Assets PROVE TypeOf[a] \in Kinds
  BY AssetsAssumption DEF Kinds, Quiet

LEMMA RoadOf ==
  ASSUME TrackInv, NEW a \in Assets, TypeOf[a] = "TRUCK"
  PROVE  a \in Drivers /\ road[a] \in Seq(Int) /\ road[a] # <<>>
<1>1. a \in Drivers
  BY FleetAssumption
<1>2. Waypoints[a] \in Seq(Int) \ {<<>>} /\ Osrm[a] \in Seq(Int) \ {<<>>}
  BY <1>1, FleetAssumption
<1>3. road[a] \in {Waypoints[a], Osrm[a]}
  BY <1>1 DEF TrackInv
<1>. QED
  BY <1>1, <1>2, <1>3

\* What goes out for asset a is fair: an injected position is kept, another
\* position is one on the road.
LEMMA BuildPosted ==
  ASSUME TrackInv, NEW a \in Assets, NEW anomaly \in BOOLEAN,
         NEW body \in IF anomaly THEN inject_anomaly(TypeOf[a]) ELSE GENERATORS(TypeOf[a]),
         NEW moved, TypeOf[a] = "TRUCK" => moved \in Trackers
  PROVE  Posted(BuildPayload(a, body, moved), anomaly)
<1>. DEFINE type == TypeOf[a]
            named == With(body, [asset_id |-> a, asset_type |-> TypeOf[a]])
            p == BuildPayload(a, body, moved)
<1>1. type \in Kinds
  BY KindOf
<1>2. IF anomaly THEN Odd(body, type) ELSE Base(body, type)
  BY <1>1, GeneratorsBase, InjectOdd
<1>3. DOMAIN body = Fields
  BY <1>2, NothingHas DEF Odd, Base
<1>4. /\ DOMAIN named = Fields /\ named["asset_id"] = a /\ named["asset_type"] = TypeOf[a]
      /\ \A x \in Fields : x \notin {"asset_id", "asset_type"} => named[x] = body[x]
  BY <1>3, WithFields DEF Fields
<1>5. CASE type # "TRUCK" \/ ~body["inRegion"]
  <2>1. p = named
    BY <1>5 DEF BuildPayload
  <2>2. type = "TRUCK" => anomaly /\ body["distance"] \in Int
    <3>1. CASE anomaly
      <4>1. type = "TRUCK" => body["inRegion"] # TRUE
        BY <1>5
      <4>. QED
        BY <1>2, <1>5, <3>1 DEF Odd
    <3>2. CASE ~anomaly
      BY <1>2, <1>5, <3>2 DEF Base
    <3>. QED
      BY <3>1, <3>2
  <2>. QED
    BY <1>1, <1>2, <1>4, <2>1, <2>2, NothingHas DEF Posted, Odd, Base, Fields
<1>6. CASE type = "TRUCK" /\ body["inRegion"]
  <2>. DEFINE d == Distance(Position(road[a], moved))
  <2>1. p = With(named, [distance |-> d])
    BY <1>6 DEF BuildPayload
  <2>2. OnRoad(d, road[a])
    BY <1>6, RoadOf, PositionOnRoad
  <2>. HIDE DEF d
  <2>3. /\ DOMAIN p = Fields /\ p["distance"] = d
        /\ \A x \in Fields : x # "distance" => p[x] = named[x]
    BY <1>4, <2>1, WithFields DEF Fields
  <2>4. d \in Int
    BY <2>2 DEF OnRoad
  <2>. QED
    BY <1>1, <1>2, <1>4, <1>6, <2>2, <2>3, <2>4, NothingHas DEF Posted, Odd, Base, Fields
<1>. QED
  BY <1>5, <1>6

-----------------------------------------------------------------------------
(* What the api makes of it.                                               *)


\* The draws of each type that has some.
LEMMA GaussOf ==
  ASSUME NEW type
  PROVE  /\ type = "TRUCK" =>
               /\ Gauss(type)["speed"] = <<55, 12>> /\ Gauss(type)["temperature"] = <<-2, 2>>
               /\ Gauss(type)["fuel"] = <<70, 12>> /\ Gauss(type)["battery"] = <<85, 5>>
               /\ DOMAIN Gauss(type) = {"speed", "temperature", "fuel", "battery"}
         /\ type = "WAREHOUSE" =>
               /\ Gauss(type)["temperature"] = <<22, 2>> /\ Gauss(type)["humidity"] = <<55, 5>>
               /\ Gauss(type)["power_consumption"] = <<45, 8>>
               /\ DOMAIN Gauss(type) = {"temperature", "humidity", "power_consumption"}
         /\ type = "SENSOR" =>
               /\ Gauss(type)["temperature"] = <<20, 3>> /\ Gauss(type)["humidity"] = <<50, 8>>
               /\ DOMAIN Gauss(type) = {"temperature", "humidity"}
<1>1. CASE type = "TRUCK"
  BY <1>1, SMT DEF Gauss
<1>2. CASE type = "WAREHOUSE"
  BY <1>2, SMT DEF Gauss
<1>3. CASE type = "SENSOR"
  BY <1>3, SMT DEF Gauss
<1>. QED
  BY <1>1, <1>2, <1>3

\* The ranges that are checked of each type.
LEMMA RangesOf ==
  ASSUME NEW type
  PROVE  /\ type = "TRUCK" =>
               /\ Ranges(type)["speed"] = 0..120 /\ Ranges(type)["temperature"] = -25..30
               /\ Ranges(type)["fuel"] = 0..100 /\ Ranges(type)["battery"] = 0..100
               /\ DOMAIN Ranges(type) = {"speed", "temperature", "fuel", "battery"}
         /\ type = "WAREHOUSE" =>
               /\ Ranges(type)["temperature"] = -5..40 /\ Ranges(type)["humidity"] = 0..100
               /\ Ranges(type)["power_consumption"] = 0..500
               /\ DOMAIN Ranges(type) = {"temperature", "humidity", "power_consumption"}
         /\ type = "SENSOR" =>
               /\ Ranges(type)["temperature"] = -30..60 /\ Ranges(type)["humidity"] = 0..100
               /\ DOMAIN Ranges(type) = {"temperature", "humidity"}
         /\ type = "VEHICLE_GATEWAY" =>
               Ranges(type)["failed_logins"] = 0..100 /\ DOMAIN Ranges(type) = {"failed_logins"}
         /\ type = "AUTH_SYSTEM" =>
               0..100 \subseteq Ranges(type)["failed_logins"] /\ DOMAIN Ranges(type) = {"failed_logins"}
         /\ type = "APPLICATION" => DOMAIN Ranges(type) = {}
         /\ type \in {"API_GATEWAY", "DATABASE"} =>
               /\ 0..100 \subseteq Ranges(type)["unusual_api_calls"]
               /\ DOMAIN Ranges(type) = {"unusual_api_calls"}
<1>0. 100 <= MaxApiCalls /\ MaxApiCalls \in Int
  BY DEF MaxApiCalls
<1>1. CASE type = "TRUCK"
  BY <1>1, SMT DEF Ranges
<1>2. CASE type = "WAREHOUSE"
  BY <1>2, SMT DEF Ranges
<1>3. CASE type = "SENSOR"
  BY <1>3, SMT DEF Ranges
<1>4. CASE type = "VEHICLE_GATEWAY"
  <2>1. Ranges(type) = [failed_logins |-> 0..100]
    BY <1>4, SMT DEF Ranges
  <2>. QED
    BY <1>4, <2>1
<1>5. CASE type = "AUTH_SYSTEM"
  <2>1. Ranges(type) = [failed_logins |-> 0..10000]
    BY <1>5, SMT DEF Ranges
  <2>2. 0..100 \subseteq 0..10000
    OBVIOUS
  <2>3. Ranges(type)["failed_logins"] = 0..10000 /\ DOMAIN Ranges(type) = {"failed_logins"}
    BY <2>1
  <2>. QED
    BY <1>5, <2>2, <2>3
<1>6. CASE type = "APPLICATION"
  BY <1>6, SMT DEF Ranges
<1>7. CASE type \in {"API_GATEWAY", "DATABASE"}
  <2>1. Ranges(type) = [unusual_api_calls |-> 0..MaxApiCalls]
    BY <1>7, SMT DEF Ranges
  <2>2. 0..100 \subseteq 0..MaxApiCalls
    BY <1>0
  <2>3. /\ Ranges(type)["unusual_api_calls"] = 0..MaxApiCalls
        /\ DOMAIN Ranges(type) = {"unusual_api_calls"}
    BY <2>1
  <2>. QED
    BY <1>7, <2>2, <2>3
<1>. QED
  BY <1>1, <1>2, <1>3, <1>4, <1>5, <1>6, <1>7

\* What is common of each type.
LEMMA CommonFields ==
  ASSUME NEW p, p["asset_type"] \in Kinds, Common(p)
  PROVE  /\ p["asset_type"] = "TRUCK" =>
               /\ p["speed"] \in 19..91 /\ p["temperature"] \in -8..4
               /\ p["fuel"] \in 34..100 /\ p["battery"] \in 70..100
         /\ p["asset_type"] = "WAREHOUSE" =>
               /\ p["temperature"] \in 16..28 /\ p["humidity"] \in 40..70
               /\ p["power_consumption"] \in 21..69
         /\ p["asset_type"] = "SENSOR" => p["temperature"] \in 11..29 /\ p["humidity"] \in 26..74
<1>. DEFINE g == Gauss(p["asset_type"])
<1>1. \A x \in DOMAIN g :
         p[x] \in Clamped(x, g[x][1] - 3 * g[x][2]) .. Clamped(x, g[x][1] + 3 * g[x][2])
  BY DEF Common
<1>2. CASE p["asset_type"] = "TRUCK"
  <2>1. /\ g["speed"] = <<55, 12>> /\ g["temperature"] = <<-2, 2>>
        /\ g["fuel"] = <<70, 12>> /\ g["battery"] = <<85, 5>>
        /\ {"speed", "temperature", "fuel", "battery"} \subseteq DOMAIN g
    BY <1>2, GaussOf
  <2>. HIDE DEF g
  <2>2. /\ p["speed"] \in Clamped("speed", 55 - 3 * 12) .. Clamped("speed", 55 + 3 * 12)
        /\ p["temperature"] \in Clamped("temperature", -2 - 3 * 2) .. Clamped("temperature", -2 + 3 * 2)
        /\ p["fuel"] \in Clamped("fuel", 70 - 3 * 12) .. Clamped("fuel", 70 + 3 * 12)
        /\ p["battery"] \in Clamped("battery", 85 - 3 * 5) .. Clamped("battery", 85 + 3 * 5)
    BY <1>1, <2>1
  <2>. QED
    BY <1>2, <2>2 DEF Clamped
<1>3. CASE p["asset_type"] = "WAREHOUSE"
  <2>1. /\ g["temperature"] = <<22, 2>> /\ g["humidity"] = <<55, 5>>
        /\ g["power_consumption"] = <<45, 8>>
        /\ {"temperature", "humidity", "power_consumption"} \subseteq DOMAIN g
    BY <1>3, GaussOf
  <2>. HIDE DEF g
  <2>2. /\ p["temperature"] \in Clamped("temperature", 22 - 3 * 2) .. Clamped("temperature", 22 + 3 * 2)
        /\ p["humidity"] \in Clamped("humidity", 55 - 3 * 5) .. Clamped("humidity", 55 + 3 * 5)
        /\ p["power_consumption"] \in
              Clamped("power_consumption", 45 - 3 * 8) .. Clamped("power_consumption", 45 + 3 * 8)
    BY <1>1, <2>1
  <2>. QED
    BY <1>3, <2>2 DEF Clamped
<1>4. CASE p["asset_type"] = "SENSOR"
  <2>1. /\ g["temperature"] = <<20, 3>> /\ g["humidity"] = <<50, 8>>
        /\ {"temperature", "humidity"} \subseteq DOMAIN g
    BY <1>4, GaussOf
  <2>. HIDE DEF g
  <2>2. /\ p["temperature"] \in Clamped("temperature", 20 - 3 * 3) .. Clamped("temperature", 20 + 3 * 3)
        /\ p["humidity"] \in Clamped("humidity", 50 - 3 * 8) .. Clamped("humidity", 50 + 3 * 8)
    BY <1>1, <2>1
  <2>. QED
    BY <1>4, <2>2 DEF Clamped
<1>. QED
  BY <1>2, <1>3, <1>4

LEMMA BaseState ==
  ASSUME NEW p, Base(p, p["asset_type"])
  PROVE  infer_state(p) # "offline"
  BY AbsentAssumption DEF Base, infer_state

LEMMA CommonValid ==
  ASSUME NEW p, Base(p, p["asset_type"]), p["asset_type"] \in Kinds, Common(p)
  PROVE  validate(p) /\ Flags(p) = {} /\ infer_health(p) = "good"
<1>. DEFINE type == p["asset_type"]
            ranges == Ranges(type)
<1>0. /\ type = "TRUCK" =>
            /\ ranges["speed"] = 0..120 /\ ranges["temperature"] = -25..30
            /\ ranges["fuel"] = 0..100 /\ ranges["battery"] = 0..100
            /\ DOMAIN ranges = {"speed", "temperature", "fuel", "battery"}
      /\ type = "WAREHOUSE" =>
            /\ ranges["temperature"] = -5..40 /\ ranges["humidity"] = 0..100
            /\ ranges["power_consumption"] = 0..500
            /\ DOMAIN ranges = {"temperature", "humidity", "power_consumption"}
      /\ type = "SENSOR" =>
            /\ ranges["temperature"] = -30..60 /\ ranges["humidity"] = 0..100
            /\ DOMAIN ranges = {"temperature", "humidity"}
      /\ type = "VEHICLE_GATEWAY" =>
            ranges["failed_logins"] = 0..100 /\ DOMAIN ranges = {"failed_logins"}
      /\ type = "AUTH_SYSTEM" =>
            0..100 \subseteq ranges["failed_logins"] /\ DOMAIN ranges = {"failed_logins"}
      /\ type = "APPLICATION" => DOMAIN ranges = {}
      /\ type \in {"API_GATEWAY", "DATABASE"} =>
            0..100 \subseteq ranges["unusual_api_calls"] /\ DOMAIN ranges = {"unusual_api_calls"}
  BY RangesOf
<1>. USE AbsentAssumption, CommonFields DEF Base, Kinds, Quiet
<1>1. validate(p)
  <2>2. validate(p) <=> \A f \in DOMAIN ranges : p[f] = None \/ p[f] \in ranges[f]
    BY DEF validate, InRange
  <2>. HIDE DEF ranges
  <2>3. CASE type \in {"TRUCK", "WAREHOUSE", "SENSOR"}
    BY <1>0, <2>2, <2>3
  <2>4. CASE type = "VEHICLE_GATEWAY"
    BY <1>0, <2>2, <2>4
  <2>5. CASE type = "AUTH_SYSTEM"
    BY <1>0, <2>2, <2>5
  <2>6. CASE type \in Quiet
    <3>1. p["unusual_api_calls"] \in 0..100
      BY <2>6
    <3>. QED
      BY <1>0, <2>2, <2>6, <3>1
  <2>. QED
    BY <2>3, <2>4, <2>5, <2>6
<1>2. /\ ~(p["battery"] # None /\ p["battery"] < 15)
      /\ ~(p["fuel"] # None /\ p["fuel"] < 10)
      /\ ~(p["temperature"] # None /\ (p["temperature"] <= -20 \/ p["temperature"] >= 55))
      /\ ~(p["temperature"] # None /\ p["temperature"] \in 8..54 /\ p["asset_type"] = "TRUCK")
      /\ ~(p["temperature"] # None /\ p["temperature"] \notin -20..60)
  <2>1. CASE p["asset_type"] = "TRUCK"
    BY <2>1
  <2>2. CASE p["asset_type"] \in {"WAREHOUSE", "SENSOR"}
    BY <2>2
  <2>3. CASE p["asset_type"] \in Quiet \cup {"VEHICLE_GATEWAY", "AUTH_SYSTEM"}
    BY <2>3
  <2>. QED
    BY <2>1, <2>2, <2>3
<1>3. p["door_status"] # "OPEN" /\ p["firmware"] # "v1"
  OBVIOUS
<1>4. ~(p["failed_logins"] # None /\ p["failed_logins"] >= 5)
  OBVIOUS
<1>5. ~(p["unusual_api_calls"] # None /\ p["unusual_api_calls"] >= 100)
  OBVIOUS
<1>6. Flags(p) = {}
  BY <1>2, <1>3, <1>4, <1>5 DEF Flags
<1>7. infer_health(p) = "good"
  BY <1>2, <1>4 DEF infer_health
<1>. QED
  BY <1>1, <1>6, <1>7

\* Of a baseline reading that is in range, the rules of the truck's speed and
\* temperature find what is uncommon, and but for them only that of the
\* geofence has anything to say.
LEMMA BaseFound ==
  ASSUME NEW p, NEW a \in Assets, Base(p, TypeOf[a]), p["asset_type"] = TypeOf[a], validate(p),
         NEW f \in all_rules(a, p, p["firmware"])
  PROVE  \/ f \in rule_geofence_breach(a, p)
         \/ f["rule"] \in {"RULE-001", "RULE-002"} /\ TypeOf[a] = "TRUCK" /\ ~Common(p)
<1>. DEFINE type == TypeOf[a]
<1>0. type \in Kinds
  BY KindOf
<1>1. f \in rule_speed(a, p) => f["rule"] = "RULE-001" /\ type = "TRUCK" /\ ~Common(p)
  <2>1. SUFFICES ASSUME f \in rule_speed(a, p)
                 PROVE  f["rule"] = "RULE-001" /\ type = "TRUCK" /\ ~Common(p)
    OBVIOUS
  <2>2. type = "TRUCK" /\ p["speed"] > 100 /\ f = Finding("RULE-001", "high", 90)
    BY <2>1 DEF rule_speed
  <2>3. ~Common(p)
    BY <1>0, <2>2, CommonFields
  <2>. QED
    BY <2>2, <2>3 DEF Finding
<1>2. f \in rule_temperature(a, p) => f["rule"] = "RULE-002" /\ type = "TRUCK" /\ ~Common(p)
  <2>1. SUFFICES ASSUME f \in rule_temperature(a, p)
                 PROVE  f["rule"] = "RULE-002" /\ type = "TRUCK" /\ ~Common(p)
    OBVIOUS
  <2>2. \/ type = "TRUCK" /\ p["temperature"] > 8
        \/ type = "WAREHOUSE" /\ p["temperature"] # None /\ p["temperature"] \notin -5..40
    BY <2>1 DEF rule_temperature
  <2>3. ASSUME type = "WAREHOUSE", p["temperature"] # None, p["temperature"] \notin -5..40
        PROVE  FALSE
    <3>1. "temperature" \in DOMAIN Ranges("WAREHOUSE") /\ Ranges("WAREHOUSE")["temperature"] = -5..40
      BY RangesOf
    <3>. QED
      BY <2>3, <3>1 DEF validate, InRange
  <2>4. type = "TRUCK" /\ p["temperature"] > 8
    BY <2>2, <2>3
  <2>5. ~Common(p)
    BY <1>0, <2>4, CommonFields
  <2>6. f["rule"] = "RULE-002"
    BY <2>1, <2>4 DEF rule_temperature, Finding
  <2>. QED
    BY <2>4, <2>5, <2>6
<1>. USE AbsentAssumption DEF Base, Kinds, Quiet
<1>3. rule_geofence(a, p) = {}
  BY <1>0 DEF rule_geofence
<1>4. rule_auth_burst(p) = {}
  <2>1. ~(p["failed_logins"] # None /\ p["failed_logins"] >= 5)
    BY <1>0
  <2>. QED
    BY <2>1 DEF rule_auth_burst
<1>5. rule_config_tamper(p, p["firmware"]) = {}
  BY DEF rule_config_tamper
<1>6. rule_heartbeat(a, p) = {}
  BY <1>0 DEF rule_heartbeat
<1>7. rule_port_scan(p) = {}
  BY <1>0 DEF rule_port_scan
<1>. QED
  BY <1>1, <1>2, <1>3, <1>4, <1>5, <1>6, <1>7 DEF all_rules

\* That rule speaks of trucks only, and on a road only if the road strays.
LEMMA BreachStrays ==
  ASSUME NEW a \in Assets, NEW p, NEW f \in rule_geofence_breach(a, p)
  PROVE  /\ TypeOf[a] = "TRUCK" /\ f["rule"] = "RULE-010"
         /\ TrackInv /\ OnRoad(p["distance"], road[a]) => Strays(a)
<1>1. /\ TypeOf[a] = "TRUCK" /\ a \in DOMAIN Zone
      /\ \/ p["distance"] > Zone[a].radius
         \/ p["distance"] > Zone[a].radius - Zone[a].buffer
  BY DEF rule_geofence_breach
<1>2. f["rule"] = "RULE-010"
  BY DEF rule_geofence_breach, Finding
<1>3. ASSUME TrackInv, OnRoad(p["distance"], road[a])
      PROVE  Strays(a)
  <2>1. PICK i \in DOMAIN road[a] : p["distance"] <= Distance(road[a][i])
    BY <1>3 DEF OnRoad
  <2>2. PICK d \in Int : d = p["distance"]
    BY <1>3 DEF OnRoad
  <2>3. PICK far \in Int : far = Distance(road[a][i])
    <3>1. road[a][i] \in Int
      BY <1>1, <1>3, <2>1, RoadOf
    <3>. QED
      BY <3>1 DEF Distance
  <2>4. PICK radius \in Nat, buffer \in Nat : radius = Zone[a].radius /\ buffer = Zone[a].buffer
    BY <1>1, ZoneAssumption
  <2>5. far > radius - buffer
    BY <1>1, <2>1, <2>2, <2>3, <2>4
  <2>. QED
    BY <2>1, <2>3, <2>4, <2>5 DEF Strays
<1>. QED
  BY <1>1, <1>2, <1>3

\* An anomaly of a truck, a gateway or a sign-on is found if it is stored; one
\* of a warehouse is never stored.
LEMMA OddFound ==
  ASSUME NEW p, NEW a \in Assets, Odd(p, TypeOf[a]), p["asset_type"] = TypeOf[a],
         TypeOf[a] = "TRUCK" => p["distance"] \in Int
  PROVE  /\ TypeOf[a] = "WAREHOUSE" => ~validate(p)
         /\ TypeOf[a] \in {"TRUCK", "VEHICLE_GATEWAY", "AUTH_SYSTEM"} /\ validate(p) =>
               \E f \in all_rules(a, p, p["firmware"]) : f["rule"] # "RULE-010"
<1>. USE AbsentAssumption
<1>1. CASE TypeOf[a] = "WAREHOUSE"
  <2>1. "temperature" \in DOMAIN Ranges("WAREHOUSE") /\ Ranges("WAREHOUSE")["temperature"] = -5..40
    BY RangesOf
  <2>2. p["temperature"] # None /\ p["temperature"] \notin -5..40
    BY <1>1 DEF Odd
  <2>. QED
    BY <1>1, <2>1, <2>2 DEF validate, InRange
<1>2. CASE TypeOf[a] \in {"VEHICLE_GATEWAY", "AUTH_SYSTEM"}
  <2>1. p["failed_logins"] # None /\ p["failed_logins"] >= 5 /\ p["failed_logins"] >= 10
    BY <1>2 DEF Odd
  <2>2. Finding("RULE-006", "high", 85) \in rule_auth_burst(p)
    BY <2>1 DEF rule_auth_burst
  <2>3. Finding("RULE-006", "high", 85) \in all_rules(a, p, p["firmware"])
    BY <2>2 DEF all_rules
  <2>4. Finding("RULE-006", "high", 85)["rule"] # "RULE-010"
    BY DEF Finding
  <2>. QED
    BY <1>2, <2>3, <2>4
<1>3. CASE TypeOf[a] = "TRUCK"
  <2>1. p["speed"] \in {110, 160} \/ p["temperature"] \in {12, 20} \/ p["inRegion"] = FALSE
    BY <1>3 DEF Odd
  <2>2. CASE p["speed"] \in {110, 160}
    <3>1. Finding("RULE-001", "high", 90) \in rule_speed(a, p)
      BY <1>3, <2>2 DEF rule_speed
    <3>2. Finding("RULE-001", "high", 90)["rule"] # "RULE-010"
      BY DEF Finding
    <3>. QED
      BY <1>3, <3>1, <3>2 DEF all_rules
  <2>3. CASE p["temperature"] \in {12, 20}
    <3>1. PICK severity : rule_temperature(a, p) = {Finding("RULE-002", severity, 90)}
      BY <1>3, <2>3 DEF rule_temperature
    <3>2. Finding("RULE-002", severity, 90)["rule"] # "RULE-010"
      BY DEF Finding
    <3>. QED
      BY <1>3, <3>1, <3>2 DEF all_rules
  <2>4. CASE p["inRegion"] = FALSE
    <3>1. Finding("RULE-003", "critical", 95) \in rule_geofence(a, p)
      BY <1>3, <2>4 DEF rule_geofence
    <3>2. Finding("RULE-003", "critical", 95)["rule"] # "RULE-010"
      BY DEF Finding
    <3>. QED
      BY <1>3, <3>1, <3>2 DEF all_rules
  <2>. QED
    BY <1>3, <2>1, <2>2, <2>3, <2>4
<1>4. CASE TypeOf[a] \notin {"WAREHOUSE", "TRUCK", "VEHICLE_GATEWAY", "AUTH_SYSTEM"}
  BY <1>4
<1>. QED
  BY <1>1, <1>2, <1>3, <1>4

LEMMA ReceiveJudged ==
  ASSUME TrackInv, ReadingInv, Receive
  PROVE  ReadingInv'
<1>. DEFINE p == reading["payload"]
            a == p["asset_id"]
            judged == [phase |-> "stored", flags |-> Flags(p), state |-> infer_state(p),
                       health |-> infer_health(p), findings |-> all_rules(a, p, p["firmware"])]
<1>1. /\ reading["phase"] = "posted" /\ Posted(p, reading["anomaly"]) /\ road' = road
      /\ reading["anomaly"] \in BOOLEAN /\ reading["findings"] = {} /\ reading["state"] = None
  BY DEF Receive, ReadingInv
<1>2. a \in Assets /\ p["asset_type"] = TypeOf[a] /\ TypeOf[a] \in Kinds
  BY <1>1, KindOf DEF Posted
<1>3. reading' = IF validate(p) THEN With(reading, judged) ELSE With(reading, [phase |-> "refused"])
  BY DEF Receive
<1>4. DOMAIN reading = {"phase", "anomaly", "payload", "flags", "state", "health", "findings"}
  BY DEF ReadingInv, NoReading
<1>5. CASE validate(p)
  <2>1. /\ DOMAIN reading' = DOMAIN NoReading
        /\ reading'["phase"] = "stored" /\ reading'["anomaly"] = reading["anomaly"]
        /\ reading'["payload"] = p /\ reading'["flags"] = Flags(p)
        /\ reading'["state"] = infer_state(p) /\ reading'["health"] = infer_health(p)
        /\ reading'["findings"] = all_rules(a, p, p["firmware"])
    BY <1>3, <1>4, <1>5, WithFields DEF ReadingInv
  <2>2. ASSUME reading["anomaly"]
        PROVE  AnomalyMet(p["asset_type"])'
    <3>1. Odd(p, TypeOf[a])
      BY <1>1, <1>2, <2>2 DEF Posted
    <3>2. CASE TypeOf[a] \in Quiet \cup {"SENSOR"}
      <4>1. Base(p, TypeOf[a])
        BY <3>1, <3>2 DEF Odd
      <4>2. rule_geofence_breach(a, p) = {}
        BY <3>2 DEF rule_geofence_breach, Quiet
      <4>3. reading'["findings"] = {}
        BY <1>2, <1>5, <2>1, <3>2, <4>1, <4>2, BaseFound DEF Quiet
      <4>. QED
        BY <1>2, <2>1, <3>2, <4>3 DEF AnomalyMet, Quiet
    <3>3. CASE TypeOf[a] \notin Quiet \cup {"SENSOR"}
      <4>1. /\ TypeOf[a] # "WAREHOUSE"
            /\ TypeOf[a] \in {"TRUCK", "VEHICLE_GATEWAY", "AUTH_SYSTEM"}
        BY <1>1, <1>2, <1>5, <3>1, <3>3, OddFound DEF Posted, Kinds
      <4>2. \E f \in reading'["findings"] : f["rule"] # "RULE-010"
        BY <1>1, <1>2, <1>5, <2>1, <3>1, <4>1, OddFound DEF Posted
      <4>. QED
        BY <1>2, <2>1, <4>1, <4>2 DEF AnomalyMet
    <3>. QED
      BY <3>2, <3>3
  <2>3. ASSUME ~reading["anomaly"]
        PROVE  BaselineMet(p)'
    <3>1. Base(p, TypeOf[a]) /\ (TypeOf[a] = "TRUCK" => OnRoad(p["distance"], road[a]))
      BY <1>1, <1>2, <2>3 DEF Posted
    <3>2. infer_state(p) # "offline"
      BY <1>2, <3>1, BaseState
    <3>3. Common(p) => Flags(p) = {} /\ infer_health(p) = "good"
      BY <1>2, <3>1, CommonValid
    <3>4. ASSUME NEW f \in reading'["findings"]
          PROVE  \/ f["rule"] = "RULE-010" /\ Strays(a)
                 \/ f["rule"] \in {"RULE-001", "RULE-002"} /\ p["asset_type"] = "TRUCK" /\ ~Common(p)
      BY <1>2, <1>5, <2>1, <3>1, <3>4, BaseFound, BreachStrays
    <3>5. Strays(a)' <=> Strays(a)
      BY <1>1, <2>1 DEF Strays
    <3>6. Common(p)' <=> Common(p)
      BY <2>1 DEF Common
    <3>. QED
      BY <2>1, <3>2, <3>3, <3>4, <3>5, <3>6 DEF BaselineMet, Kept
  <2>. QED
    BY <1>1, <2>1, <2>2, <2>3 DEF ReadingInv, Arrived
<1>6. CASE ~validate(p)
  <2>1. /\ DOMAIN reading' = DOMAIN NoReading
        /\ reading'["phase"] = "refused" /\ reading'["anomaly"] = reading["anomaly"]
        /\ reading'["payload"] = p /\ reading'["findings"] = {} /\ reading'["state"] = None
    BY <1>1, <1>3, <1>4, <1>6, WithFields DEF ReadingInv
  <2>2. ASSUME reading["anomaly"]
        PROVE  AnomalyMet(p["asset_type"])'
    BY <2>1 DEF AnomalyMet, Kept
  <2>3. ASSUME ~reading["anomaly"]
        PROVE  BaselineMet(p)'
    <3>1. Base(p, TypeOf[a])
      BY <1>1, <1>2, <2>3 DEF Posted
    <3>2. ~Common(p)
      BY <1>2, <1>6, <3>1, CommonValid
    <3>3. ~Common(p)'
      BY <2>1, <3>2 DEF Common
    <3>. QED
      BY <2>1, <3>3, AbsentAssumption DEF BaselineMet
  <2>. QED
    BY <1>1, <2>1, <2>2, <2>3 DEF ReadingInv, Arrived
<1>. QED
  BY <1>5, <1>6

-----------------------------------------------------------------------------
(* The steps.                                                              *)

LEMMA TurnIsAsset == ASSUME SentInv PROVE Turn \in Assets
<1>1. PICK n \in Nat \ {0} : n = Len(Fleet) /\ DOMAIN Fleet = 1..n
  BY FleetAssumption
<1>2. PICK k \in Nat : k = generator["sent"]
  BY DEF SentInv
<1>3. (k % n) + 1 \in 1..n
  OBVIOUS
<1>4. \A i \in 1..n : Fleet[i] \in Assets
  BY <1>1, FleetAssumption
<1>. QED
  BY <1>1, <1>2, <1>3, <1>4 DEF Turn

\* A reading goes out.
LEMMA PublishKeeps ==
  ASSUME TrafficInv, Publish
  PROVE  TrafficInv'
<1>. USE DEF TrafficInv
<1>. DEFINE Bodies(x) == IF x THEN inject_anomaly(TypeOf[Turn]) ELSE GENERATORS(TypeOf[Turn])
            mine == IF Turn \in Drivers THEN Moved(tracker[Turn]) ELSE None
            Sends(x, body) ==
               /\ reading' = With(NoReading, [phase |-> "posted", anomaly |-> x,
                                              payload |-> BuildPayload(Turn, body, mine)])
               /\ tracker' = IF Turn \in Drivers /\ body.inRegion
                             THEN [tracker EXCEPT ![Turn] = mine] ELSE tracker
               /\ generator' = With(generator,
                      [sent |-> generator.sent + 1,
                       anomalies |-> generator.anomalies + (IF x THEN 1 ELSE 0)])
<1>0. PICK anomaly \in IF generator.mode = "attack" THEN BOOLEAN ELSE {FALSE} :
         \E body \in Bodies(anomaly) : Sends(anomaly, body)
  BY DEF Publish
<1>1. PICK body \in Bodies(anomaly) : Sends(anomaly, body)
  BY <1>0
<1>mode. anomaly \in BOOLEAN /\ (anomaly => generator["mode"] = "attack")
  BY <1>0
<1>moved. PICK moved : moved = mine
  OBVIOUS
<1>reading. reading' = With(NoReading, [phase |-> "posted", anomaly |-> anomaly,
                                        payload |-> BuildPayload(Turn, body, moved)])
  BY <1>1, <1>moved, Zenon
<1>tracker. tracker' = tracker \/ (Turn \in Drivers /\ tracker' = [tracker EXCEPT ![Turn] = moved])
  BY <1>1, <1>moved
<1>generator. generator' = With(generator,
                 [sent |-> generator["sent"] + 1,
                  anomalies |-> generator["anomalies"] + (IF anomaly THEN 1 ELSE 0)])
  BY <1>1
<1>2. Turn \in Assets
  BY TurnIsAsset
<1>3. TypeOf[Turn] = "TRUCK" => moved \in Trackers
  <2>1. TypeOf[Turn] = "TRUCK" => Turn \in Drivers
    BY <1>2, FleetAssumption
  <2>. QED
    BY <1>moved, <2>1, MovedOn DEF TrackInv
<1>4. road' = road /\ reading["phase"] = "none"
  BY DEF Publish
<1>5. TrackInv'
  <2>1. Turn \in Drivers => moved \in Trackers
    BY <1>moved, MovedOn DEF TrackInv
  <2>. QED
    BY <1>tracker, <1>4, <2>1 DEF TrackInv
<1>6. Posted(BuildPayload(Turn, body, moved), anomaly)
  BY <1>1, <1>2, <1>3, <1>mode, BuildPosted
<1>7. /\ DOMAIN reading' = DOMAIN NoReading
      /\ reading'["phase"] = "posted" /\ reading'["anomaly"] = anomaly
      /\ reading'["payload"] = BuildPayload(Turn, body, moved)
      /\ reading'["findings"] = {} /\ reading'["state"] = None
  <2>. DEFINE f == [phase |-> "posted", anomaly |-> anomaly,
                    payload |-> BuildPayload(Turn, body, moved)]
  <2>2. /\ {"phase", "anomaly", "payload", "findings", "state"} \subseteq DOMAIN NoReading
        /\ NoReading["findings"] = {} /\ NoReading["state"] = None
    BY DEF NoReading
  <2>3. reading' = With(NoReading, f)
    BY <1>reading, Zenon
  <2>4. /\ DOMAIN f = {"phase", "anomaly", "payload"}
        /\ f["phase"] = "posted" /\ f["anomaly"] = anomaly /\ f["payload"] = BuildPayload(Turn, body, moved)
    OBVIOUS
  <2>. HIDE DEF f
  <2>. QED
    BY <2>2, <2>3, <2>4, WithFields
<1>8. ReadingInv'
  <2>1. ~Arrived'
    BY <1>7 DEF Arrived
  <2>. QED
    BY <1>4, <1>6, <1>7, <1>mode, <2>1 DEF ReadingInv, Posted
<1>9. SentInv'
  <2>1. /\ DOMAIN generator' = DOMAIN generator
        /\ generator'["mode"] = generator["mode"] /\ generator'["ok"] = generator["ok"]
        /\ generator'["failed"] = generator["failed"]
        /\ generator'["sent"] = generator["sent"] + 1
        /\ generator'["anomalies"] = generator["anomalies"] + (IF anomaly THEN 1 ELSE 0)
    BY <1>generator, WithFields DEF SentInv
  <2>. QED
    BY <1>mode, <1>4, <1>7, <2>1 DEF SentInv
<1>. QED
  BY <1>5, <1>8, <1>9

\* An answer, or none, is counted.
LEMMA CountKeeps ==
  ASSUME TrafficInv, NEW outcome \in {"ok", "failed"}, reading["phase"] # "none", Count(outcome)
  PROVE  TrafficInv'
<1>1. /\ generator' = [generator EXCEPT ![outcome] = generator[outcome] + 1]
      /\ reading' = NoReading /\ road' = road /\ tracker' = tracker
  BY DEF Count
<1>2. /\ NoReading["phase"] = "none" /\ NoReading["anomaly"] = FALSE
  BY DEF NoReading
<1>3. ReadingInv' /\ TrackInv'
  BY <1>1, <1>2 DEF TrafficInv, ReadingInv, TrackInv, Arrived
<1>4. SentInv'
  <2>1. /\ DOMAIN generator' = DOMAIN generator
        /\ generator'["mode"] = generator["mode"] /\ generator'["sent"] = generator["sent"]
        /\ generator'["anomalies"] = generator["anomalies"]
        /\ generator'["ok"] + generator'["failed"] = generator["ok"] + generator["failed"] + 1
        /\ generator'["ok"] \in Nat /\ generator'["failed"] \in Nat
    BY <1>1 DEF TrafficInv, SentInv
  <2>. QED
    BY <1>1, <1>2, <2>1 DEF TrafficInv, SentInv
<1>. QED
  BY <1>3, <1>4 DEF TrafficInv

\* What is judged depends on the reading and the roads only.
LEMMA Untouched ==
  ASSUME TrafficInv, UNCHANGED trafficVars
  PROVE  TrafficInv'
<1>1. UNCHANGED <<generator, road, tracker, reading>>
  BY DEF trafficVars
<1>2. TrackInv' /\ SentInv'
  BY <1>1 DEF TrafficInv, TrackInv, SentInv
<1>3. ReadingInv'
  BY <1>1 DEF TrafficInv, ReadingInv, Posted, Arrived, AnomalyMet, BaselineMet, Common, Kept, Strays
<1>. QED
  BY <1>2, <1>3 DEF TrafficInv

LEMMA TrafficInvNext ==
  ASSUME TrafficInv, [Next]_vars
  PROVE  TrafficInv'
<1>1. CASE UNCHANGED trafficVars
  BY <1>1, Untouched
<1>2. CASE Generator
  <2>1. CASE Publish
    BY <2>1, PublishKeeps
  <2>2. CASE Receive
    <3>1. UNCHANGED <<generator, road, tracker>> /\ reading["phase"] = "posted"
      BY <2>2 DEF Receive
    <3>2. reading'["phase"] # "none"
      <4>1. "phase" \in DOMAIN reading
        BY DEF TrafficInv, ReadingInv, NoReading
      <4>2. CASE validate(reading["payload"])
        BY <2>2, <4>1, <4>2, WithFields DEF Receive
      <4>3. CASE ~validate(reading["payload"])
        BY <2>2, <4>1, <4>3, WithFields DEF Receive
      <4>. QED
        BY <4>2, <4>3
    <3>3. TrackInv' /\ SentInv'
      BY <3>1, <3>2 DEF TrafficInv, TrackInv, SentInv
    <3>. QED
      BY <2>2, <3>3, ReceiveJudged DEF TrafficInv
  <2>3. CASE Respond
    BY <2>3, CountKeeps DEF Respond
  <2>4. CASE Lose
    BY <2>4, CountKeeps DEF Lose
  <2>. QED
    BY <1>2, <2>1, <2>2, <2>3, <2>4 DEF Generator, Generate
<1>3. CASE Restart
  <2>1. Cut /\ UNCHANGED <<generator, road, tracker>>
    BY <1>3 DEF Restart
  <2>2. CASE reading["phase"] = "none"
    BY <1>1, <2>1, <2>2 DEF Cut, trafficVars
  <2>3. CASE reading["phase"] # "none"
    <3>1. /\ DOMAIN reading' = DOMAIN NoReading
          /\ reading'["phase"] = "cut" /\ reading'["anomaly"] = reading["anomaly"]
      BY <2>1, <2>3, WithFields DEF Cut, TrafficInv, ReadingInv, NoReading
    <3>. QED
      BY <2>1, <2>3, <3>1 DEF TrafficInv, TrackInv, SentInv, ReadingInv, Arrived
  <2>. QED
    BY <2>2, <2>3
<1>4. CASE Mqtt \/ Forwarders \/ Ditto \/ UNCHANGED vars
  BY <1>1, <1>4 DEF Mqtt, Forwarders, Ditto, OfDitto, trafficVars, vars
<1>. QED
  BY <1>2, <1>3, <1>4 DEF Next

LEMMA TrafficInvInit == Init => TrafficInv
<1> SUFFICES ASSUME Init
             PROVE  TrafficInv
  OBVIOUS
<1>1. /\ generator \in [mode : {"normal", "attack"}, sent : {0}, ok : {0}, failed : {0}, anomalies : {0}]
      /\ \A a \in Drivers : road[a] \in {Waypoints[a], Osrm[a]}
      /\ tracker = [a \in Drivers |-> [progress |-> 0, direction |-> 1]]
      /\ reading = NoReading
  BY DEF Init, TrafficInit
<1>2. NoReading["phase"] = "none" /\ NoReading["anomaly"] = FALSE
  BY DEF NoReading
<1>3. TrackInv
  BY <1>1 DEF TrackInv, Trackers
<1>4. SentInv
  BY <1>1, <1>2 DEF SentInv
<1>5. ReadingInv
  BY <1>1, <1>2 DEF ReadingInv, Arrived
<1>. QED
  BY <1>3, <1>4, <1>5 DEF TrafficInv

\* However far the draws lie: a baseline reading whose draws are common is
\* stored and finds its asset well, and no rule fires but RULE-010 on a road
\* that leaves the inner zone; an uncommon one may be refused or found by the
\* truck's two rules; an injected anomaly is refused or detected, except where
\* it is none; and the counters add up (traffic_generator.py, validate,
\* all_rules).
THEOREM TrafficIsJudged == Spec => []TrafficJudged
<1>1. TrafficInv => TrafficJudged
  <2>1. ReadingInv /\ SentInv => TrafficJudged
    BY DEF ReadingInv, SentInv, TrafficJudged
  <2>. QED
    BY <2>1 DEF TrafficInv
<1>2. TrafficInv /\ [Next]_vars => TrafficInv'
  BY TrafficInvNext
<1>. QED
  BY <1>1, <1>2, TrafficInvInit, PTL DEF Spec
=============================================================================
