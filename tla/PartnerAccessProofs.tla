------------------------ MODULE PartnerAccessProofs ------------------------
(***************************************************************************)
(* Proofs about PartnerAccess, for every set of requests, accounts,        *)
(* partners, nonces, amounts and periods, and any number of restarts.      *)
(*                                                                         *)
(* None of the invariants is inductive: what an answered request may claim *)
(* rests on what each of its steps has left behind.  Sound says that for a *)
(* request at any stage, Genuine for a stored commitment, Earned for an    *)
(* audit row.                                                              *)
(***************************************************************************)
EXTENDS PartnerAccess, TLAPS

\* The endpoints that are called with a token.
Tokened == {"refresh", "forecast", "commit", "list"}

\* The stages in which a request knows whom it acts for.
Acting == {"decoded", "unused", "denying", "auditing", "answered"}

\* Requests that were answered with a token pair.
Issued == {q \in Requests : stage[q] = "answered" /\ call[q].op \in Issuing}

Audited(r) == \E e \in trail : e.req = r
Committed(r) == \E c \in commitments : c.req = r

\* The shape of the tables and of what the requests keep.
Shape ==
    /\ users \subseteq User
    /\ \A u, v \in users : u.name = v.name => u = v
    /\ revoked \subseteq Issued
    /\ restarts \in 0..MaxRestarts
    /\ stage \in [Requests -> Stages]
    /\ DOMAIN call = Requests
    /\ DOMAIN claims = Requests
    /\ spent \in [Requests -> SUBSET Requests]
    /\ \A r \in Requests : claims[r] # None => claims[r].boot \in 0..restarts
    /\ \A c, d \in commitments : c.nonce = d.nonce => c = d

\* Whom a request acts for, and with what.
Identified(r) ==
    /\ stage[r] # "new" /\ call[r].op \in Tokened => call[r].token \in Issued
    /\ stage[r] = "creating" => call[r].op = "register" /\ claims[r].user \in User
    /\ stage[r] \in Acting => claims[r].user \in users
    /\ stage[r] \in Acting \cup {"creating"} => claims[r].boot \in 0..restarts

\* A rotation: what it was given was not spent when it began, and is now.
Rotating(r) ==
    /\ stage[r] = "decoded" => call[r].op = "refresh"
    /\ stage[r] \in {"decoded", "auditing", "answered"} /\ call[r].op = "refresh" =>
          call[r].token \notin spent[r]
    /\ stage[r] \in {"auditing", "answered"} /\ call[r].op = "refresh" /\ claims[r].boot = restarts =>
          call[r].token \in revoked

\* A call of a partner endpoint.
Sharing(r) ==
    /\ stage[r] = "unused" =>
          /\ call[r].op = "commit"
          /\ claims[r].user.role = "PARTNER" /\ claims[r].user.org \in Orgs
    /\ stage[r] = "denying" => call[r].op \in Tokened \ {"refresh"} /\ CrossOrg(call[r])
    /\ stage[r] \in {"unused", "auditing", "answered"} /\ call[r].op \in Tokened \ {"refresh"} =>
          call[r].org \in {None, claims[r].user.org}
    /\ stage[r] # "new" /\ call[r].op = "commit" =>
          /\ call[r].capacity \in Capacities
          /\ call[r].period \in Periods /\ ValidPeriod(call[r].period)
    /\ stage[r] \in {"auditing", "answered"} /\ call[r].op = "commit" => Committed(r)

\* What a request may be answered for.
Answerable(r) ==
    /\ stage[r] = "auditing" => call[r].op \in Issuing \cup {"forecast", "commit"}
    /\ stage[r] = "answered" => call[r].op \in Issuing \cup Tokened
    /\ stage[r] = "answered" /\ call[r].op # "list" => Audited(r)

Sound(r) == Identified(r) /\ Rotating(r) /\ Sharing(r) /\ Answerable(r)

\* A stored commitment is what its request was sent, signed.
Genuine(c) ==
    /\ c.req \in Requests /\ stage[c.req] # "new" /\ call[c.req].op = "commit"
    /\ c.org \in Orgs
    /\ \E u \in users : u.role = "PARTNER" /\ u.org = c.org /\ u = claims[c.req].user
    /\ c.capacity = Stored(call[c.req].capacity)
    /\ c.start = call[c.req].period.start.wall /\ c.end = call[c.req].period.end.wall
    /\ c.signature = <<c.org, c.start, c.end, Signed(call[c.req].capacity)>>
    /\ Audited(c.req) \/ stage[c.req] \in {"auditing", "failed"}

\* An audit row tells of something that happened.
Earned(e) ==
    /\ e.req \in Requests /\ stage[e.req] # "new"
    /\ e.action \in
            {"USER_REGISTERED", "USER_LOGIN_SUCCESS", "JWT_REFRESH_ROTATED",
             "PARTNER_ACCESS_DENIED", "PARTNER_FORECAST_VIEWED", "PARTNER_COMMITMENT_CREATED"}
    /\ call[e.req].op = "commit" =>
          \/ call[e.req].token \in Issued /\ CrossOrg(call[e.req])
          \/ Committed(e.req)

IInv ==
    /\ Shape
    /\ \A r \in Requests : Sound(r)
    /\ \A c \in commitments : Genuine(c)
    /\ \A e \in trail : Earned(e)

-----------------------------------------------------------------------------
(* The invariants follow from it.                                          *)

\* An amount in hundredths is a natural number.
LEMMA StoredType == ASSUME NEW c \in Nat PROVE Stored(c) \in Nat
BY DEF Stored

\* Tables, stages and claims have their types: a stored amount because it
\* is what its request was sent, rounded.
LEMMA InvImpliesTypeOK == IInv => TypeOK
<1> SUFFICES ASSUME IInv PROVE TypeOK
  OBVIOUS
<1>1. ASSUME NEW c \in commitments
      PROVE  c.req \in Requests /\ c.org \in Orgs /\ c.capacity \in Nat
  <2>1. Genuine(c)
    BY <1>1 DEF IInv
  <2>2. call[c.req].capacity \in Nat
    BY <2>1, CapacitiesAssumption DEF IInv, Genuine, Sound, Sharing
  <2>3. c.capacity \in Nat
    BY <2>1, <2>2, StoredType DEF Genuine
  <2>. QED
    BY <2>1, <2>3 DEF Genuine
<1>2. \A e \in trail : e.req \in Requests /\ e.action \in
            {"USER_REGISTERED", "USER_LOGIN_SUCCESS", "JWT_REFRESH_ROTATED",
             "PARTNER_ACCESS_DENIED", "PARTNER_FORECAST_VIEWED", "PARTNER_COMMITMENT_CREATED"}
  BY DEF IInv, Earned
<1>. QED
  BY <1>1, <1>2 DEF IInv, Shape, TypeOK, Issued

\* Uniqueness of the nonces is part of the shape, and an answered commitment
\* was stored before it was audited.
LEMMA InvImpliesCommitmentPerNonce == IInv => CommitmentPerNonce
BY DEF IInv, Shape, Sound, Sharing, Committed, CommitmentPerNonce

\* A rotation is answered only if its pair was not known as spent when it began.
LEMMA InvImpliesRotatedStaysSpent == IInv => RotatedStaysSpent
BY DEF IInv, Sound, Rotating, RotatedStaysSpent

\* Whom a request speaks for is an account, and the organisation it may name
\* is that account's.
LEMMA InvImpliesActsForItsAccount == IInv => ActsForItsAccount
<1> SUFFICES ASSUME IInv PROVE ActsForItsAccount
  OBVIOUS
<1>1. ASSUME NEW r \in Requests, stage[r] = "answered"
      PROVE  /\ claims[r].user \in users
             /\ call[r].op \notin Issuing => call[r].org \in {None, claims[r].user.org}
  BY <1>1 DEF IInv, Sound, Identified, Sharing, Answerable, Acting, Tokened, Issuing
<1>2. \A c \in commitments :
          \E u \in users : u.role = "PARTNER" /\ u.org = c.org /\ u = claims[c.req].user
  BY DEF IInv, Genuine
<1>. QED
  BY <1>1, <1>2 DEF IInv, Shape, ActsForItsAccount

\* Answers and commitments have their rows, and rows their commitments.
LEMMA InvImpliesEffectsAudited == IInv => EffectsAudited
BY DEF IInv, Sound, Answerable, Genuine, Earned, Audited, Committed, EffectsAudited

\* The signature of a row covers its columns but for the rounding of the
\* amount, and a valid period with one offset stays in order.
LEMMA InvImpliesCommitmentFaithful == IInv => CommitmentFaithful
<1> SUFFICES ASSUME IInv, NEW c \in commitments
             PROVE  LET amount == call[c.req].capacity
                        period == call[c.req].period
                    IN /\ verify_commitment(c) <=> Stored(amount) = Signed(amount)
                       /\ period.start.offset = period.end.offset => c.end > c.start
  BY DEF CommitmentFaithful
<1> DEFINE amount == call[c.req].capacity
           period == call[c.req].period
<1>1. Genuine(c)
  BY DEF IInv
<1>2. /\ c.capacity = Stored(amount)
      /\ c.start = period.start.wall /\ c.end = period.end.wall
      /\ c.signature = <<c.org, c.start, c.end, Signed(amount)>>
  BY <1>1 DEF Genuine
<1>3. period \in Periods /\ ValidPeriod(period)
  BY <1>1 DEF IInv, Genuine, Sound, Sharing
<1> HIDE DEF amount, period
<1>4. verify_commitment(c) <=> Stored(amount) = Signed(amount)
  BY <1>2 DEF verify_commitment
<1>5. period.start.offset = period.end.offset => c.end > c.start
  <2>1. /\ period.start.wall \in Int /\ period.start.offset \in Int
        /\ period.end.wall \in Int /\ period.end.offset \in Int
    BY <1>3, PeriodsAssumption
  <2>2. Instant(period.end) > Instant(period.start)
    BY <1>3 DEF ValidPeriod
  <2>. QED
    BY <1>2, <2>1, <2>2 DEF Instant
<1>. QED
  BY <1>4, <1>5 DEF amount, period

-----------------------------------------------------------------------------
(* The start, and the first step of a request.                             *)

\* Nothing has been called, stored or audited at the start.
LEMMA InitSound == Init => IInv
<1> SUFFICES ASSUME Init PROVE IInv
  OBVIOUS
<1>1. Shape
  BY AccountsAssumption, BoundsAssumption DEF Init, Shape, Stages, Issued
<1>2. ASSUME NEW r \in Requests PROVE Sound(r)
  BY DEF Init, Sound, Identified, Rotating, Sharing, Answerable, Acting
<1>. QED
  BY <1>1, <1>2 DEF Init, IInv

\* What has been answered, stored and audited stays as it is while another
\* request begins: it is enough that the new request is sound.
LEMMA BeginKeeps ==
  ASSUME IInv, NEW r \in Requests, NEW c, NEW who \in User \cup {None}, NEW s \in Stages \ {"new"},
         Begin(r, c, who, s), UNCHANGED <<db, revoked, restarts>>,
         Sound(r)'
  PROVE  IInv'
<1>1. /\ stage[r] = "new" /\ stage' = [stage EXCEPT ![r] = s]
      /\ call' = [call EXCEPT ![r] = c]
      /\ claims' = [claims EXCEPT ![r] =
            IF who = None THEN None
            ELSE [user |-> who, key |-> Key, boot |-> restarts]]
      /\ spent' = [spent EXCEPT ![r] = RotatedOut]
      /\ UNCHANGED <<users, commitments, trail, revoked, restarts>>
  BY DEF Begin, Goto, db
<1>2. \A q \in Requests \ {r} : /\ stage'[q] = stage[q] /\ call'[q] = call[q]
                                /\ claims'[q] = claims[q] /\ spent'[q] = spent[q]
  BY <1>1 DEF IInv, Shape
<1>3. Issued \subseteq Issued' /\ r \notin Issued
  BY <1>1, <1>2 DEF Issued
<1>4. Shape'
  <2>1. RotatedOut \subseteq Requests
    BY DEF RotatedOut, IInv, Shape, Sound, Identified, Issued, Tokened
  <2>2. spent' \in [Requests -> SUBSET Requests] /\ stage' \in [Requests -> Stages]
    BY <1>1, <2>1 DEF IInv, Shape
  <2>3. claims'[r] # None => claims'[r].boot \in 0..restarts
    BY <1>1, BoundsAssumption DEF IInv, Shape
  <2>4. revoked' \subseteq Issued'
    BY <1>1, <1>3 DEF IInv, Shape
  <2>5. DOMAIN call' = Requests /\ DOMAIN claims' = Requests
    BY <1>1 DEF IInv, Shape
  <2>. QED
    BY <1>1, <1>2, <2>2, <2>3, <2>4, <2>5 DEF IInv, Shape
<1>5. ASSUME NEW q \in Requests \ {r} PROVE Sound(q)'
  <2>1. Sound(q)
    BY DEF IInv
  <2>2. Identified(q)'
    BY <1>1, <1>2, <1>3, <2>1 DEF Sound, Identified
  <2>3. Rotating(q)'
    BY <1>1, <1>2, <2>1 DEF Sound, Rotating
  <2>4. stage[q] = "denying" => call[q].token \in Requests \ {r}
    BY <1>3, <2>1 DEF Sound, Sharing, Identified, Issued, Tokened
  <2>5. Sharing(q)'
    BY <1>1, <1>2, <2>1, <2>4 DEF Sound, Sharing, CrossOrg, Committed
  <2>6. Answerable(q)'
    BY <1>1, <1>2, <2>1 DEF Sound, Answerable, Audited
  <2>. QED
    BY <2>2, <2>3, <2>5, <2>6 DEF Sound
<1>6. ASSUME NEW d \in commitments PROVE Genuine(d)'
  BY <1>1, <1>2 DEF IInv, Genuine, Audited
<1>7. ASSUME NEW e \in trail PROVE Earned(e)'
  <2>1. Earned(e) /\ e.req \in Requests \ {r}
    BY <1>1 DEF IInv, Earned
  <2>2. call[e.req].token \in Issued => call[e.req].token \in Requests \ {r}
    BY <1>3 DEF Issued
  <2>. QED
    BY <1>1, <1>2, <1>3, <2>1, <2>2 DEF Earned, CrossOrg, Committed
<1>. QED
  BY <1>1, <1>4, <1>5, <1>6, <1>7 DEF IInv

\* What has been rotated since the process started is spent.
LEMMA RotatedOutIsRevoked == IInv => RotatedOut \subseteq revoked
BY DEF IInv, Sound, Rotating, RotatedOut

\* What the request keeps from its first step on.
LEMMA BeginSelf ==
  ASSUME IInv, NEW r \in Requests, NEW c, NEW who \in User \cup {None}, NEW s, Begin(r, c, who, s)
  PROVE  /\ stage'[r] = s /\ call'[r] = c /\ spent'[r] = RotatedOut
         /\ who # None => claims'[r].user = who /\ claims'[r].boot = restarts
         /\ \A q \in Issued : /\ q # r
                              /\ stage'[q] = stage[q] /\ call'[q] = call[q] /\ claims'[q] = claims[q]
<1> DEFINE claim == [user |-> who, key |-> Key, boot |-> restarts]
<1>1. /\ stage[r] = "new" /\ stage' = [stage EXCEPT ![r] = s]
      /\ call' = [call EXCEPT ![r] = c]
      /\ claims' = [claims EXCEPT ![r] = IF who = None THEN None ELSE claim]
      /\ spent' = [spent EXCEPT ![r] = RotatedOut]
  BY DEF Begin, Goto
<1>2. claim.user = who /\ claim.boot = restarts
  OBVIOUS
<1>3. \A q \in Issued : q \in Requests /\ q # r
  BY <1>1 DEF Issued
<1> HIDE DEF claim
<1>4. stage'[r] = s /\ call'[r] = c /\ spent'[r] = RotatedOut
  BY <1>1 DEF IInv, Shape
<1>5. who # None => claims'[r] = claim
  BY <1>1 DEF IInv, Shape
<1>6. \A q \in Issued : stage'[q] = stage[q] /\ call'[q] = call[q] /\ claims'[q] = claims[q]
  BY <1>1, <1>3 DEF IInv, Shape
<1>7. who # None => claims'[r].user = who /\ claims'[r].boot = restarts
  BY <1>2, <1>5
<1>. QED
  BY <1>3, <1>4, <1>6, <1>7

-----------------------------------------------------------------------------
(* The handlers, up to their first await on another session.               *)

\* A registration speaks for the account it asks for, which is not stored yet.
LEMMA RegisterKeeps ==
  ASSUME IInv, NEW r \in Requests, NEW name \in Names, NEW asked \in SignUps, Register(r, name, asked)
  PROVE  IInv'
<1> DEFINE c == [op |-> "register", name |-> name]
           who == [name |-> name, role |-> asked.role, org |-> asked.org]
<1>1. who \in User \cup {None} /\ who # None
  BY AccountsAssumption, NamesAssumption DEF User
<1>2. PICK s \in {"refused", "creating"} : Begin(r, c, who, s)
  BY DEF Register
<1>3. c.op = "register" /\ s \in Stages \ {"new"} /\ UNCHANGED <<db, revoked, restarts>>
  BY DEF Register, Stages
<1> HIDE DEF c, who
<1>4. /\ stage'[r] = s /\ call'[r] = c
      /\ claims'[r].user = who /\ claims'[r].boot = restarts
  BY <1>1, <1>2, BeginSelf
<1>5. restarts' = restarts /\ restarts \in 0..restarts
  BY <1>3, BoundsAssumption DEF IInv, Shape
<1>6. Sound(r)'
  BY <1>1, <1>2, <1>3, <1>4, <1>5
  DEF Sound, Identified, Rotating, Sharing, Answerable, Acting, Tokened
<1>. QED
  BY <1>1, <1>2, <1>3, <1>6, BeginKeeps

\* A request that is refused at once claims nothing.
LEMMA RefusedIsSound ==
  ASSUME IInv, NEW r \in Requests, NEW c, NEW who \in User \cup {None}, Begin(r, c, who, "refused"),
         UNCHANGED <<db, revoked, restarts>>,
         c.op \in Tokened => c.token \in Issued,
         c.op = "commit" => /\ c.capacity \in Capacities
                            /\ c.period \in Periods /\ ValidPeriod(c.period)
  PROVE  IInv'
<1>1. /\ stage'[r] = "refused" /\ call'[r] = c
      /\ \A q \in Issued : stage'[q] = stage[q] /\ call'[q] = call[q]
  BY BeginSelf
<1>2. Sound(r)'
  BY <1>1 DEF Sound, Identified, Rotating, Sharing, Answerable, Acting, Issued
<1>3. "refused" \in Stages \ {"new"}
  BY DEF Stages
<1>. QED
  BY <1>2, <1>3, BeginKeeps

\* A login speaks for a stored account, or for nobody.
LEMMA LoginKeeps ==
  ASSUME IInv, NEW r \in Requests, NEW name \in Names, Login(r, name)
  PROVE  IInv'
<1> DEFINE c == [op |-> "login", name |-> name]
<1>1. c.op = "login"
  OBVIOUS
<1> HIDE DEF c
<1>2. CASE \E u \in Account(name) : Begin(r, c, u, "auditing")
  <2>1. PICK u \in Account(name) : Begin(r, c, u, "auditing")
    BY <1>2
  <2>2. u \in users /\ u \in User /\ u # None /\ "auditing" \in Stages \ {"new"}
    BY NamesAssumption DEF Account, IInv, Shape, Stages
  <2>3. /\ stage'[r] = "auditing" /\ call'[r] = c
        /\ claims'[r].user = u /\ claims'[r].boot = restarts
    BY <2>1, <2>2, BeginSelf
  <2>4. UNCHANGED <<db, revoked, restarts>>
    BY DEF Login
  <2>5. restarts \in 0..restarts
    BY BoundsAssumption DEF IInv, Shape
  <2>6. Sound(r)'
    BY <1>1, <2>2, <2>3, <2>4, <2>5
    DEF Sound, Identified, Rotating, Sharing, Answerable, Acting, Tokened, Issuing, db
  <2>. QED
    BY <2>1, <2>2, <2>4, <2>6, BeginKeeps
<1>3. CASE Begin(r, c, None, "refused")
  BY <1>1, <1>3, RefusedIsSound DEF Login, Tokened
<1>. QED
  BY <1>2, <1>3 DEF Login, c

\* A token that is refreshed is not spent, so nobody was answered for it.
LEMMA RefreshKeeps ==
  ASSUME IInv, NEW r \in Requests, NEW q \in Issued, Refresh(r, q)
  PROVE  IInv'
<1> DEFINE c == [op |-> "refresh", token |-> q]
<1>1. c.op = "refresh" /\ c.token = q
  OBVIOUS
<1> HIDE DEF c
<1>2. CASE q \in Held \ revoked /\ Begin(r, c, claims[q].user, "decoded")
  <2>1. claims[q].user \in users /\ claims[q].user \in User /\ claims[q].user # None
    BY NamesAssumption DEF IInv, Shape, Sound, Identified, Issued, Acting
  <2>2. /\ stage'[r] = "decoded" /\ call'[r] = c /\ spent'[r] = RotatedOut
        /\ claims'[r].user = claims[q].user /\ claims'[r].boot = restarts
        /\ stage'[q] = stage[q] /\ call'[q] = call[q]
    BY <1>2, <2>1, BeginSelf
  <2>3. UNCHANGED <<db, revoked, restarts>>
    BY DEF Refresh
  <2>4. restarts \in 0..restarts /\ q \notin RotatedOut
    BY <1>2, RotatedOutIsRevoked, BoundsAssumption DEF IInv, Shape
  <2>5. Identified(r)' /\ Rotating(r)'
    BY <1>1, <2>1, <2>2, <2>3, <2>4 DEF Identified, Rotating, Acting, Issued, db
  <2>6. Sharing(r)' /\ Answerable(r)'
    BY <1>1, <2>2 DEF Sharing, Answerable
  <2>7. "decoded" \in Stages \ {"new"}
    BY DEF Stages
  <2>. QED
    BY <1>2, <2>1, <2>3, <2>5, <2>6, <2>7, BeginKeeps DEF Sound
<1>3. CASE Begin(r, c, None, "refused")
  BY <1>1, <1>3, RefusedIsSound DEF Refresh
<1>. QED
  BY <1>2, <1>3 DEF Refresh, c

\* A partner's call speaks for the account of its token; one that names
\* another organisation is on its way to be refused.
LEMMA PartnerKeeps ==
  ASSUME IInv, NEW r \in Requests, NEW c, c.token \in Held, Partner(c.token),
         NEW s \in {"denying", "unused", "auditing", "answered", "refused"},
         Begin(r, c, claims[c.token].user, s), UNCHANGED <<db, revoked, restarts>>,
         c.op \in {"forecast", "commit", "list"},
         s = "denying" => CrossOrg(c),
         s \in {"unused", "auditing", "answered"} => ~CrossOrg(c),
         s = "unused" => c.op = "commit" /\ claims[c.token].user.org \in Orgs,
         s = "auditing" => c.op = "forecast",
         s = "answered" => c.op = "list",
         c.op = "commit" => /\ c.capacity \in Capacities
                            /\ c.period \in Periods /\ ValidPeriod(c.period)
  PROVE  IInv'
<1> DEFINE q == c.token
           who == claims[c.token].user
<1>1. q \in Issued /\ q \in Requests
  BY DEF Held, Issued
<1>2. who \in users /\ who \in User /\ who # None /\ s \in Stages \ {"new"}
  BY <1>1, NamesAssumption DEF IInv, Shape, Sound, Identified, Issued, Acting, Stages
<1>3. /\ stage'[r] = s /\ call'[r] = c
      /\ claims'[r].user = who /\ claims'[r].boot = restarts
      /\ stage'[q] = stage[q] /\ call'[q] = call[q] /\ claims'[q] = claims[q]
  BY <1>1, <1>2, BeginSelf
<1>4. restarts' = restarts /\ users' = users /\ restarts \in 0..restarts
  BY BoundsAssumption DEF IInv, Shape, db
<1>5. Identified(r)'
  BY <1>1, <1>2, <1>3, <1>4 DEF Identified, Acting, Issued, Tokened
<1>6. Rotating(r)'
  BY <1>3 DEF Rotating
<1>7. Sharing(r)'
  BY <1>3 DEF Sharing, CrossOrg, Partner, Tokened
<1>8. Answerable(r)'
  BY <1>3 DEF Answerable, Issuing, Tokened
<1>. QED
  BY <1>2, <1>5, <1>6, <1>7, <1>8, BeginKeeps DEF Sound

\* A forecast is audited next only for a partner of the region that named no
\* other organisation.
LEMMA ForecastKeeps ==
  ASSUME IInv, NEW r \in Requests, NEW q \in Requests, NEW org \in Orgs \cup {None},
         NEW region, Forecast(r, q, org, region)
  PROVE  IInv'
<1> DEFINE c == [op |-> "forecast", token |-> q, org |-> org, region |-> region]
           granted == /\ Partners[claims[q].user.org] = region
                      /\ Cardinality(Contributors(region)) >= K
           s == IF CrossOrg(c) THEN "denying"
                ELSE IF claims[q].user.org \in Orgs /\ granted THEN "auditing" ELSE "refused"
<1>1. c.op = "forecast" /\ c.token = q
  OBVIOUS
<1>2. BeginPartner(r, c, granted, "auditing") /\ q \in Held
  BY DEF Forecast
<1>3. q \in Issued /\ UNCHANGED <<db, revoked, restarts>>
  BY <1>2 DEF Held, Issued, BeginPartner
<1> HIDE DEF c, granted
<1>4. CASE Partner(q) /\ Begin(r, c, claims[q].user, s)
  BY <1>1, <1>2, <1>3, <1>4, PartnerKeeps
<1>5. CASE Begin(r, c, None, "refused")
  BY <1>1, <1>3, <1>5, RefusedIsSound
<1>. QED
  BY <1>1, <1>2, <1>4, <1>5 DEF BeginPartner

\* A commitment goes on to be stored only for a partner organisation, and
\* with a valid period.
LEMMA CommitKeeps ==
  ASSUME IInv, NEW r \in Requests, NEW q \in Requests, NEW org \in Orgs \cup {None},
         NEW nonce, NEW capacity \in Capacities, NEW period \in Periods,
         Commit(r, q, org, nonce, capacity, period)
  PROVE  IInv'
<1> DEFINE c == [op |-> "commit", token |-> q, org |-> org, nonce |-> nonce,
                 capacity |-> capacity, period |-> period]
           granted == ~Used(nonce)
           s == IF CrossOrg(c) THEN "denying"
                ELSE IF claims[q].user.org \in Orgs /\ granted THEN "unused" ELSE "refused"
<1>1. c.op = "commit" /\ c.token = q /\ c.capacity = capacity /\ c.period = period
  OBVIOUS
<1>2. BeginPartner(r, c, granted, "unused") /\ q \in Held /\ ValidPeriod(period)
  BY DEF Commit
<1>3. q \in Issued /\ UNCHANGED <<db, revoked, restarts>>
  BY <1>2 DEF Held, Issued, BeginPartner
<1> HIDE DEF c, granted
<1>4. CASE Partner(q) /\ Begin(r, c, claims[q].user, s)
  BY <1>1, <1>2, <1>3, <1>4, PartnerKeeps
<1>5. CASE Begin(r, c, None, "refused")
  BY <1>1, <1>2, <1>3, <1>5, RefusedIsSound
<1>. QED
  BY <1>1, <1>2, <1>4, <1>5 DEF BeginPartner

\* A list is answered at once to a partner that named no other organisation.
LEMMA ListKeeps ==
  ASSUME IInv, NEW r \in Requests, NEW q \in Requests, NEW org \in Orgs \cup {None}, List(r, q, org)
  PROVE  IInv'
<1> DEFINE c == [op |-> "list", token |-> q, org |-> org]
           s == IF CrossOrg(c) THEN "denying" ELSE "answered"
<1>1. c.op = "list" /\ c.token = q
  OBVIOUS
<1>2. q \in Held /\ q \in Issued /\ UNCHANGED <<db, revoked, restarts>>
  BY DEF List, Held, Issued
<1>3. \/ Partner(q) /\ Begin(r, c, claims[q].user, s)
      \/ Begin(r, c, None, "refused")
  BY DEF List
<1> HIDE DEF c
<1>4. CASE Partner(q) /\ Begin(r, c, claims[q].user, s)
  BY <1>1, <1>2, <1>4, PartnerKeeps
<1>5. CASE Begin(r, c, None, "refused")
  BY <1>1, <1>2, <1>5, RefusedIsSound
<1>. QED
  BY <1>3, <1>4, <1>5

-----------------------------------------------------------------------------
(* The later steps of a request.                                           *)

\* A later step of one request leaves the others sound: tables and spent
\* tokens only grow, and only that request's own stage moves.
LEMMA StepKeeps ==
  ASSUME IInv, NEW r \in Requests, NEW s \in Stages \ {"new"},
         stage[r] \notin Ended \cup {"new"}, stage' = [stage EXCEPT ![r] = s],
         UNCHANGED <<restarts, call, claims, spent>>,
         users \subseteq users', users' \subseteq User,
         \A u, v \in users' : u.name = v.name => u = v,
         commitments \subseteq commitments', trail \subseteq trail',
         \A c, d \in commitments' : c.nonce = d.nonce => c = d,
         revoked \subseteq revoked', revoked' \subseteq revoked \cup Issued,
         s \in {"auditing", "failed"} \/ Audited(r)',
         Sound(r)',
         \A c \in commitments' \ commitments : Genuine(c)',
         \A e \in trail' \ trail : Earned(e)'
  PROVE  IInv'
<1>1. \A q \in Requests \ {r} : stage'[q] = stage[q]
  BY DEF IInv, Shape
<1>2. stage'[r] = s /\ stage[r] # "answered"
  BY DEF IInv, Shape, Ended
<1>3. Issued \subseteq Issued'
  BY <1>1, <1>2 DEF Issued
<1>4. Shape'
  <2>1. stage' \in [Requests -> Stages]
    BY DEF IInv, Shape
  <2>2. revoked' \subseteq Issued'
    BY <1>3 DEF IInv, Shape
  <2>. QED
    BY <2>1, <2>2 DEF IInv, Shape
<1>5. \A q \in Requests : /\ Audited(q) => Audited(q)'
                          /\ Committed(q) => Committed(q)'
  BY DEF Audited, Committed
<1>6. ASSUME NEW q \in Requests \ {r} PROVE Sound(q)'
  <2>1. Sound(q)
    BY DEF IInv
  <2>2. Identified(q)'
    BY <1>1, <1>3, <2>1 DEF Sound, Identified
  <2>3. Rotating(q)'
    BY <1>1, <2>1 DEF Sound, Rotating
  <2>4. Sharing(q)'
    BY <1>1, <1>5, <2>1 DEF Sound, Sharing, CrossOrg
  <2>5. Answerable(q)'
    BY <1>1, <1>5, <2>1 DEF Sound, Answerable
  <2>. QED
    BY <2>2, <2>3, <2>4, <2>5 DEF Sound
<1>7. ASSUME NEW c \in commitments PROVE Genuine(c)'
  <2>1. Genuine(c) /\ c.req \in Requests
    BY DEF IInv, Genuine
  <2>2. stage'[c.req] # "new"
    BY <1>1, <1>2, <2>1 DEF Genuine
  <2>3. Audited(c.req)' \/ stage'[c.req] \in {"auditing", "failed"}
    <3>1. CASE c.req = r
      BY <1>2, <3>1
    <3>2. CASE c.req # r
      BY <1>1, <1>5, <2>1, <3>2 DEF Genuine
    <3>. QED
      BY <3>1, <3>2
  <2>. QED
    BY <2>1, <2>2, <2>3 DEF Genuine
<1>8. ASSUME NEW e \in trail PROVE Earned(e)'
  <2>1. Earned(e) /\ e.req \in Requests
    BY DEF IInv, Earned
  <2>2. stage'[e.req] # "new"
    BY <1>1, <1>2, <2>1 DEF Earned
  <2>. QED
    BY <1>3, <1>5, <2>1, <2>2 DEF Earned, CrossOrg
<1>. QED
  BY <1>4, <1>6, <1>7, <1>8 DEF IInv

\* The account is stored for the request that claims it; a name that was
\* taken meanwhile stays with the other.
LEMMA CreateUserKeeps == ASSUME IInv, NEW r \in Requests, CreateUser(r) PROVE IInv'
<1>1. PICK s \in {"auditing", "failed"} : stage' = [stage EXCEPT ![r] = s]
  BY DEF CreateUser, Goto
<1>2. /\ stage[r] = "creating" /\ stage'[r] = s /\ s \in Stages \ {"new"}
      /\ UNCHANGED <<commitments, trail, revoked, restarts, call, claims, spent>>
  BY <1>1 DEF CreateUser, IInv, Shape, Stages
<1>3. Sound(r) /\ call[r].op = "register" /\ claims[r].user \in User
  BY <1>2 DEF IInv, Sound, Identified
<1>4. /\ users \subseteq users' /\ users' \subseteq User
      /\ \A u, v \in users' : u.name = v.name => u = v
  BY <1>3 DEF CreateUser, Account, IInv, Shape
<1>5. s = "auditing" => claims[r].user \in users'
  <2>1. CASE Account(claims[r].user.name) = {}
    BY <2>1 DEF CreateUser
  <2>2. CASE Account(claims[r].user.name) # {}
    BY <1>2, <2>2 DEF CreateUser, Goto, IInv, Shape
  <2>. QED
    BY <2>1, <2>2
<1>6. Sound(r)'
  BY <1>1, <1>2, <1>3, <1>5
  DEF Sound, Identified, Rotating, Sharing, Answerable, Acting, Tokened, Issuing
<1>. QED
  BY <1>1, <1>2, <1>4, <1>6, StepKeeps DEF Ended, IInv, Shape

\* The pair that is rotated is spent before the new one is answered.
LEMMA RevokeKeeps == ASSUME IInv, NEW r \in Requests, Revoke(r) PROVE IInv'
<1>1. /\ stage[r] = "decoded" /\ stage' = [stage EXCEPT ![r] = "auditing"]
      /\ revoked' = revoked \cup {call[r].token}
      /\ UNCHANGED <<users, commitments, trail, restarts, call, claims, spent>>
  BY DEF Revoke, Goto, db
<1>2. stage'[r] = "auditing" /\ "auditing" \in Stages \ {"new"}
  BY <1>1 DEF IInv, Shape, Stages
<1>3. Sound(r) /\ call[r].op = "refresh"
  BY <1>1 DEF IInv, Sound, Rotating
<1>4. call[r].token \in Issued
  BY <1>1, <1>3 DEF Sound, Identified, Tokened
<1>5. Issued \subseteq Issued'
  BY <1>1 DEF Issued, IInv, Shape
<1>6. Identified(r)'
  BY <1>1, <1>2, <1>3, <1>5 DEF Sound, Identified, Acting
<1>7. Rotating(r)'
  BY <1>1, <1>2, <1>3 DEF Sound, Rotating
<1>8. Sharing(r)' /\ Answerable(r)'
  BY <1>1, <1>2, <1>3 DEF Sharing, Answerable, Issuing
<1>9. Sound(r)'
  BY <1>6, <1>7, <1>8 DEF Sound
<1>. QED
  BY <1>1, <1>2, <1>4, <1>9, StepKeeps DEF Ended, IInv, Shape

\* The unique column lets a commitment in only under a nonce of its own.
LEMMA PersistKeeps == ASSUME IInv, NEW r \in Requests, Persist(r) PROVE IInv'
<1> DEFINE new == Entity(r, claims[r].user.org)
<1>1. PICK s \in {"auditing", "failed"} : stage' = [stage EXCEPT ![r] = s]
  BY DEF Persist, Goto
<1>2. /\ stage[r] = "unused" /\ stage'[r] = s /\ s \in Stages \ {"new"}
      /\ UNCHANGED <<users, trail, revoked, restarts, call, claims, spent>>
  BY <1>1 DEF Persist, IInv, Shape, Stages
<1>3. /\ Sound(r) /\ call[r].op = "commit"
      /\ claims[r].user \in users
      /\ claims[r].user.role = "PARTNER" /\ claims[r].user.org \in Orgs
  BY <1>2 DEF IInv, Sound, Sharing, Identified, Acting
<1>4. /\ new.req = r /\ new.org = claims[r].user.org /\ new.nonce = Nonce(r)
      /\ new.start = call[r].period.start.wall /\ new.end = call[r].period.end.wall
      /\ new.capacity = Stored(call[r].capacity)
      /\ new.signature = <<new.org, new.start, new.end, Signed(call[r].capacity)>>
  BY DEF Entity
<1>5. \/ /\ s = "failed" /\ commitments' = commitments
      \/ /\ s = "auditing" /\ commitments' = commitments \cup {new}
         /\ ~Used(Nonce(r))
  BY <1>2 DEF Persist, Goto, IInv, Shape
<1> HIDE DEF new
<1>6. \A c, d \in commitments' : c.nonce = d.nonce => c = d
  BY <1>4, <1>5 DEF Used, IInv, Shape
<1>7. s = "auditing" => Committed(r)'
  BY <1>4, <1>5 DEF Committed
<1>8. Issued \subseteq Issued'
  BY <1>1, <1>2 DEF Issued, IInv, Shape
<1>9. Sound(r)'
  <2>1. Identified(r)'
    BY <1>2, <1>3, <1>8 DEF Sound, Identified, Acting
  <2>2. Rotating(r)' /\ Answerable(r)'
    BY <1>1, <1>2, <1>3 DEF Rotating, Answerable
  <2>3. Sharing(r)'
    BY <1>1, <1>2, <1>3, <1>7 DEF Sound, Sharing
  <2>. QED
    BY <2>1, <2>2, <2>3 DEF Sound
<1>10. ASSUME NEW c \in commitments' \ commitments PROVE Genuine(c)'
  <2>1. c = new /\ s = "auditing"
    BY <1>5
  <2>2. \E u \in users' : u.role = "PARTNER" /\ u.org = c.org /\ u = claims'[c.req].user
    BY <1>2, <1>3, <1>4, <2>1
  <2>. QED
    BY <1>2, <1>3, <1>4, <2>1, <2>2 DEF Genuine
<1>. QED
  BY <1>1, <1>2, <1>5, <1>6, <1>9, <1>10, StepKeeps DEF Ended, IInv, Shape

\* A row is written for what was done, or for a call that is refused.
LEMMA AuditKeeps == ASSUME IInv, NEW r \in Requests, Audit(r) PROVE IInv'
<1> DEFINE row == [req |-> r, action |-> Action(r)]
<1>1. PICK s \in {"refused", "answered", "failed"} :
          /\ stage' = [stage EXCEPT ![r] = s]
          /\ s = "answered" => stage[r] = "auditing"
  BY DEF Audit, Goto
<1>2. /\ stage[r] \in {"auditing", "denying"} /\ stage'[r] = s /\ s \in Stages \ {"new"}
      /\ trail' = trail \cup {row}
      /\ UNCHANGED <<users, commitments, revoked, restarts, call, claims, spent>>
  BY <1>1 DEF Audit, IInv, Shape, Stages
<1>3. Sound(r)
  BY DEF IInv
<1>4. stage[r] = "auditing" => call[r].op \in {"register", "login", "refresh", "forecast", "commit"}
  BY <1>3 DEF Sound, Answerable, Issuing
<1>5. row.req = r /\ row.action \in
            {"USER_REGISTERED", "USER_LOGIN_SUCCESS", "JWT_REFRESH_ROTATED",
             "PARTNER_ACCESS_DENIED", "PARTNER_FORECAST_VIEWED", "PARTNER_COMMITMENT_CREATED"}
  BY <1>2, <1>4 DEF Action
<1> HIDE DEF row
<1>6. Audited(r)'
  BY <1>2, <1>5 DEF Audited
<1>7. Issued \subseteq Issued'
  BY <1>1, <1>2 DEF Issued, IInv, Shape
<1>8. Sound(r)'
  <2>1. Identified(r)'
    BY <1>1, <1>2, <1>3, <1>7 DEF Sound, Identified, Acting
  <2>2. Rotating(r)'
    BY <1>1, <1>2, <1>3 DEF Sound, Rotating
  <2>3. Sharing(r)'
    BY <1>1, <1>2, <1>3 DEF Sound, Sharing, Committed
  <2>4. Answerable(r)'
    BY <1>1, <1>2, <1>4, <1>6 DEF Answerable, Issuing, Tokened
  <2>. QED
    BY <2>1, <2>2, <2>3, <2>4 DEF Sound
<1>9. call[r].op = "commit" =>
          \/ call[r].token \in Issued /\ CrossOrg(call[r])
          \/ Committed(r)
  BY <1>2, <1>3 DEF Sound, Sharing, Identified, Tokened
<1>10. ASSUME NEW e \in trail' \ trail PROVE Earned(e)'
  <2>1. e = row
    BY <1>2
  <2>2. CrossOrg(call[r])' <=> CrossOrg(call[r])
    BY <1>2 DEF CrossOrg
  <2>3. Committed(r)' <=> Committed(r)
    BY <1>2 DEF Committed
  <2>. QED
    BY <1>2, <1>5, <1>7, <1>9, <2>1, <2>2, <2>3 DEF Earned
<1>. QED
  BY <1>1, <1>2, <1>6, <1>8, <1>10, StepKeeps DEF Ended, IInv, Shape

\* A statement that fails ends the request; what it had done stays.
LEMMA FailKeeps == ASSUME IInv, NEW r \in Requests, Fail(r) PROVE IInv'
<1>1. /\ stage[r] \notin Ended \cup {"new"} /\ stage' = [stage EXCEPT ![r] = "failed"]
      /\ UNCHANGED <<users, commitments, trail, revoked, restarts, call, claims, spent>>
  BY DEF Fail, Goto, db
<1>2. stage'[r] = "failed" /\ "failed" \in Stages \ {"new"}
  BY <1>1 DEF IInv, Shape, Stages
<1>3. Issued \subseteq Issued'
  BY <1>1 DEF Issued, IInv, Shape, Ended
<1>4. Sound(r)'
  BY <1>1, <1>2, <1>3 DEF IInv, Sound, Identified, Rotating, Sharing, Answerable, Acting
<1>. QED
  BY <1>1, <1>2, <1>4, StepKeeps DEF IInv, Shape

\* A restart forgets what was spent, and with it every rotation it counted.
LEMMA RestartKeeps == ASSUME IInv, Restart PROVE IInv'
<1>1. /\ restarts < MaxRestarts /\ restarts' = restarts + 1 /\ revoked' = {}
      /\ UNCHANGED <<users, commitments, trail, call, claims, spent>>
  BY DEF Restart, db
<1>2. \A r \in Requests :
          stage'[r] = IF stage[r] \in Ended \cup {"new"} THEN stage[r] ELSE "failed"
  BY DEF Restart
<1>3. \A r \in Requests : stage'[r] = stage[r] \/ stage'[r] = "failed"
  BY <1>2
<1>4. /\ restarts \in Nat /\ restarts' \in 0..MaxRestarts
      /\ \A b \in 0..restarts : b \in 0..restarts' /\ b # restarts'
  BY <1>1, BoundsAssumption DEF IInv, Shape
<1>5. Issued' = Issued
  BY <1>1, <1>2 DEF Issued, Ended
<1>6. Shape'
  <2>1. stage' \in [Requests -> Stages]
    BY DEF Restart, IInv, Shape, Stages
  <2>. QED
    BY <1>1, <1>4, <1>5, <2>1 DEF IInv, Shape
<1>7. ASSUME NEW r \in Requests PROVE Sound(r)'
  <2>1. Sound(r) /\ stage'[r] \in {"new", "answered", "refused", "failed"}
        /\ (stage'[r] # "failed" => stage'[r] = stage[r])
        /\ (stage'[r] # "new" => stage[r] # "new")
    BY <1>2 DEF IInv, Ended
  <2>2. Identified(r)'
    BY <1>1, <1>4, <1>5, <2>1 DEF Sound, Identified, Acting
  <2>3. Rotating(r)'
    BY <1>1, <1>4, <2>1 DEF Sound, Rotating, Identified, Acting
  <2>4. Sharing(r)'
    BY <1>1, <2>1 DEF Sound, Sharing, Committed
  <2>5. Answerable(r)'
    BY <1>1, <2>1 DEF Sound, Answerable, Audited
  <2>. QED
    BY <2>2, <2>3, <2>4, <2>5 DEF Sound
<1>8. ASSUME NEW c \in commitments PROVE Genuine(c)'
  BY <1>1, <1>3, <1>2 DEF IInv, Genuine, Audited, Ended
<1>9. ASSUME NEW e \in trail PROVE Earned(e)'
  <2>1. Earned(e)
    BY DEF IInv
  <2>2. CrossOrg(call[e.req])' <=> CrossOrg(call[e.req])
    BY <1>1 DEF CrossOrg
  <2>. QED
    BY <1>1, <1>3, <1>5, <2>1, <2>2 DEF Earned, Committed
<1>. QED
  BY <1>1, <1>6, <1>7, <1>8, <1>9 DEF IInv

-----------------------------------------------------------------------------
(* The theorems.                                                           *)

\* Every step of the backend keeps the inductive invariant.
LEMMA InvNext == IInv /\ [Next]_vars => IInv'
<1> SUFFICES ASSUME IInv, [Next]_vars PROVE IInv'
  OBVIOUS
<1>1. ASSUME NEW r \in Requests, NEW name \in Names, NEW asked \in SignUps,
             Register(r, name, asked)
      PROVE  IInv'
  BY <1>1, RegisterKeeps
<1>2. ASSUME NEW r \in Requests, NEW name \in Names, Login(r, name) PROVE IInv'
  BY <1>2, LoginKeeps
<1>3. ASSUME NEW r \in Requests,
             CreateUser(r) \/ Revoke(r) \/ Persist(r) \/ Audit(r) \/ Fail(r)
      PROVE  IInv'
  BY <1>3, CreateUserKeeps, RevokeKeeps, PersistKeeps, AuditKeeps, FailKeeps
<1>4. ASSUME NEW r \in Requests, NEW q \in Requests,
             stage[q] = "answered" /\ call[q].op \in Issuing /\ Refresh(r, q)
      PROVE  IInv'
  BY <1>4, RefreshKeeps DEF Issued
<1>5. ASSUME NEW r \in Requests, NEW q \in Requests, NEW org \in Orgs \cup {None}, List(r, q, org)
      PROVE  IInv'
  BY <1>5, ListKeeps
<1>6. ASSUME NEW r \in Requests, NEW q \in Requests, NEW org \in Orgs \cup {None},
             NEW region \in DOMAIN NodeOrgs, Forecast(r, q, org, region)
      PROVE  IInv'
  BY <1>6, ForecastKeeps
<1>7. ASSUME NEW r \in Requests, NEW q \in Requests, NEW org \in Orgs \cup {None},
             NEW nonce \in Nonces \cup {None}, NEW capacity \in Capacities,
             NEW period \in Periods, Commit(r, q, org, nonce, capacity, period)
      PROVE  IInv'
  BY <1>7, CommitKeeps
<1>8. CASE Restart
  BY <1>8, RestartKeeps
<1>9. CASE UNCHANGED vars
  BY <1>9 DEF vars, IInv, Shape, Sound, Identified, Rotating, Sharing, Answerable, Genuine, Earned,
              Issued, Audited, Committed, CrossOrg
<1>. QED
  BY <1>1, <1>2, <1>3, <1>4, <1>5, <1>6, <1>7, <1>8, <1>9 DEF Next

\* The inductive invariant holds in every state of every execution.
LEMMA InvHolds == Spec => []IInv
BY InitSound, InvNext, PTL DEF Spec

\* Rows, rotated pairs, stages and claims keep their types for every number
\* of requests, accounts and restarts.
THEOREM TypeCorrect == Spec => []TypeOK
BY InvHolds, InvImpliesTypeOK, PTL

\* One commitment at most is stored per nonce, and an answered one is, for
\* every interleaving of create_commitment and _persist.
THEOREM OnePerNonce == Spec => []CommitmentPerNonce
BY InvHolds, InvImpliesCommitmentPerNonce, PTL

\* No request that starts after a rotation was answered in the same process
\* rotates the same pair (rotate_refresh_token).
THEOREM RotationIsFinal == Spec => []RotatedStaysSpent
BY InvHolds, InvImpliesRotatedStaysSpent, PTL

\* A pair speaks for one account however often it was rotated, and partner
\* calls are answered for the caller's organisation only (_verify_org_access).
THEOREM ActsForOneAccount == Spec => []ActsForItsAccount
BY InvHolds, InvImpliesActsForItsAccount, PTL

\* Every answer but a list has its audit row, and a commitment without one
\* belongs to a request that runs or failed (event_bus.publish).
THEOREM AllAudited == Spec => []EffectsAudited
BY InvHolds, InvImpliesEffectsAudited, PTL

\* A stored commitment verifies exactly if both roundings of its amount agree,
\* and its period ends after it starts if the offsets agree (_sign_entity).
THEOREM CommitmentsFaithful == Spec => []CommitmentFaithful
BY InvHolds, InvImpliesCommitmentFaithful, PTL
=============================================================================
