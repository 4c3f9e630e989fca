--------------------------- MODULE PartnerAccess ---------------------------
(***************************************************************************)
(* backend/app: accounts, token pairs and their rotation, and the partner  *)
(* endpoints (forecast and signed capacity commitments).                   *)
(*                                                                         *)
(* Every request runs in a thread of its own.  Its lookups, its commits    *)
(* and its audit row are separate steps, other requests run in between,    *)
(* and it can die after any of them.  The database outlives a restart; the *)
(* set of rotated-out tokens does not, and neither does the signing key    *)
(* unless JWT_SECRET_KEY is set.                                           *)
(*                                                                         *)
(* A token pair is named after the request that was answered with it.      *)
(* Expiry is not counted: any use of a token may be refused with 401.      *)
(* Capacities are in thousandths and are stored in hundredths, times are   *)
(* pairs of a wall clock and its offset from UTC.                          *)
(***************************************************************************)
EXTENDS Integers, FiniteSets

CONSTANTS
    Requests,    \* the requests handled, each in a thread of its own
    Names,       \* usernames
    SeededUsers, \* rows seed_initial_data left behind
    SignUps,     \* the roles and organisations a registration may ask for
    Partners,    \* Partners[o]: the region of partner organisation o
    NodeOrgs,    \* NodeOrgs[g]: organisations of the open nodes of region g
    K,           \* partner_anonymization_k
    Capacities,  \* committed_capacity as sent, in thousandths
    Periods,     \* period_start and period_end as sent
    Nonces,      \* nonces chosen by clients
    KeyFromEnv,  \* is JWT_SECRET_KEY set?
    MaxRestarts, \* bound on the restarts
    None         \* an optional value that is absent

Orgs == DOMAIN Partners

\* A row of users, and whom a token speaks for.
User == [name : Names, role : {"PARTNER", "OTHER"}, org : Orgs \cup {None}]

ASSUME RequestsAssumption == IsFiniteSet(Requests)
ASSUME AccountsAssumption ==
    /\ SeededUsers \subseteq User
    /\ \A u, v \in SeededUsers : u.name = v.name => u = v
    /\ SignUps \subseteq [role: {"PARTNER", "OTHER"}, org: Orgs \cup {None}]
ASSUME CapacitiesAssumption == Capacities \subseteq Nat \ {0}
ASSUME PeriodsAssumption ==
    Periods \subseteq [start: [wall: Int, offset: Int], end: [wall: Int, offset: Int]]
ASSUME NamesAssumption == None \notin Orgs \cup Nonces \cup User /\ Nonces \cap Requests = {}
ASSUME BoundsAssumption == MaxRestarts \in Nat /\ K \in Nat /\ KeyFromEnv \in BOOLEAN

VARIABLES
    users,       \* rows of users
    commitments, \* rows of partner_commitments
    trail,       \* audit rows: which request published what
    revoked,     \* _revoked_jti, in memory: pairs whose refresh half is spent
    restarts,    \* how often the process was started again
    stage,       \* stage[r]: what request r has done last
    call,        \* call[r]: the endpoint r called, and with what
    claims,      \* claims[r]: whom r acts for, and the key of its tokens
    spent        \* history: spent[r], pairs known to be rotated when r began

vars == <<users, commitments, trail, revoked, restarts, stage, call, claims, spent>>
db == <<users, commitments, trail>>

-----------------------------------------------------------------------------
(* Amounts and times.                                                      *)

\* f"{Decimal:.2f}": ties go to the even hundredth.
Signed(c) ==
    LET whole == c \div 10 IN
    IF c % 10 > 5 \/ (c % 10 = 5 /\ whole % 2 = 1) THEN whole + 1 ELSE whole

\* Numeric(12, 2) of the database: ties go away from zero.
Stored(c) == (c + 5) \div 10

Instant(t) == t.wall - t.offset

\* end_after_start and _validate_period compare instants.
ValidPeriod(p) == Instant(p.end) > Instant(p.start)

-----------------------------------------------------------------------------

Key == IF KeyFromEnv THEN 0 ELSE restarts

Stages == {"new", "creating", "decoded", "unused", "denying", "auditing",
           "answered", "refused", "failed"}
Ended == {"answered", "refused", "failed"}

\* The endpoints that answer with a token pair.
Issuing == {"register", "login", "refresh"}

Account(name) == {u \in users : u.name = name}

Init ==
    /\ users = SeededUsers
    /\ commitments = {}
    /\ trail = {}
    /\ revoked = {}
    /\ restarts = 0
    /\ stage = [r \in Requests |-> "new"]
    /\ call = [r \in Requests |-> None]
    /\ claims = [r \in Requests |-> None]
    /\ spent = [r \in Requests |-> {}]

Goto(r, s) == stage' = [stage EXCEPT ![r] = s]

\* The pairs whose rotation has been answered since the process started.
RotatedOut == {call[q].token : q \in {p \in Requests :
    stage[p] = "answered" /\ call[p].op = "refresh" /\ claims[p].boot = restarts}}

Begin(r, c, who, s) ==
    /\ stage[r] = "new"
    /\ call' = [call EXCEPT ![r] = c]
    /\ claims' = [claims EXCEPT ![r] =
            IF who = None THEN None
            ELSE [user |-> who, key |-> Key, boot |-> restarts]]
    /\ spent' = [spent EXCEPT ![r] = RotatedOut]
    /\ Goto(r, s)

-----------------------------------------------------------------------------
(* POST /auth/register and /auth/login.                                    *)

Register(r, name, asked) ==
    /\ Begin(r, [op |-> "register", name |-> name],
             [name |-> name, role |-> asked.role, org |-> asked.org],
             IF Account(name) # {} THEN "refused" ELSE "creating")
    /\ UNCHANGED <<db, revoked, restarts>>

\* The username column is unique: the slower of two registrations fails.
CreateUser(r) ==
    /\ stage[r] = "creating"
    /\ IF Account(claims[r].user.name) = {}
       THEN users' = users \cup {claims[r].user} /\ Goto(r, "auditing")
       ELSE users' = users /\ Goto(r, "failed")
    /\ UNCHANGED <<commitments, trail, revoked, restarts, call, claims, spent>>

Login(r, name) ==
    /\ \/ \E u \in Account(name) :
            Begin(r, [op |-> "login", name |-> name], u, "auditing")
       \/ Begin(r, [op |-> "login", name |-> name], None, "refused")
    /\ UNCHANGED <<db, revoked, restarts>>

-----------------------------------------------------------------------------
(* Tokens.                                                                 *)

\* The pairs that pass the signature check of the running process.
Held == {q \in Requests :
            stage[q] = "answered" /\ call[q].op \in Issuing /\ claims[q].key = Key}

\* decode_token of a refresh token; expiry and a spent jti are 401.
Refresh(r, q) ==
    /\ \/ q \in Held \ revoked
          /\ Begin(r, [op |-> "refresh", token |-> q], claims[q].user, "decoded")
       \/ Begin(r, [op |-> "refresh", token |-> q], None, "refused")
    /\ UNCHANGED <<db, revoked, restarts>>

\* Mutant: the jti of the new pair is added instead of the old one's.
RevokeNew(r) ==
    /\ stage[r] = "decoded"
    /\ revoked' = revoked \cup {r}
    /\ Goto(r, "auditing")
    /\ UNCHANGED <<db, restarts, call, claims, spent>>

\* rotate_refresh_token after decode_token.  The jti is not looked up again,
\* and it stays spent if the audit row that follows fails.
Revoke(r) ==
    /\ stage[r] = "decoded"
    /\ revoked' = revoked \cup {call[r].token}
    /\ Goto(r, "auditing")
    /\ UNCHANGED <<db, restarts, call, claims, spent>>

-----------------------------------------------------------------------------
(* The partner endpoints, called with the access half of pair q.           *)

\* get_current_principal, then get_partner_context.
Partner(q) ==
    q \in Held /\ claims[q].user.role = "PARTNER" /\ claims[q].user.org # None

\* Mutant: only organisations nobody knows are refused.
CrossOrgUnknown(c) == c.org # None /\ c.org \notin Orgs

\* _verify_org_access: naming another organisation is audited and refused.
CrossOrg(c) == c.org # None /\ c.org # claims[c.token].user.org

\* anonymize_forecast: the open nodes' organisations and the active partners.
Contributors(region) == NodeOrgs[region] \cup {o \in Orgs : Partners[o] = region}

BeginPartner(r, c, granted, next) ==
    /\ LET user == claims[c.token].user IN
       \/ /\ Partner(c.token)
          /\ Begin(r, c, user,
                   IF CrossOrg(c) THEN "denying"
                   ELSE IF user.org \in Orgs /\ granted THEN next ELSE "refused")
       \/ Begin(r, c, None, "refused")
    /\ UNCHANGED <<db, revoked, restarts>>

Forecast(r, q, org, region) ==
    q \in Held /\
    BeginPartner(r, [op |-> "forecast", token |-> q, org |-> org, region |-> region],
                 /\ Partners[claims[q].user.org] = region
                 /\ Cardinality(Contributors(region)) >= K,
                 "auditing")

Nonce(r) == IF call[r].nonce = None THEN r ELSE call[r].nonce

Used(nonce) == \E c \in commitments : c.nonce = nonce

\* create_commitment up to the lookup of the nonce; a nonce in use is 409.
\* A period that fails validation is 422 before the handler runs.
Commit(r, q, org, nonce, capacity, period) ==
    q \in Held /\ ValidPeriod(period) /\
    BeginPartner(r, [op |-> "commit", token |-> q, org |-> org, nonce |-> nonce,
                     capacity |-> capacity, period |-> period],
                 ~Used(nonce), "unused")

\* Mutant: the signature covers the instants instead of the stored times.
EntitySignsInstants(r, org) ==
    LET c == call[r] IN
    [req |-> r, org |-> org, nonce |-> Nonce(r),
     start |-> c.period.start.wall, end |-> c.period.end.wall,
     capacity |-> Stored(c.capacity),
     signature |-> <<org, Instant(c.period.start), Instant(c.period.end), Signed(c.capacity)>>]

\* _build_commitment_entity and _sign_entity: the offset of a time is dropped,
\* the amount is signed as it is formatted and stored as the column rounds it.
Entity(r, org) ==
    LET c == call[r] IN
    [req |-> r, org |-> org, nonce |-> Nonce(r),
     start |-> c.period.start.wall, end |-> c.period.end.wall,
     capacity |-> Stored(c.capacity),
     signature |-> <<org, c.period.start.wall, c.period.end.wall, Signed(c.capacity)>>]

\* Mutant: the nonce column is not unique.
PersistUnchecked(r) ==
    /\ stage[r] = "unused"
    /\ commitments' = commitments \cup {Entity(r, claims[r].user.org)}
    /\ Goto(r, "auditing")
    /\ UNCHANGED <<users, trail, revoked, restarts, call, claims, spent>>

\* _persist: the nonce column is unique, and its error is answered with 500.
Persist(r) ==
    /\ stage[r] = "unused"
    /\ IF Used(Nonce(r))
       THEN commitments' = commitments /\ Goto(r, "failed")
       ELSE commitments' = commitments \cup {Entity(r, claims[r].user.org)} /\ Goto(r, "auditing")
    /\ UNCHANGED <<users, trail, revoked, restarts, call, claims, spent>>

\* verify_commitment of a row.
verify_commitment(c) == c.signature = <<c.org, c.start, c.end, c.capacity>>

\* GET /partner/commitments: the rows of the caller's own organisation.
List(r, q, org) ==
    q \in Held /\
    LET c == [op |-> "list", token |-> q, org |-> org]
        user == claims[q].user
    IN
    /\ \/ Partner(q) /\ Begin(r, c, user, IF CrossOrg(c) THEN "denying" ELSE "answered")
       \/ Begin(r, c, None, "refused")
    /\ UNCHANGED <<db, revoked, restarts>>

-----------------------------------------------------------------------------

Action(r) ==
    IF stage[r] = "denying" THEN "PARTNER_ACCESS_DENIED"
    ELSE CASE call[r].op = "register" -> "USER_REGISTERED"
           [] call[r].op = "login"    -> "USER_LOGIN_SUCCESS"
           [] call[r].op = "refresh"  -> "JWT_REFRESH_ROTATED"
           [] call[r].op = "forecast" -> "PARTNER_FORECAST_VIEWED"
           [] call[r].op = "commit"   -> "PARTNER_COMMITMENT_CREATED"

\* Mutant: a failing audit row is logged, and the answer is given anyway.
AuditBestEffort(r) ==
    /\ stage[r] \in {"auditing", "denying"}
    /\ trail' \in {trail, trail \cup {[req |-> r, action |-> Action(r)]}}
    /\ Goto(r, IF stage[r] = "denying" THEN "refused" ELSE "answered")
    /\ UNCHANGED <<users, commitments, revoked, restarts, call, claims, spent>>

\* The audit row, then the answer; reading the row back may still fail.
\* _emit_audit_event catches PartnerError only, so a database error is a 500
\* for a commitment that is stored.
Audit(r) ==
    /\ stage[r] \in {"auditing", "denying"}
    /\ trail' = trail \cup {[req |-> r, action |-> Action(r)]}
    /\ \/ Goto(r, IF stage[r] = "denying" THEN "refused" ELSE "answered")
       \/ Goto(r, "failed")
    /\ UNCHANGED <<users, commitments, revoked, restarts, call, claims, spent>>

\* A statement fails: get_db closes the session, the client is told 500.
Fail(r) ==
    /\ stage[r] \notin Ended \cup {"new"}
    /\ Goto(r, "failed")
    /\ UNCHANGED <<db, revoked, restarts, call, claims, spent>>

\* The process ends; the next one has an empty _revoked_jti.
Restart ==
    /\ restarts < MaxRestarts
    /\ restarts' = restarts + 1
    /\ revoked' = {}
    /\ stage' = [r \in Requests |->
            IF stage[r] \in Ended \cup {"new"} THEN stage[r] ELSE "failed"]
    /\ UNCHANGED <<db, call, claims, spent>>

Next ==
    \/ \E r \in Requests :
          \/ \E name \in Names, asked \in SignUps : Register(r, name, asked)
          \/ \E name \in Names : Login(r, name)
          \/ CreateUser(r) \/ Revoke(r) \/ Persist(r) \/ Audit(r) \/ Fail(r)
          \/ \E q \in Requests :
                \/ stage[q] = "answered" /\ call[q].op \in Issuing /\ Refresh(r, q)
                \/ \E org \in Orgs \cup {None} :
                      \/ List(r, q, org)
                      \/ \E region \in DOMAIN NodeOrgs : Forecast(r, q, org, region)
                      \/ \E nonce \in Nonces \cup {None}, capacity \in Capacities,
                            period \in Periods : Commit(r, q, org, nonce, capacity, period)
    \/ Restart

Spec == Init /\ [][Next]_vars

-----------------------------------------------------------------------------

\* The shape of the state: the rows of the tables, the audit actions this
\* part of the backend publishes, and whom each request acts for.
TypeOK ==
    /\ users \subseteq User
    /\ \A c \in commitments : c.req \in Requests /\ c.org \in Orgs /\ c.capacity \in Nat
    /\ \A e \in trail : e.req \in Requests /\ e.action \in
            {"USER_REGISTERED", "USER_LOGIN_SUCCESS", "JWT_REFRESH_ROTATED",
             "PARTNER_ACCESS_DENIED", "PARTNER_FORECAST_VIEWED", "PARTNER_COMMITMENT_CREATED"}
    /\ revoked \subseteq {q \in Requests : stage[q] = "answered" /\ call[q].op \in Issuing}
    /\ restarts \in 0..MaxRestarts
    /\ stage \in [Requests -> Stages]
    /\ \A r \in Requests : claims[r] # None => claims[r].boot \in 0..restarts
    /\ spent \in [Requests -> SUBSET Requests]

\* However commitments with one nonce overlap, fail and are sent again, one
\* of them at most is stored, and an answered one is (create_commitment).
CommitmentPerNonce ==
    /\ \A c, d \in commitments : c.nonce = d.nonce => c = d
    /\ \A r \in Requests : stage[r] = "answered" /\ call[r].op = "commit" =>
          \E c \in commitments : c.req = r

\* Once a rotation has been answered, no request that starts after it in the
\* same process gets a pair for the same refresh token (rotate_refresh_token).
RotatedStaysSpent ==
    \A r \in Requests :
        stage[r] = "answered" /\ call[r].op = "refresh" => call[r].token \notin spent[r]

\* Whatever registrations race and however often a token was rotated, a pair
\* speaks for the one account of its name; a call that names an organisation
\* other than that account's is never answered, and a commitment belongs to
\* the organisation of a partner account (auth.py, _verify_org_access).
ActsForItsAccount ==
    /\ \A r \in Requests : stage[r] = "answered" =>
          /\ claims[r].user \in users
          /\ call[r].op \notin Issuing => call[r].org \in {None, claims[r].user.org}
    /\ \A u, v \in users : u.name = v.name => u = v
    /\ \A c \in commitments :
          \E u \in users : u.role = "PARTNER" /\ u.org = c.org /\ u = claims[c.req].user

\* What changed the database or was answered has its audit row; an account
\* or a commitment without one belongs to a request that is still running or
\* was answered with an error (event_bus.publish, _emit_audit_event).
EffectsAudited ==
    LET Audited(r) == \E e \in trail : e.req = r IN
    /\ \A r \in Requests :
          stage[r] = "answered" /\ call[r].op # "list" => Audited(r)
    /\ \A c \in commitments :
          Audited(c.req) \/ stage[c.req] \in {"auditing", "failed"}
    /\ \A r \in Requests : Audited(r) /\ call[r].op = "commit" =>
          CrossOrg(call[r]) \/ \E c \in commitments : c.req = r

\* A stored commitment verifies against its signature unless its amount is a
\* tie that the column and the format round apart, and ends after it starts
\* if both ends were sent with the same offset (_format_signing_payload,
\* _build_commitment_entity).
CommitmentFaithful ==
    \A c \in commitments :
        LET amount == call[c.req].capacity
            period == call[c.req].period
        IN /\ verify_commitment(c) <=> Stored(amount) = Signed(amount)
           /\ period.start.offset = period.end.offset => c.end > c.start
=============================================================================
