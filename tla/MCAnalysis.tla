----------------------------- MODULE MCAnalysis -----------------------------
(* Every forest of four assets; every way two trucks report at five moments, *)
(* some of it out of the country; every log of four moments; many histories  *)
(* of the scores of three assets.                                            *)
EXTENDS Analysis, TLC

N == 4

\* Nobody is among its own ancestors.
Forests ==
    LET Up(p, a) == IF a = 0 THEN 0 ELSE p[a]
    IN {p \in [1..N -> 0..N] : \A a \in 1..N : Up(p, Up(p, Up(p, p[a]))) = 0}

Blasts ==
    [kind : {"blast"}, parent : Forests, source : 1..N, severity : {75},
     max_depth : 0..3, persist : {TRUE}]
    \cup [kind : {"blast"}, parent : Forests, source : 1..N, severity : {45, 100},
          max_depth : {1, 3}, persist : {FALSE}]
    \cup [kind : {"blast"}, parent : {<<0, 1, 1, 2>>}, source : 1..N, severity : {50},
          max_depth : {5}, persist : {FALSE}]

Moments == {1, 2, 3, 4, 8}
Kinds == {<<"nothing", "inside">>, <<"inside", "nothing">>, <<"inside", "inside">>,
          <<"abroad", "nothing">>}

\* What the trucks report, given what each does at each moment.
Histories ==
    {{[truck |-> i, t |-> t, inside |-> h[t][i] = "inside"] :
        <<i, t>> \in {p \in (1..2) \X Moments : h[p[2]][p[1]] # "nothing"}} :
     h \in [Moments -> Kinds]}

\* Asset 1 is the truck, 2 hangs on it, 3 on 2; the graph does not know 9.
Happened(t, what) ==
    LET One(kind, asset, score) == <<[kind |-> kind, asset |-> asset, t |-> t, score |-> score]>>
    IN CASE what = "nothing" -> <<>>
         [] what = "event"   -> One("risk", 2, 50) \o One("event", 2, 0)
         [] what = "unknown" -> One("detection", 9, 0) \o One("risk", 9, 80)
         [] what = "low"     -> One("risk", 2, 49)
         [] what = "deep"    -> One("risk", 3, 80)

\* The number of a row does not follow its time.
Logs ==
    {Happened(2, h[2]) \o Happened(4, h[4]) \o Happened(1, h[1]) \o Happened(3, h[3]) :
       h \in [1..4 -> {"nothing", "event", "unknown", "low", "deep"}]}

Playback1(reports, interval, since, log) ==
    [kind |-> "playback", reports |-> reports, interval |-> interval, since |-> since,
     parent |-> <<0, 1, 2>>, trucks |-> {1}, log |-> log]
Playbacks ==
    {Playback1(h, n, since, <<>>) : h \in Histories, n \in {1, 3, 60}, since \in {0, 3}}
    \cup {Playback1({}, 60, since, log) : since \in {0, 2}, log \in Logs}

\* Three assets of two types score twice each at most, in three minutes.
Score(a, t, v) == [asset |-> a, type |-> IF a = 3 THEN "TRUCK" ELSE "SENSOR", t |-> t, score |-> v]
Scores ==
    {{Score(1, 1, x[1]), Score(1, 2, x[2]), Score(1, 4, x[3]), Score(2, 3, x[4]), Score(3, 5, x[5])} :
       x \in [1..5 -> {0, 40, 80}]}
Rows ==
    {[kind |-> k, t |-> t, severity |-> v, type |-> "TRUCK"] :
       k \in {"telemetry", "detection", "ioc", "triage"}, t \in {0, 2, 3, 5}, v \in {"low", "high"}}
Timelines ==
    [kind : {"timeline"}, now : {5}, window : {1, 2}, scores : Scores, rows : {Rows},
     severity : {None}, asset_type : {None}]
    \cup [kind : {"timeline"}, now : {5}, window : {2}, scores : Scores, rows : {Rows},
          severity : {None, "high"}, asset_type : {"SENSOR", "TRUCK"}]

MCRequests == Blasts \cup Playbacks \cup Timelines
=============================================================================
