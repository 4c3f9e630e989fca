---------------------------- MODULE MCAuditChain ----------------------------
(***************************************************************************)
(* AuditChain for TLC: two threads of the api process and one of the       *)
(* celery worker, two different events, up to three row ids, and one        *)
(* restart of either process.                                              *)
(***************************************************************************)
EXTENDS AuditChain, TLC

CONSTANTS t1, t2, t3, api, celery

MCProcessOf == [w \in Workers |-> IF w = t3 THEN celery ELSE api]

\* The two api threads are interchangeable, and so are the two events.
MCSymmetry == Permutations({t1, t2}) \cup Permutations(Events)
=============================================================================
