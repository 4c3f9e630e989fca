----------------------------- MODULE MCTwinSync -----------------------------
(***************************************************************************)
(* TwinSync for TLC: one seeded node, one that is not known yet and an     *)
(* edge that is not known either.  The demands lie within the 5% threshold *)
(* of the seeded 100, one of them by exactly 5%, but 96 and 104 are more   *)
(* than 5% apart; the capacity moves by 12%, and a row may have no demand. *)
(***************************************************************************)
EXTENDS TwinSync, TLC

CONSTANTS r1, r2, r3, known, fresh, lane

Row(d, c) == [field \in Fields |-> IF field = "demand" THEN d ELSE c]

MCInitialNode == [n \in Codes |-> IF n = known THEN Row(100, 500) ELSE Absent]
MCSyncPayloads == {Row(96, None), Row(104, None), Row(105, None), Row(None, 560)}
MCNodePayloads == {Row(100, 500), Row(0, 500)}
MCSymmetry == Permutations(Requests)
=============================================================================
