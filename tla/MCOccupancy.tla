---------------------------- MODULE MCOccupancy ----------------------------
(* Shows of one evening for TLC: e1 and e2 share a crew, and what is booked *)
(* at midnight competes with the extension of e2.                           *)
EXTENDS Occupancy, TLC

CONSTANTS e1, e2, e3, e4, c1, d1, d2

MCSlot == [e \in Events |->
    CASE e = e1 -> [date |-> 0, start |-> 3]
      [] e = e2 -> [date |-> 0, start |-> 5]
      [] OTHER  -> [date |-> 1, start |-> 0]]
MCDistrict == [e \in Events |-> IF e = e1 THEN d1 ELSE d2]
MCVerified == [e \in Events |-> IF e \in Booked THEN 1 ELSE 0]
MCLegacy == [e \in Events |-> IF e = e1 THEN 1 ELSE 0]
MCFirst == [stock |-> [i \in Items |-> Max(Stocks)],
            requires |-> [i \in Items |-> Min(Quantities)],
            duration |-> Min(Durations), cost |-> Min(Costs)]
MCAssigned == [e \in Events |-> IF e \in {e1, e2} THEN {c1} ELSE {}]
MCSymmetry == Permutations(Requests)
MCPeriods == {[start |-> 0, end |-> 1]}
=============================================================================
