------------------------------ MODULE MCAwards ------------------------------
(* Two stations that work each other on one day; an entity for each slot.  *)
EXTENDS Awards

Slot(c, m, d, st, s) ==
    [contact |-> c, day |-> "day", mode |-> m, dxcc |-> d, state |-> st,
     grid |-> d, zone |-> 5, call |-> "W1AW", park |-> None, my_park |-> s,
     summit |-> s, my_summit |-> None]
MCSlots == {Slot("c1", "USB", 291, "CT", None), Slot("c2", "SSB", 1, None, "W1/GM-001")}
MCOwnerOf == [q \in {1, 2, 3} |-> IF q = 3 THEN "u2" ELSE "u1"]
Setup(l, m, c, t, n) ==
    [linked |-> l, matching |-> m, collectors |-> c, types |-> t, budget |-> n]
All == {Order[i] : i \in DOMAIN Order}
Two == {"dxcc", "was"}
\* Matching, pulls, award refreshes of two types, a pull beside refreshes of
\* one, and refreshes of all types.
MCSetups == {Setup({}, TRUE, {}, Two, 4), Setup({"lotw", "eqsl"}, FALSE, {}, Two, 4),
             Setup({}, FALSE, {"u1"}, Two, 4), Setup({"lotw"}, FALSE, {"u1"}, {"dxcc"}, 4),
             Setup({}, FALSE, {"u1"}, All, 2)}
MCMilestones == [t \in All |-> IF t = "dxcc" THEN {1, 2} ELSE {}]
MCPrefix == [c \in {"W1AW"} |-> "W1"]
=============================================================================
