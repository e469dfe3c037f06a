------------------------------ MODULE MCAccess -------------------------------
EXTENDS Access

CONSTANTS u1, d1, d2, k1

MCDownlink == {}
MCUplink == {}
MCOwner == [d \in Devices |-> u1]
MCFirstCred == [d \in Devices |-> IF d = d1 THEN k1 ELSE None]
MCSlots == {d1}
=============================================================================
