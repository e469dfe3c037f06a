---------------------------- MODULE MCAdmission ----------------------------
(***************************************************************************)
(* Two requests of two connectors of one user.                            *)
(***************************************************************************)
EXTENDS Admission

CONSTANTS g1, g2, u1

MCGrants == {g1, g2}
MCUsers == {u1}
MCKeys == MCGrants \cup MCUsers
MCUserOf == [g \in MCGrants |-> u1]
=============================================================================
