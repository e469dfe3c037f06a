------------------------------- MODULE MCRelay -------------------------------
EXTENDS Relay, TLC

MCDownlink == {"request", "cancel"} \X Requests

\* Calls are alike, and so are devices: nothing orders them or names one.
Alike == Permutations(Requests) \cup Permutations(Devices)
=============================================================================
