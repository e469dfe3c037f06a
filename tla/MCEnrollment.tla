---------------------------- MODULE MCEnrollment -----------------------------
EXTENDS Enrollment, TLC

\* Interchangeable identifiers.
MCSymmetry == Permutations(Users) \cup Permutations(Devices)
              \cup Permutations(Fingerprints) \cup Permutations(Creds)
              \cup Permutations(Pairings) \cup Permutations(Exchanges)
=============================================================================
