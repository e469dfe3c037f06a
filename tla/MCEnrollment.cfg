\* Two accounts pair two Bridges on two computers, with two exchanges in flight.
SPECIFICATION EnrollmentSpec
CONSTANTS
    Users = {u1, u2}
    Devices = {d1, d2}
    Fingerprints = {f1, f2}
    Creds = {k1, k2, k3}
    Licensed = {}
    Pairings = {p1, p2}
    Exchanges = {x1, x2}
    MaxPending = 2
    None = None
SYMMETRY MCSymmetry
INVARIANTS EnrollmentTypeOK CredentialsHold CodeHolds
