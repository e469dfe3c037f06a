\* Three registrations race through a registry of two and a goroutine sweeps
\* session and device sets of up to two entries.
SPECIFICATION PendingSpec
CONSTANTS
    Requests = {r1, r2, r3}
    Sessions = {s1}
    Devices = {d1}
    Sweepers = {w1}
    MaxEntries = 2
    ResolveOutcomes = {"response"}
    None = None
INVARIANTS TypeOK ExactlyOnce RegistryConsistent
PROPERTIES ImplementsOneShot
\* A quiescent registry has nothing to do.
CHECK_DEADLOCK FALSE
