\* The same instance: what a pairing that was cut short leaves behind.
SPECIFICATION Spec
CONSTANTS
    Devices = {d1, d2}
    MaxMints = 2
    Torn = Torn
    None = None
INVARIANT
    CutShortPairingIsRepeated
CHECK_DEADLOCK FALSE
