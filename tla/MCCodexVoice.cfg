SPECIFICATION VoiceSpec
CONSTANTS
    Session = {s1, s2, s3}
    NoSession = NoSession
    Loss = TRUE
INVARIANTS
    EntriesAreOwned
SYMMETRY MCSymmetry
CHECK_DEADLOCK FALSE
