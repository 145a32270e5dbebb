SPECIFICATION Spec
CONSTANTS
    Binding = {b1, b2}
    Profile = {p1, p2}
    None = None
INVARIANT TruthfulStatus
INVARIANT DisabledNotLive
INVARIANT EndingsReported
PROPERTY WentLiveKept
PROPERTY KeysImplemented
