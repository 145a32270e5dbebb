SPECIFICATION Spec
CONSTANTS
    Binding = {b1, b2}
    Profile = {p1, p2}
    None = None
INVARIANT InhibitTracksLive
