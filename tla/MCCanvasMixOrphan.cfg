SPECIFICATION Spec
CONSTANTS
    Binding = {b1}
    MaxSurfaces = 1
    ResetMayFail = FALSE
INVARIANT
    OutputHasBinding
