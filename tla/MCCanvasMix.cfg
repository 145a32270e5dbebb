SPECIFICATION Spec
CONSTANTS
    Binding = {b1, b2}
    MaxSurfaces = 1
    ResetMayFail = FALSE
SYMMETRY Symmetry
INVARIANT
    
    MixServesCamera
    CameraReferenceReturned
    

    
