------------------------ MODULE MCMultistreamEngine ------------------------
(* Small instances of the engine for TLC. *)
EXTENDS MultistreamEngine
=============================================================================
