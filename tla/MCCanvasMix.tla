---------------------------- MODULE MCCanvasMix ----------------------------
(* Two bindings, one preview surface.                                      *)
EXTENDS CanvasMix, TLC

Symmetry == Permutations(Binding)
=============================================================================
