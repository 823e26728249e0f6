------------------------------ MODULE MCViewer ------------------------------
(* Viewer with the addresses of its nodes interchangeable. *)
EXTENDS Viewer, TLC

Symmetry == Permutations(Nodes)

=============================================================================
