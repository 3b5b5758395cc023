------------------------------ MODULE MCRemoval ------------------------------
(* A removal that nothing goes wrong with: somebody else asks for a drain once. *)
EXTENDS Uninstall

OneDrain == [jobs |-> 1, signins |-> 1, adoptions |-> 0, drains |-> 1, crashes |-> 0,
             deaths |-> 0, sessions |-> 0, lost |-> 0, late |-> 0, faults |-> 0]
=============================================================================
