------------------------------ MODULE MCKernels ------------------------------
(* Instances of Kernels for TLC. *)
EXTENDS Kernels

OneEach  == [e \in Events |-> 1]
Nothing  == [e \in Events |-> 0]
=============================================================================
