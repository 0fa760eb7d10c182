------------------------------ MODULE MCLdrServer ------------------------------
(* Model checking of module LdrServer: the clients of the instances. *)
EXTENDS LdrServerProps

OneJobEach  == [c \in Clients |-> 1]
=============================================================================
