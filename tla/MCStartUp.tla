------------------------------ MODULE MCStartUp ------------------------------
(***************************************************************************)
(* StartUp with two of the six environment variables that are numbers: the *)
(* code treats each of them in the same way.                               *)
(***************************************************************************)
EXTENDS StartUp

=============================================================================
