----------------------------- MODULE MCProcessor -----------------------------
(***************************************************************************)
(* Processor on a small instance: two requests, messages of up to two      *)
(* arbitrary events.                                                       *)
(***************************************************************************)
EXTENDS Processor
=============================================================================
