---------------------------- MODULE MCWordPipeline ----------------------------
(***************************************************************************)
(* Model-checking instance of WordPipeline; Rounds is set in the cfg to    *)
(* the 5 iterations both loops of lib.rs run.                              *)
(***************************************************************************)
EXTENDS WordPipeline, TLC
=============================================================================
