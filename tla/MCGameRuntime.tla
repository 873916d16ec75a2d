---------------------------- MODULE MCGameRuntime ----------------------------
(***************************************************************************)
(* GameRuntime on a small instance: one caller beside the main thread, two *)
(* adapters.                                                               *)
(***************************************************************************)
EXTENDS GameRuntime

CONSTANTS c1, java, bedrock

MCOneCaller == {c1}
MCTwoSoftware == {java, bedrock}
=============================================================================
