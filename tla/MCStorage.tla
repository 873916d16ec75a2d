------------------------------ MODULE MCStorage ------------------------------
(***************************************************************************)
(* Storage with two threads and one or two names of two chunks each.       *)
(***************************************************************************)
EXTENDS Storage

CONSTANTS t1, t2, jar, cfg

MCThreads == {t1, t2}
MCNames == {jar, cfg}
MCOneName == {jar}
=============================================================================
