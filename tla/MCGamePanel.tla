----------------------------- MODULE MCGamePanel -----------------------------
(***************************************************************************)
(* GamePanel on a small instance: one or two threads, one software of the  *)
(* kinds that matter to the container (stopped before the install, or kept *)
(* up to run the installer).                                               *)
(***************************************************************************)
EXTENDS GamePanel, TLC

CONSTANTS t1, t2, paper, forge, bedrock

MCOneThread  == {t1}
MCTwoThreads == {t1, t2}
MCUnmanaged == {paper, bedrock}
MCMixed == {paper, forge}
MCManaged == {forge}
MCKind == (paper :> "jar") @@ (forge :> "installer") @@ (bedrock :> "zip")
MCUnmanagedKind == [s \in MCUnmanaged |-> MCKind[s]]
MCMixedKind == [s \in MCMixed |-> MCKind[s]]
MCManagedKind == [s \in MCManaged |-> MCKind[s]]
=============================================================================
