----------------------------- MODULE MCInstaller -----------------------------
(***************************************************************************)
(* Installer on a small instance: two threads at most, software of three   *)
(* ways of installing (BuildTools installs like a jar), or a zip and two   *)
(* that the agent installs, one world that can be deleted and one entry    *)
(* that cannot.                                                            *)
(***************************************************************************)
EXTENDS Installer, TLC

CONSTANTS t1, t2, paper, spigot, forge, neoforge, bedrock, world, packs, mod

MCOneThread  == {t1}
MCTwoThreads == {t1, t2}
MCBuiltSoftware == {spigot, forge, bedrock}
MCPlainSoftware == {paper, forge, bedrock}
MCManagedSoftware == {bedrock, forge, neoforge}
MCKind == (paper :> "jar") @@ (spigot :> "buildtools") @@ (forge :> "installer") @@
          (neoforge :> "installer") @@ (bedrock :> "zip")
MCBuiltKind == [s \in MCBuiltSoftware |-> MCKind[s]]
MCPlainKind == [s \in MCPlainSoftware |-> MCKind[s]]
MCManagedKind == [s \in MCManagedSoftware |-> MCKind[s]]
MCWorld == {world}
MCPacks == {packs}
MCMods == {mod}
=============================================================================
