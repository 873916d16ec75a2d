-------------------------- MODULE MCInstanceOverride --------------------------
(***************************************************************************)
(* InstanceOverride on a small instance: three games that share a setting, *)
(* with values of its own for each, and a .env written for one of them     *)
(* that another, java, refuses for its JAVA_VERSION.                       *)
(***************************************************************************)
EXTENDS InstanceOverride, TLC

CONSTANTS a1, a2, java, bedrock, terraria, stable, other, difficulty, gamemode, motd, easy, hard, classic

MCAdmins == {a1, a2}
MCEditions == {java, bedrock, terraria}
MCChannels == {stable, other}
MCKnown == {stable}
MCSupports == {bedrock, terraria}
MCGameplay == {difficulty, gamemode}
MCUniversal == {motd}
MCValues == {easy, hard, classic}

MCEditable ==
  java :> {difficulty, gamemode, motd} @@ bedrock :> {difficulty, gamemode, motd} @@
  terraria :> {difficulty}

MCAccepts ==
  java :> (difficulty :> {easy, hard} @@ gamemode :> {easy, hard}) @@
  bedrock :> (difficulty :> {easy, hard} @@ gamemode :> {easy}) @@
  terraria :> (difficulty :> {classic} @@ gamemode :> MCValues)

MCAllowed == motd :> {hard}

MCDefaults ==
  java :> (difficulty :> easy @@ gamemode :> easy) @@
  bedrock :> (difficulty :> easy @@ gamemode :> easy) @@
  terraria :> (difficulty :> classic @@ gamemode :> None)

MCBase ==
  [edition |-> bedrock, channel |-> stable,
   settings |-> difficulty :> hard @@ gamemode :> None @@ motd :> None]
=============================================================================
