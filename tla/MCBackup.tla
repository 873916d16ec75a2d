------------------------------- MODULE MCBackup -------------------------------
(***************************************************************************)
(* Backup on a small instance: two administrators.                         *)
(***************************************************************************)
EXTENDS Backup, TLC

CONSTANTS a1, a2, world, level

MCAdmins == {a1, a2}
MCEntries == {world, level}
MCStuck == {level}
MCPrivate == {world}
=============================================================================
