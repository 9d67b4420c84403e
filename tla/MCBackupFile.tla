-------------------------- MODULE MCBackupFile --------------------------
(* Small instance of BackupFile for TLC: four clients (the restart handle  *)
(* of a runner and its write-all, library-function and safe triggers) and  *)
(* three contents.                                                         *)
EXTENDS BackupFile

CONSTANTS restart, writeAll, libFunction, safe, c0, c1, c2

MCClients == {restart, writeAll, libFunction, safe}
MCContents == {c0, c1, c2}
=========================================================================
