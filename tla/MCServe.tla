------------------------------ MODULE MCServe ------------------------------
(***************************************************************************)
(* Serve, with Backup and Migrate, on a small instance: the server and the *)
(* command open the same file, new, old or left half way; two connections, *)
(* a report and one that may be there, two runs of the command, a crash     *)
(* and a restore.  A tick is ten seconds.                                  *)
(***************************************************************************)
EXTENDS Serve

=============================================================================
