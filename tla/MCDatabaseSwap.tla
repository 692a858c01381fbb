--------------------------- MODULE MCDatabaseSwap ---------------------------
(***************************************************************************)
(* The TLC instance of DatabaseSwap in which the main thread restores      *)
(* beside a Telegram execution that opens the database.                    *)
(***************************************************************************)
EXTENDS DatabaseSwap, TLC
=============================================================================
