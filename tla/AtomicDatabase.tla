--------------------------- MODULE AtomicDatabase ---------------------------
(***************************************************************************)
(* What the user is promised about the database file: at any time, through *)
(* failures and crashes, there is one database in use.  A restore replaces *)
(* it in one step, and can be taken back as long as the replaced database  *)
(* is kept.  DatabaseSwap implements this with three files and renames.    *)
(***************************************************************************)
EXTENDS Naturals

CONSTANTS Databases,    \* the contents a database can have
          First         \* the contents before the first restore

VARIABLES inUse,        \* the contents in use
          kept          \* the contents it can be taken back to (itself if none)

Init == inUse = First /\ kept = First

Replace == /\ inUse' \in Databases
           /\ kept' = inUse

TakeBack == /\ inUse' = kept
            /\ UNCHANGED kept

Forget == /\ kept' = inUse
          /\ UNCHANGED inUse

Spec == Init /\ [][Replace \/ TakeBack \/ Forget]_<<inUse, kept>>
=============================================================================
