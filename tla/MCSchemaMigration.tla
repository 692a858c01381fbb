------------------------- MODULE MCSchemaMigration -------------------------
(***************************************************************************)
(* The TLC instance of SchemaMigration whose insights have a grounded and  *)
(* an ungrounded row.                                                      *)
(***************************************************************************)
EXTENDS SchemaMigration
=============================================================================
