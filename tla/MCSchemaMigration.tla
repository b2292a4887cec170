------------------------- MODULE MCSchemaMigration -------------------------
(***************************************************************************)
(* Small instances of SchemaMigration.                                     *)
(***************************************************************************)
EXTENDS SchemaMigration

CONSTANTS m1, m2
=============================================================================
