---------------------------- MODULE MCDateTables ----------------------------
(***************************************************************************)
(* Small instances of DateTables.  The date of the spread curve and zero   *)
(* days are among the dates.                                               *)
(***************************************************************************)
EXTENDS DateTables

MCDate == 0..4

MCFrom == 1
=============================================================================
