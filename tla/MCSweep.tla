------------------------------ MODULE MCSweep ------------------------------
(***************************************************************************)
(* Two paths in different directories, whose files have one name.          *)
(***************************************************************************)
EXTENDS Sweep

MCStem == <<"notes", "notes">>
=============================================================================
