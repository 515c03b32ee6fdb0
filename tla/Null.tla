-------------------------------- MODULE Null --------------------------------
(***************************************************************************)
(* The value that stands for nothing: None in Python, NULL in SQL.         *)
(***************************************************************************)
CONSTANT NULL
=============================================================================
