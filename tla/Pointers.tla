------------------------------ MODULE Pointers ------------------------------
(* The null pointer, of whatever type.                                     *)
CONSTANT NULL
=============================================================================
