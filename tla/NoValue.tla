------------------------------ MODULE NoValue ------------------------------
(* The absent value - a null handle, address, pointer or path - that the     *)
(* components share.                                                         *)
CONSTANT None
=============================================================================
