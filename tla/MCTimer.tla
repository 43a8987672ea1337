------------------------------ MODULE MCTimer ------------------------------
(* Small instances of Timer for TLC: the smallest wheel of four levels, whose *)
(* time wraps after 32 ticks                                                  *)
EXTENDS Timer
=============================================================================
