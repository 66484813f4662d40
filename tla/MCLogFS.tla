------------------------------ MODULE MCLogFS ------------------------------
(* LogFS with small constants; the cfg files give the values. *)
EXTENDS LogFS
============================================================================
