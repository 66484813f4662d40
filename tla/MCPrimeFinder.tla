--------------------------- MODULE MCPrimeFinder ---------------------------
(* PrimeFinder with small constants; the cfg files give the values. *)
EXTENDS PrimeFinder
============================================================================
