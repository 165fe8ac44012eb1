------------------------------ MODULE MCJsonRpc ------------------------------
(* Small instances of JsonRpc for TLC, on its own. *)
EXTENDS JsonRpc
=============================================================================
