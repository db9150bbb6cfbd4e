---------------------------- MODULE MCMultistatus ----------------------------
(* Small instances of Multistatus for TLC: the answers of discovery, with the *)
(* types and components of a calendar collection and two nesting properties.  *)
EXTENDS Multistatus

CONSTANT s

MCTypes == {"collection", "calendar"}

MCNestings == {"current-user-principal", "owner"}
=============================================================================
