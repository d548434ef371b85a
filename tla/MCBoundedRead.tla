--------------------------- MODULE MCBoundedRead ---------------------------
(* Small instances of BoundedRead. *)
EXTENDS BoundedRead

AllProtocols == {"text", "metadata", "descriptor", "resolved"}
=============================================================================
