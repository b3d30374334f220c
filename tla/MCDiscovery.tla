---------------------------- MODULE MCDiscovery ----------------------------
(* An engine and one other; the constants are plain values.                  *)
EXTENDS Discovery
=============================================================================
