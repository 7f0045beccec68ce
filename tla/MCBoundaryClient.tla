--------------------------- MODULE MCBoundaryClient ---------------------------
(* Two calls that race for the mutex and may need a transport each; one        *)
(* interim response is allowed and a second one too many.                      *)
EXTENDS BoundaryClient

CONSTANTS a, b
=============================================================================
