--------------------------- MODULE MCTokenRotation ---------------------------
(* An instance of TokenRotation: a tick is 15 seconds, so that 5 minutes, 30  *)
(* seconds and 1 minute keep their proportions.                               *)
EXTENDS TokenRotation
==============================================================================
