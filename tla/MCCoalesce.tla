----------------------------- MODULE MCCoalesce -----------------------------
(* An instance of Coalesce: three calls of one key.                           *)
EXTENDS Coalesce

CONSTANTS c1, c2, c3

ThreeCalls == {c1, c2, c3}
=============================================================================
