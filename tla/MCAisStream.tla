----------------------------- MODULE MCAisStream -----------------------------
(* Two vessels: one comes and goes, one stays in the regions.                 *)
EXTENDS AisStream

MCFrames == ({"roamer"} \X Places) \cup {<<"liner", "in">>}
=============================================================================
