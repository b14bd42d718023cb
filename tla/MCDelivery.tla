----------------------------- MODULE MCDelivery -----------------------------
(* The handlers of the catalog and hydration, with the jobs that feed them:   *)
(* all of them, and the handlers of one or two slots, with one of four, for   *)
(* the liveness properties.                                                   *)
EXTENDS Delivery

AllChains   == Handlers
ShortChains == {r \in Readers : Len(r.slots) < 3} \cup {GetMacroTiles}
=============================================================================
