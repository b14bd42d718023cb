---------------------------- MODULE MCSeedPublish ----------------------------
(* Instances of SeedPublish.  Three runs: two publish the same key, the third *)
(* another key of the same domain.                                            *)
EXTENDS SeedPublish, TLC

CONSTANTS r1, r2, r3

MCRuns == {r1, r2, r3}
MCKeys == {"status", "notam"}
MCKeyOf == (r1 :> "status") @@ (r2 :> "status") @@ (r3 :> "notam")

OneDomain == {"aviation"}
SameDomain == [k \in MCKeys |-> "aviation"]

\* r1 and r2 are interchangeable.
Publishers == Permutations({r1, r2})
==============================================================================
