------------------------------- MODULE MCCache -------------------------------
(* The coalescer and the limiter of pellucid-cache side by side: three calls   *)
(* of one key, or four requests of one client on two paths.  They share no     *)
(* state, so a behaviour is of one of them.                                    *)
EXTENDS MCCoalesce, RateLimit

CONSTANTS a1, a2, b1, b2

VARIABLE half    \* whose behaviour it is

MCRequests == {a1, a2, b1, b2}
MCRpcs == {"classify", "summarize"}
MCRpcOf == [r \in MCRequests |-> IF r \in {b1, b2} THEN "summarize" ELSE "classify"]

MCLimit == [b \in MCRpcs \cup {"global", "aggregate"} |-> IF b \in MCRpcs THEN 1 ELSE 3]
MCWindow == [b \in MCRpcs \cup {"global", "aggregate"} |-> IF b = "classify" THEN 2 ELSE 3]

cacheVars == <<half, coalesceVars, vars>>

CacheInit == half \in {"calls", "requests"} /\ CoalesceInit /\ Init

OfCalls(A) == half = "calls" /\ A /\ UNCHANGED <<half, vars>>

CacheNext ==
    \/ OfCalls(CoalesceNext)
    \/ half = "requests" /\ Next /\ UNCHANGED <<half, coalesceVars>>

\* Fairness of Coalesce, in the behaviours that are its own.
CacheFairness ==
    \A c \in Callers :
        /\ WF_cacheVars(OfCalls(JoinCell(c))) /\ WF_cacheVars(OfCalls(Waiting(c)))
        /\ WF_cacheVars(OfCalls(Fetching(c))) /\ WF_cacheVars(OfCalls(Evict(c)))

CacheSpec == CacheInit /\ [][CacheNext]_cacheVars /\ CacheFairness
=============================================================================
