------------------------------ MODULE LeaseLock ------------------------------
(***************************************************************************)
(* What the seed lock promises its callers, with every grant one atomic    *)
(* step: a domain is free or held by one run until a time, a run takes a   *)
(* domain that is free or whose lease has run out, and only the holder     *)
(* itself gives it back.  SeedPublish takes three steps for a grant (read  *)
(* the wall clock, read the row, write it) and implements this module.     *)
(***************************************************************************)
EXTENDS Integers

CONSTANTS
    Domains,    \* lock partitions ("aviation", "markets", ...)
    Runs,       \* run ids, the identity of a holder
    Lease       \* how long a grant lasts (DEFAULT_LOCK_LEASE)

VARIABLES
    clock,      \* wall clock
    holder,     \* the runs that hold each domain: none or one
    until,      \* when the present lease of each domain ends
    active      \* the runs between their grant and their release

lockVars == <<clock, holder, until, active>>

LockInit ==
    /\ clock = 0
    /\ holder = [d \in Domains |-> {}]
    /\ until = [d \in Domains |-> 0]
    /\ active = {}

\* The lease counts from the time the caller read the clock, so it can be
\* shorter than Lease when seen from the grant, never longer.
Grant(d, r) ==
    /\ holder[d] \in {{}, {r}} \/ until[d] <= clock
    /\ holder' = [holder EXCEPT ![d] = {r}]
    /\ \E e \in 0 .. clock + Lease : until' = [until EXCEPT ![d] = e]
    /\ active' = active \cup {r}
    /\ UNCHANGED clock

\* The run that leaves and the run whose row goes are the same.
Free(d, r) ==
    /\ r \in active
    /\ holder[d] = {r}
    /\ active' = active \ {r}
    /\ holder' = [holder EXCEPT ![d] = {}]
    /\ until' = [until EXCEPT ![d] = 0]
    /\ UNCHANGED clock

\* A run dies, fails to release, or finds at its release that it lost the domain.
Leave(r) ==
    /\ r \in active
    /\ active' = active \ {r}
    /\ UNCHANGED <<clock, holder, until>>

Pass == clock' = clock + 1 /\ UNCHANGED <<holder, until, active>>

LockNext ==
    \/ Pass
    \/ \E d \in Domains, r \in Runs : Grant(d, r) \/ Free(d, r)
    \/ \E r \in Runs : Leave(r)

LockSpec == LockInit /\ [][LockNext]_lockVars
==============================================================================
