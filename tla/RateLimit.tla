------------------------------ MODULE RateLimit ------------------------------
(***************************************************************************)
(* The sliding-window limiter of pellucid-cache (rate_limit.rs) as stage 8 *)
(* of the gateway calls it (endpoint_rate.rs), for one client address.     *)
(* The rows of another address are other rows, so one address shows all.   *)
(*                                                                         *)
(* Every element of Requests is one request.  It reads the clock, then     *)
(* waits for a pool connection and for SQLite's write lock (the first      *)
(* statement of the transaction is a DELETE), so what it then does with    *)
(* the table is one step, made with a clock reading that may be old.       *)
(***************************************************************************)
EXTENDS Integers, FiniteSets, FiniteSetsExt

CONSTANTS
    Requests,
    Rpcs,         \* the paths with an endpoint bucket of their own
    RpcOf,        \* the path each request is for
    Limit,        \* BucketConfig.limit of each bucket
    Window,       \* BucketConfig.window_ms of each bucket
    MaxWait,      \* what busy_timeout and the pool's acquire timeout add up to
    MaxClock      \* bound: the clock stops here

Buckets == Rpcs \cup {"global", "aggregate"}

ASSUME ConfigAssumption ==
    /\ RpcOf \in [Requests -> Rpcs]
    /\ Rpcs \cap {"global", "aggregate"} = {}
    /\ Limit \in [Buckets -> Nat]
    /\ Window \in [Buckets -> Nat \ {0}]
    /\ MaxWait \in Nat /\ MaxClock \in Nat
ASSUME RequestsAssumption == IsFiniteSet(Requests)

VARIABLES
    clock,
    bucket,       \* rate_limit_window: the request_at_ms of each bucket_key
    pc,
    now,          \* check_rate_limit: now
    decision,
    at            \* history: when each counted request was let in

vars == <<clock, bucket, pc, now, decision, at>>

Decisions == {"none", "Allowed", "Denied", "FailedOpen", "Collision"}

TypeOK ==
    /\ clock \in Nat
    /\ bucket \in [Buckets -> SUBSET Nat]
    /\ pc \in [Requests -> {"idle", "begin", "done", "gone"}]
    /\ now \in [Requests -> Nat]
    /\ decision \in [Requests -> Decisions]
    /\ at \in [Requests -> Nat]

Init ==
    /\ clock = 0
    /\ bucket = [b \in Buckets |-> {}]
    /\ pc = [r \in Requests |-> "idle"]
    /\ now = [r \in Requests |-> 0]
    /\ decision = [r \in Requests |-> "none"]
    /\ at = [r \in Requests |-> 0]

\* The three buckets that count a request.
Counts(r) == {RpcOf[r], "global", "aggregate"}

Goto(r, from, to) == pc[r] = from /\ pc' = [pc EXCEPT ![r] = to]
Decide(r, d) ==
    /\ Goto(r, "begin", "done")
    /\ decision' = [decision EXCEPT ![r] = d]
    /\ now' = [now EXCEPT ![r] = 0]

Arrive(r) ==
    /\ Goto(r, "idle", "begin")
    /\ now' = [now EXCEPT ![r] = clock]
    /\ UNCHANGED <<clock, bucket, decision, at>>

\* What the DELETE leaves: the rows of the window that ends at now.
InWindow(r, b) == {s \in bucket[b] : s > now[r] - Window[b]}

Full(r, b) == Cardinality(InWindow(r, b)) >= Limit[b]

\* next_request_at: now, or one past the newest row.
NextAt_WindowStart(r, b) == now[r] - Window[b]
NextAt_Now(r, b) == now[r]
NextAt(r, b) ==
    LET rows == InWindow(r, b) IN
    IF \E s \in rows : s >= now[r] THEN Max(rows) + 1 ELSE now[r]

HasLock(r) == pc[r] = "begin" /\ clock <= now[r] + MaxWait

\* The insert of a row that is there violates the primary key: an error, and
\* the stage lets the request through.
Collides(r) == \E b \in Counts(r) : NextAt(r, b) \in InWindow(r, b)

Allow(r) ==
    /\ HasLock(r)
    /\ \A b \in Counts(r) : ~Full(r, b)
    /\ Decide(r, IF Collides(r) THEN "Collision" ELSE "Allowed")
    /\ bucket' = [b \in Buckets |-> IF b \in Counts(r) /\ ~Collides(r)
                                    THEN InWindow(r, b) \cup {NextAt(r, b)} ELSE bucket[b]]
    /\ at' = [at EXCEPT ![r] = clock]
    /\ UNCHANGED clock

\* The transaction is rolled back, the deletions with it.
Deny(r) ==
    /\ HasLock(r)
    /\ \E b \in Counts(r) : Full(r, b)
    /\ Decide(r, "Denied")
    /\ UNCHANGED <<clock, bucket, at>>

\* Any database error, the end of the wait for the lock among them: endpoint_rate
\* lets the request through and nothing is recorded.
FailOpen(r) ==
    /\ Decide(r, "FailedOpen")
    /\ UNCHANGED <<clock, bucket, at>>

\* The client goes away while its request waits.
Drop(r) ==
    /\ Goto(r, "begin", "gone")
    /\ now' = [now EXCEPT ![r] = 0]
    /\ UNCHANGED <<clock, bucket, decision, at>>

Tick ==
    /\ clock < MaxClock
    /\ clock' = clock + 1
    /\ UNCHANGED <<bucket, pc, now, decision, at>>

Check(r) == Allow(r) \/ Deny(r) \/ FailOpen(r)
Next == Tick \/ \E r \in Requests : Arrive(r) \/ Check(r) \/ Drop(r)

Spec == Init /\ [][Next]_vars

------------------------------------------------------------------------------
(* Properties.                                                               *)

\* Let in by the check, counted or not: a request whose row collides with one of
\* the same millisecond would go through uncounted.
LetIn(b, from, to) ==
    {r \in Requests : /\ decision[r] \in {"Allowed", "Collision"}
                       /\ b \in Counts(r) /\ at[r] \in from..to}

\* The cap that old clock readings leave: in no stretch of time shorter than
\* the window by the longest wait are more requests let in than the limit.
SlidingCap ==
    \A b \in Buckets : \A t \in 0..clock :
        Cardinality(LetIn(b, t, t + Window[b] - MaxWait - 1)) <= Limit[b]

==============================================================================
