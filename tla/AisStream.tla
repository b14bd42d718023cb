------------------------------ MODULE AisStream ------------------------------
(***************************************************************************)
(* The AIS feed of the relay: a producer task holds a websocket session    *)
(* and reconnects, a broadcast channel carries the envelopes to the one    *)
(* consumer, which keeps the newest fix of each vessel and prunes the old  *)
(* ones, and the cycles of the maritime and logistics seeders count them.  *)
(*                                                                         *)
(* Time goes on when no task has anything to do. Nothing bounds how long a *)
(* connection attempt or a silent session lasts: neither has a timeout.    *)
(***************************************************************************)
EXTENDS Integers, Sequences, FiniteSets, FiniteSetsExt

CONSTANTS
    Vessels,
    Frames,       \* what can be heard: a vessel and where it says it is
    Capacity,     \* of the channel, DEFAULT_CHANNEL_CAPACITY
    Ttl,          \* DEFAULT_FIX_TTL
    PruneEvery,   \* DEFAULT_PRUNE_INTERVAL
    Initial, MaxWait, ResetAfter,   \* Backoff
    Width,        \* bits of a u64
    Grace,        \* shutdown_grace
    OtherDrains   \* the same for each task drained after these and before the scheduler

ASSUME ScheduleAssumption ==
    /\ {Capacity, Ttl, PruneEvery, Initial, MaxWait, ResetAfter, Width} \subseteq Nat \ {0}
    /\ Initial <= MaxWait /\ MaxWait < 2^Width /\ {Grace, OtherDrains} \subseteq Nat

VARIABLES
    session,    \* the producer: its state, how long the session lasts, failures, wait
    ring,       \* the envelopes the consumer has not received
    table,      \* MaritimeState: the newest fix of each vessel
    ticker,     \* time to the next prune
    cycle,      \* a cycle in progress and the age of the oldest fix it counted
    relay,      \* running, draining (the producer), finishing (the other tasks), stopped
    grace,      \* what is left of the time shutdown waits for them
    calm,       \* upstream accepts connections and keeps them
    heard       \* history: the last place passed on of a vessel, unless the channel
                \* or the prune dropped it

aisVars == <<session, ring, table, ticker, cycle, relay, grace, calm, heard>>

Areas  == {"in", "out"}    \* of the regions a seeder counts
Places == Areas \cup {"nowhere"}

ASSUME FramesAssumption == Frames \subseteq Vessels \X Places

Envelope(v, place) == [vessel |-> v, place |-> place]
NoFix == [place |-> "nowhere", age |-> 0]
Known == {v \in Vessels : table[v] # NoFix}

\* Older ages make no difference.
Oldest == Ttl + PruneEvery + Grace + OtherDrains + 1

Lesser(m, n) == IF m < n THEN m ELSE n

(***************************************************************************)
(* The producer                                                            *)
(***************************************************************************)
\* The subscription ends with the consumer, and the producer looks for it
\* between two sessions only.
Subscribed == relay = "running"

\* checked_shl refuses a shift by the width or more; what a lesser one pushes
\* out of the word is lost.
Shifted(n) == (Initial * 2^n) % 2^Width
NextWait(n) == IF n < Width THEN Lesser(Shifted(n), MaxWait) ELSE MaxWait

\* A session is timed from the attempt on.
Sessions == {"connecting", "up", "mute"}

Dial(failures) ==
    session' = [session EXCEPT !.pc = IF Subscribed THEN "connecting" ELSE "exited",
                               !.failures = failures, !.uptime = 0]

Connect ==
    /\ session.pc = "connecting"
    /\ session' = [session EXCEPT !.pc = "up"]
    /\ UNCHANGED <<ring, table, ticker, cycle, relay, grace, calm, heard>>

\* The peer is gone and no packet says so, in the handshake or after it.
GoMute ==
    /\ ~ calm /\ session.pc \in {"connecting", "up"}
    /\ session' = [session EXCEPT !.pc = "mute"]
    /\ UNCHANGED <<ring, table, ticker, cycle, relay, grace, calm, heard>>

\* Mutant: the task ends with the session.
Fail_GivesUp ==
    /\ ~ calm /\ session.pc \in Sessions
    /\ session' = [session EXCEPT !.pc = "exited"]
    /\ UNCHANGED <<ring, table, ticker, cycle, relay, grace, calm, heard>>

\* The attempt, the subscription or the transport fails.
Fail ==
    /\ ~ calm /\ session.pc \in Sessions
    /\ LET n == IF session.uptime >= ResetAfter THEN 0 ELSE session.failures
       IN  session' = [session EXCEPT !.pc = "waiting", !.wait = NextWait(n), !.uptime = 0,
                                      !.failures = Lesser(n + 1, Width)]
    /\ UNCHANGED <<ring, table, ticker, cycle, relay, grace, calm, heard>>

\* A close frame ends the session without a wait.
Close ==
    /\ ~ calm /\ session.pc = "up"
    /\ Dial(0)
    /\ UNCHANGED <<ring, table, ticker, cycle, relay, grace, calm, heard>>

Wake ==
    /\ session.pc = "waiting" /\ session.wait = 0
    /\ Dial(session.failures)
    /\ UNCHANGED <<ring, table, ticker, cycle, relay, grace, calm, heard>>

\* The channel has a place of the vessel.
Carries(envelopes, v) ==
    \E i \in DOMAIN envelopes : envelopes[i].vessel = v /\ envelopes[i].place \in Areas

\* An envelope goes to the channel, and pushes the oldest out of a full one.
Frame(v, place) ==
    /\ session.pc = "up"
    /\ IF Subscribed
       THEN LET full   == Len(ring) = Capacity
                kept   == IF full THEN Tail(ring) ELSE ring
                pushed == IF full THEN {Head(ring).vessel} ELSE {}
            IN  /\ ring' = Append(kept, Envelope(v, place))
                /\ heard' = [u \in Vessels |->
                       IF u = v /\ place \in Areas THEN place
                       ELSE IF u \in pushed /\ Carries(ring, u) /\ ~ Carries(kept, u) THEN "nowhere"
                       ELSE heard[u]]
       ELSE UNCHANGED <<ring, heard>>
    /\ UNCHANGED <<session, table, ticker, cycle, relay, grace, calm>>

(***************************************************************************)
(* The consumer                                                            *)
(***************************************************************************)
\* An envelope without coordinates, or with impossible ones, is no fix.
Apply(e) == IF e.place = "nowhere" THEN table
            ELSE [table EXCEPT ![e.vessel] = [place |-> e.place, age |-> 0]]

\* Mutant: a consumer that finds more than one envelope starts over with the
\* last of them.
Receive_Resubscribes ==
    /\ Subscribed /\ ring # <<>>
    /\ table' = Apply(ring[Len(ring)])
    /\ ring' = <<>>
    /\ UNCHANGED <<session, ticker, cycle, relay, grace, calm, heard>>

\* Told that it lags, the consumer goes on with what the channel still has.
Receive ==
    /\ Subscribed /\ ring # <<>>
    /\ table' = Apply(Head(ring))
    /\ ring' = Tail(ring)
    /\ UNCHANGED <<session, ticker, cycle, relay, grace, calm, heard>>

Retained(fix, ttl) == IF fix.age <= ttl THEN fix ELSE NoFix

PruneTo(ttl) ==
    /\ table' = [v \in Vessels |-> Retained(table[v], ttl)]
    /\ heard' = [v \in Vessels |-> IF table'[v] = NoFix /\ ~ Carries(ring, v)
                                  THEN "nowhere" ELSE heard[v]]
    /\ ticker' = PruneEvery
    /\ UNCHANGED <<session, ring, cycle, relay, grace, calm>>

\* Mutants: the cutoff is that of the prune before; the table is pruned only
\* when there is something to receive.
Prune_LateCutoff == Subscribed /\ ticker = 0 /\ PruneTo(Ttl + PruneEvery)
Prune_WhenBusy   == Subscribed /\ ticker = 0 /\ ring # <<>> /\ PruneTo(Ttl)

Prune == Subscribed /\ ticker = 0 /\ PruneTo(Ttl)

(***************************************************************************)
(* The seeders                                                             *)
(***************************************************************************)
NoCycle == [kind |-> "none", oldest |-> 0]

\* The age of the oldest fix in the regions, zero when they count nothing.
OldestCounted == Max({0} \cup {table[v].age : v \in {u \in Known : table[u].place = "in"}})

\* Two reads of the table, which may change in between: seed_ais_snapshot and
\* seed_chokepoint_status count first and give up when no vessel is known,
\* seed_port_congestion asks first.
Begin(kind) ==
    /\ cycle = NoCycle
    /\ \/ kind = "counts_first" /\ cycle' = [kind |-> kind, oldest |-> OldestCounted]
       \/ kind = "asks_first" /\ Known # {} /\ cycle' = [kind |-> kind, oldest |-> 0]
    /\ UNCHANGED <<session, ring, table, ticker, relay, grace, calm, heard>>

\* The oldest fix a row published now counts.
Published == IF cycle.kind = "counts_first" THEN cycle.oldest ELSE OldestCounted

Publish ==
    /\ (cycle.kind = "counts_first" /\ Known # {}) \/ cycle.kind = "asks_first"
    /\ cycle' = NoCycle
    /\ UNCHANGED <<session, ring, table, ticker, relay, grace, calm, heard>>

EmptyUpstream ==
    /\ cycle.kind = "counts_first" /\ Known = {}
    /\ cycle' = NoCycle
    /\ UNCHANGED <<session, ring, table, ticker, relay, grace, calm, heard>>

(***************************************************************************)
(* The relay                                                               *)
(***************************************************************************)
\* The consumer is aborted, its receiver goes, the table stays as it is.
Shutdown ==
    /\ relay = "running"
    /\ relay' = "draining" /\ grace' = Grace
    /\ ring' = <<>>
    /\ UNCHANGED <<session, table, ticker, cycle, calm, heard>>

\* The producer has ended or the grace has.
ProducerDrained ==
    /\ relay = "draining" /\ (session.pc = "exited" \/ grace = 0)
    /\ relay' = "finishing" /\ grace' = OtherDrains
    /\ UNCHANGED <<session, ring, table, ticker, cycle, calm, heard>>

\* The scheduler is aborted last, in the middle of a cycle or not, and the
\* process ends.
Stop ==
    /\ relay = "finishing"
    /\ relay' = "stopped"
    /\ cycle' = NoCycle
    /\ UNCHANGED <<session, ring, table, ticker, grace, calm, heard>>

Settle ==
    /\ ~ calm /\ calm' = TRUE
    /\ UNCHANGED <<session, ring, table, ticker, cycle, relay, grace, heard>>

\* No task has anything to do now.
Quiet ==
    /\ ~ (session.pc = "waiting" /\ session.wait = 0)
    /\ Subscribed => ring = <<>> /\ ticker > 0
    /\ cycle = NoCycle
    /\ relay # "running" => grace > 0
    /\ relay = "draining" => session.pc # "exited"

Older(fix) == IF fix = NoFix THEN fix ELSE [fix EXCEPT !.age = Lesser(@ + 1, Oldest)]

Tick ==
    /\ Quiet
    /\ session' = [session EXCEPT !.uptime = IF session.pc \in Sessions THEN Lesser(@ + 1, ResetAfter) ELSE @,
                                  !.wait = IF @ > 0 THEN @ - 1 ELSE 0]
    /\ table' = [v \in Vessels |-> Older(table[v])]
    /\ ticker' = IF Subscribed THEN ticker - 1 ELSE ticker
    /\ grace' = IF grace > 0 THEN grace - 1 ELSE 0
    /\ UNCHANGED <<ring, cycle, relay, calm, heard>>

AisInit ==
    /\ session = [pc |-> "connecting", uptime |-> 0, failures |-> 0, wait |-> 0]
    /\ ring = <<>>
    /\ table = [v \in Vessels |-> NoFix]
    /\ ticker = PruneEvery
    /\ cycle = NoCycle
    /\ relay = "running" /\ grace = 0 /\ calm = FALSE
    /\ heard = [v \in Vessels |-> "nowhere"]

Seed == (\E kind \in {"counts_first", "asks_first"} : Begin(kind)) \/ Publish \/ EmptyUpstream

AisNext ==
    /\ relay # "stopped"
    /\ \/ Connect \/ GoMute \/ Fail \/ Close \/ Wake
       \/ \E f \in Frames : Frame(f[1], f[2])
       \/ Receive \/ Prune \/ Seed
       \/ Shutdown \/ ProducerDrained \/ Stop \/ Settle \/ Tick

\* Tasks are polled, sleeps end, a connection attempt succeeds when upstream
\* accepts connections, and neither frames nor the cycles of the seeders, which
\* have periods, keep time from going on.
Fairness ==
    /\ WF_aisVars(Receive) /\ WF_aisVars(Prune) /\ WF_aisVars(relay # "stopped" /\ Wake)
    /\ WF_aisVars(relay # "stopped" /\ (Publish \/ EmptyUpstream)) /\ WF_aisVars(ProducerDrained) /\ WF_aisVars(Stop)
    /\ WF_aisVars(calm /\ relay # "stopped" /\ Connect) /\ SF_aisVars(relay # "stopped" /\ Tick)

AisSpec == AisInit /\ [][AisNext]_aisVars /\ Fairness

(***************************************************************************)
(* The properties                                                          *)
(***************************************************************************)
\* No published count has a vessel that has not been heard for longer than the
\* life of a fix and the time to the next prune; shutdown, which takes the
\* consumer away first and the scheduler last, adds its graces.
CountsTheRecent == [][Publish => Published <= Ttl + PruneEvery + Grace + OtherDrains]_aisVars

\* When the consumer has nothing left to receive the table has the last place
\* heard of each vessel, however far it lagged, unless the channel itself or
\* the prune dropped it.
TableIsCurrent ==
    Subscribed /\ ring = <<>> =>
        \A v \in Vessels : heard[v] # "nowhere" => table[v].place = heard[v]

\* A feed that says nothing any more ends in no publication, so that the rows
\* turn stale: no seeder goes on to publish old fixes or none.
SilenceEndsPublishing ==
    <>[][~ \E f \in Frames : Frame(f[1], f[2])]_aisVars => <>[][~ Publish]_aisVars

\* Once upstream accepts connections again the relay is connected for good,
\* however often it failed before and whatever the backoff came to; only a
\* session that went mute is never missed.
Reconnects ==
    <>calm => <>[](session.pc = "up") \/ <>[](session.pc = "mute") \/ <>(relay # "running")

=============================================================================
