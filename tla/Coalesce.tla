------------------------------ MODULE Coalesce ------------------------------
(***************************************************************************)
(* cached_fetch_json (pellucid-cache, coalesce.rs) for one cache key: the  *)
(* kv_envelope row of the key, the registry entry of the key and the calls *)
(* that race on them.  The registry is a DashMap from keys to OnceCells    *)
(* and no step touches two keys, so one key shows every interleaving.      *)
(*                                                                         *)
(* Each element of Callers is one call.  A cell is named after the call    *)
(* that inserted it.  Calls run on several threads: another call can take  *)
(* a step wherever two statements of this one are separate actions here.   *)
(***************************************************************************)
EXTENDS Integers, FiniteSets

CONSTANTS
    Callers,      \* calls of cached_fetch_json for the key
    Impatient,    \* those whose client may go away
    ValueTTL,     \* ttl_ms of the tier
    NegativeTTL,  \* DEFAULT_NEGATIVE_TTL_MS
    MaxTime,      \* bound: the clock stops here
    None          \* no row, no cell, no outcome, nobody

ASSUME TTLAssumption == ValueTTL \in Nat /\ NegativeTTL \in Nat /\ MaxTime \in Nat
ASSUME ImpatientAssumption == Impatient \subseteq Callers
ASSUME NoneAssumption ==
    /\ None \notin Callers
    /\ None \notin [negative : BOOLEAN, by : Callers, fetched : Int]
    /\ None \notin [kind : {"Hit", "Negative", "Error"}, by : Callers]

VARIABLES
    time,         \* the clock
    row,          \* the kv_envelope row: a value or a sentinel, and when
    inflight,     \* registry.inflight for the key: the cell or None
    runner,       \* per cell: the call that holds its initialisation permit
    outcome,      \* per cell: what it was set to
    stage,
    cell,         \* per call: the cell it cloned out of the registry
    answer,       \* per call that ran the fetcher: what it will set the cell to
    ret,          \* what each call returned
    written,      \* history: the calls whose value reached the row
    late,         \* history: the calls that registered when the row was there
    stray         \* history: a cell was evicted by a call that awaited another

history == <<late, stray>>
coalesceVars == <<time, row, inflight, runner, outcome, stage, cell, answer, ret, written,
                  history>>

CoalesceInit ==
    /\ time = 0
    /\ row = None
    /\ inflight = None
    /\ runner = [c \in Callers |-> None]
    /\ outcome = [c \in Callers |-> None]
    /\ stage = [c \in Callers |-> "idle"]
    /\ cell = [c \in Callers |-> None]
    /\ answer = [c \in Callers |-> None]
    /\ ret = [c \in Callers |-> "none"]
    /\ written = {}
    /\ late = {} /\ stray = FALSE

Advance(c, from, to) == stage[c] = from /\ stage' = [stage EXCEPT ![c] = to]

Return(c, res) == ret' = [ret EXCEPT ![c] = res]

------------------------------------------------------------------------------
(* The cache check: get_cached_json and the match on CacheHit.               *)

Live(r) == r.fetched + (IF r.negative THEN NegativeTTL ELSE ValueTTL) > time

\* What the row says now.  An expired sentinel is a miss, an expired value is
\* not: it is stale.
CacheHit ==
    CASE row = None                        -> "Miss"
      [] row # None /\ row.negative        -> IF Live(row) THEN "Sentinel" ELSE "Miss"
      [] OTHER                             -> IF Live(row) THEN "Fresh" ELSE "Stale"

LookupHit(c) ==
    /\ CacheHit # "Miss"
    /\ Advance(c, "idle", "done")
    /\ Return(c, CacheHit)
    /\ UNCHANGED <<time, row, inflight, runner, outcome, cell, answer, written, history>>

LookupMiss(c) ==
    /\ CacheHit = "Miss"
    /\ Advance(c, "idle", "miss")
    /\ UNCHANGED <<time, row, inflight, runner, outcome, cell, answer, ret, written, history>>

\* The SELECT failed, or the payload does not decode.
LookupError(c) ==
    /\ Advance(c, "idle", "done")
    /\ Return(c, "Error")
    /\ UNCHANGED <<time, row, inflight, runner, outcome, cell, answer, written, history>>

------------------------------------------------------------------------------
(* The coalesced fetch.                                                      *)

\* The entry is looked for first and inserted after: a cell set in between is lost.
JoinCell_Inserts(c) ==
    /\ Advance(c, "miss", "join")
    /\ inflight' = c
    /\ cell' = [cell EXCEPT ![c] = c]
    /\ late' = IF CacheHit = "Miss" THEN late ELSE late \cup {c}
    /\ UNCHANGED <<time, row, runner, outcome, answer, ret, written, stray>>

\* inflight.entry(key).or_insert_with(new cell).clone()
JoinCell(c) ==
    /\ Advance(c, "miss", "join")
    /\ inflight' = IF inflight = None THEN c ELSE inflight
    /\ cell' = [cell EXCEPT ![c] = inflight']
    /\ late' = IF CacheHit = "Miss" THEN late ELSE late \cup {c}
    /\ UNCHANGED <<time, row, runner, outcome, answer, ret, written, stray>>

\* get_or_init on an unset cell whose permit is free: this call's fetcher runs.
RunFetcher(c) ==
    /\ Advance(c, "join", "fetch")
    /\ outcome[cell[c]] = None /\ runner[cell[c]] = None
    /\ runner' = [runner EXCEPT ![cell[c]] = c]
    /\ UNCHANGED <<time, row, inflight, outcome, cell, answer, ret, written, history>>

\* get_or_init on a set cell.
TakeOutcome(c) ==
    /\ Advance(c, "join", "evict")
    /\ outcome[cell[c]] # None
    /\ UNCHANGED <<time, row, inflight, runner, outcome, cell, answer, ret, written, history>>

Answer(c, kind) == answer' = [answer EXCEPT ![c] = [kind |-> kind, by |-> c]]

FetchFound(c) ==
    /\ Advance(c, "fetch", "write")
    /\ \E kind \in {"Hit", "Negative"} : Answer(c, kind)
    /\ UNCHANGED <<time, row, inflight, runner, outcome, cell, ret, written, history>>

FetchFailed(c) ==
    /\ Advance(c, "fetch", "set")
    /\ Answer(c, "Error")
    /\ UNCHANGED <<time, row, inflight, runner, outcome, cell, ret, written, history>>

\* set_cached_json or set_negative_sentinel, stamped with its own clock reading.
NewRow(c) ==
    [negative |-> answer[c].kind = "Negative", by |-> c, fetched |-> time]

StoreRow(c) == row' = NewRow(c) /\ written' = written \cup {c}

\* The call goes on to set the cell before it has written the row.
WriteBack_Skipped(c) ==
    /\ Advance(c, "write", "set")
    /\ UNCHANGED <<time, row, inflight, runner, outcome, cell, answer, ret, written, history>>
WriteBack(c) ==
    /\ Advance(c, "write", "set")
    /\ StoreRow(c)
    /\ UNCHANGED <<time, inflight, runner, outcome, cell, answer, ret, history>>

WriteError(c) ==
    /\ Advance(c, "write", "set")
    /\ Answer(c, "Error")
    /\ UNCHANGED <<time, row, inflight, runner, outcome, cell, ret, written, history>>

\* The initialiser's future ends: the cell is set and every awaiter is woken.
SetCell(c) ==
    /\ Advance(c, "set", "evict")
    /\ outcome' = [outcome EXCEPT ![cell[c]] = answer[c]]
    /\ runner' = [runner EXCEPT ![cell[c]] = None]
    /\ answer' = [answer EXCEPT ![c] = None]
    /\ UNCHANGED <<time, row, inflight, cell, ret, written, history>>

\* inflight.remove(key): whatever cell is there now, by every awaiter.
Remaining_OnErrorKeeps(c) == IF outcome[cell[c]].kind = "Error" THEN inflight ELSE None
Remaining(c) == None

Evict(c) ==
    /\ Advance(c, "evict", "done")
    /\ inflight' = Remaining(c)
    /\ Return(c, outcome[cell[c]].kind)
    /\ cell' = [cell EXCEPT ![c] = None]
    /\ stray' = (stray \/ inflight \notin {None, cell[c]})
    /\ UNCHANGED <<time, row, runner, outcome, answer, written, late>>

\* The call's future is dropped at an await (its client went away).  If it held
\* the permit of its cell, the permit is free again; a write it had handed to
\* the connection's thread still happens.
Permit_Lost(c) == runner
Permit(c) == [x \in Callers |-> IF runner[x] = c THEN None ELSE runner[x]]

DropCall(c) ==
    /\ c \in Impatient
    /\ stage[c] \in {"miss", "join", "fetch", "write", "set"}
    /\ stage' = [stage EXCEPT ![c] = "gone"]
    /\ runner' = Permit(c)
    /\ answer' = [answer EXCEPT ![c] = None]
    /\ cell' = [cell EXCEPT ![c] = None]
    /\ \/ UNCHANGED <<row, written>>
       \/ stage[c] = "write" /\ StoreRow(c)
    /\ UNCHANGED <<time, inflight, outcome, ret, history>>

TimePasses ==
    /\ time < MaxTime
    /\ time' = time + 1
    /\ UNCHANGED <<row, inflight, runner, outcome, stage, cell, answer, ret, written, history>>

Lookup(c) == LookupHit(c) \/ LookupMiss(c) \/ LookupError(c)
Fetching(c) == FetchFound(c) \/ FetchFailed(c) \/ WriteBack(c) \/ WriteError(c) \/ SetCell(c)
Waiting(c) == RunFetcher(c) \/ TakeOutcome(c)

CoalesceNext ==
    \/ TimePasses
    \/ \E c \in Callers :
          Lookup(c) \/ JoinCell(c) \/ Waiting(c) \/ Fetching(c) \/ Evict(c) \/ DropCall(c)

CoalesceSpec == CoalesceInit /\ [][CoalesceNext]_coalesceVars

\* The runtime polls every call that can go on, and an upstream request ends
\* (the HTTP clients have timeouts).  No call has to start or to be dropped.
Fairness ==
    \A c \in Callers : WF_coalesceVars(JoinCell(c)) /\ WF_coalesceVars(Waiting(c))
                       /\ WF_coalesceVars(Fetching(c)) /\ WF_coalesceVars(Evict(c))
FairSpec == CoalesceSpec /\ Fairness

------------------------------------------------------------------------------
(* Properties.                                                               *)

Working(c) == stage[c] \in {"fetch", "write", "set"}

\* The registered cell can always serve the next miss: it is set and a call is
\* about to evict it, so no error sticks, or it is unset and its permit is free
\* or held by a call that is still at work, whoever was dropped meanwhile.
UsableEntry ==
    inflight # None =>
        \/ outcome[inflight] # None
           /\ \E c \in Callers : stage[c] = "evict" /\ cell[c] = inflight
        \/ outcome[inflight] = None
           /\ (runner[inflight] # None => Working(runner[inflight]))

\* On a cold cache the calls share one fetch.  Two run side by side only after
\* an eviction that took the cell of a later fetch; and one runs although the row
\* could answer only for a call that had missed before the row was there and
\* registers after the eviction, or for an awaiter of a dropped call.
FetchesAreShared ==
    stray \/ \A c \in Callers :
        /\ \A e \in Callers : Working(c) /\ Working(e) => c = e
        /\ stage[c] = "fetch" /\ CacheHit # "Miss" => c \in late \/ stage[row.by] = "gone"

\* "On a cold cache, N concurrent calls produce exactly one upstream fetcher
\* invocation and one cache write" (coalesce.rs): of calls that all came at once
\* and stayed, one writes.
OneCacheWrite == Cardinality(written) <= 1

\* No awaiter is told of a value or a sentinel that was not stored first.
StoredBeforeShared ==
    \A x \in Callers : outcome[x] # None /\ outcome[x].kind # "Error" =>
        outcome[x].by \in written

\* Every call that starts returns, unless it is dropped: an awaiter whose
\* fetching call was dropped takes over.
EveryCallReturns == \A c \in Callers : stage[c] # "idle" ~> stage[c] \in {"done", "gone"}

==============================================================================
