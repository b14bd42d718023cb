------------------------------ MODULE Delivery ------------------------------
(***************************************************************************)
(* From an upstream to an answer: the scheduler runs the seeders of the    *)
(* slots a handler reads, their cycles fetch through the clients and       *)
(* publish, rows age, and the handler reads its slots one after the other  *)
(* and answers.                                                            *)
(*                                                                         *)
(* A behaviour follows one handler, picked at the start from Chains, and   *)
(* the jobs that feed it. Each slot has a clock of its own, in minutes, so *)
(* the phases of two jobs are unrelated; a cycle takes less than a minute. *)
(* The publication itself, lock and transaction, is SeedPublish's subject: *)
(* here it stores the row or does not.                                     *)
(***************************************************************************)
EXTENDS Bootstrap, UpstreamCatalog, FiniteSets

CONSTANT Chains    \* the handlers looked at

\* The handlers that make something of a row, and hydration, a slot at a time.
Handlers == Readers \cup Hydrations("both")

ASSUME ChainsAssumption == Chains \subseteq Handlers

VARIABLES
    reader,   \* the handler, constant
    due,      \* slot -> minutes to the next tick of its job
    stored,   \* slot -> what its row holds, "none" when there is no row
    left,     \* slot -> minutes the row stays fresh
    cycle,    \* slot -> the cycle in progress: requests left, rows seen
    calm,     \* upstreams answer, the store works, nothing crashes
    next,     \* the slot the request being handled reads next
    gathered, \* what it has found in those before
    answer,   \* the last answer
    good      \* a request has been answered 200

jobs == <<due, stored, left, cycle>>
deliveryVars == <<reader, jobs, calm, next, gathered, answer, good>>

(***************************************************************************)
(* The slots                                                               *)
(***************************************************************************)
Writer == [k \in {s.key : s \in Seeders} |-> CHOOSE s \in Seeders : s.key = k]

Scheduled(key) == key \in DOMAIN REGISTRY

\* The slots whose seeder shares its lock with another job.
Contended == {s.key : s \in {s \in Seeders : \E r \in Seeders :
                                /\ r.domain = s.domain
                                /\ r.key # s.key /\ Scheduled(r.key)}}

\* The member is not in the row although what should hold it is.
Lacks(writes, path) ==
    /\ path \notin writes
    /\ \A n \in 1 .. Len(path) - 1 : SubSeq(path, 1, n) \in writes

AllSlots == UNION {{r.slots[i] : i \in DOMAIN r.slots} : r \in Handlers}
Written  == {s \in AllSlots : s.key \in DOMAIN Writer}

\* What the handler makes of the row its seeder writes.
Undecodable == {s \in Written : \E p \in s.needs : Lacks(Writer[s.key].writes, p)}
Defaulting  == {s \in Written : \E p \in s.defaults : Lacks(Writer[s.key].writes, p)}
Partless    == {s \in Written : ~ s.gives \subseteq Writer[s.key].writes}

Slots   == DOMAIN reader.slots
Key(i)  == reader.slots[i].key
Class(i) == Writer[Key(i)].fetch

RowState(i) == IF stored[i] = "none" THEN "absent" ELSE IF left[i] > 0 THEN "fresh" ELSE "stale"

(***************************************************************************)
(* The jobs                                                                *)
(***************************************************************************)
Idle == [left |-> 0, got |-> "none"]

\* All requests made, something to publish.
Loaded(c) == c.left = 0 /\ c.got # "none"

Requests(class) == IF class \in {"once", "memory"} THEN 1 ELSE 2

Upstream == [key \in DOMAIN Writer |->
                IF Writer[key].fetch = "memory" THEN {"rows", "none"} ELSE ResultsOf(key)]

Outcomes(i) == IF calm THEN {"rows"} ELSE Upstream[Key(i)]

Later(n, minutes) == IF n > minutes THEN n - minutes ELSE 0

\* Time passes for a slot, up to the next thing that happens to it. A cycle
\* takes less than a minute.
Pass(i) ==
    /\ i \in Slots /\ due[i] > 0 /\ cycle[i] = Idle
    /\ LET minutes == IF left[i] \in 1 .. due[i] THEN left[i] ELSE due[i]
       IN /\ due' = [due EXCEPT ![i] = @ - minutes]
          /\ left' = [left EXCEPT ![i] = Later(@, minutes)]
    /\ UNCHANGED <<reader, stored, cycle, calm, next, gathered, answer, good>>

\* Mutant: what cannot be parsed is taken for its default.
AfterRequest_Defaults(class, c, outcome) ==
    [left |-> c.left - 1, got |-> IF outcome = "error" THEN "blank" ELSE outcome]

\* The cycle after one more request. It ends in error, goes on, or has made
\* them all, with something to publish or not.
AfterRequest(class, c, outcome) ==
    LET both == {c.got, outcome}
        got  == IF "blank" \in both THEN "blank" ELSE IF "rows" \in both THEN "rows" ELSE "none"
        more == IF class = "fallback" /\ outcome # "absent" THEN 0 ELSE c.left - 1
    IN  IF outcome = "error" /\ class # "any" THEN Idle
        ELSE [left |-> more,
              got  |-> IF more = 0 /\ class = "all" /\ got = "none" THEN "rows" ELSE got]

Request(i, c) ==
    \E outcome \in Outcomes(i) :
        cycle' = [cycle EXCEPT ![i] = AfterRequest(Class(i), c, outcome)]

\* The interval of the job ticks (at once after a start, then every period,
\* whatever became of the cycle before) and the cycle makes its first request.
StartCycle(i) ==
    /\ i \in Slots /\ Scheduled(Key(i)) /\ due[i] = 0 /\ cycle[i] = Idle
    /\ due' = [due EXCEPT ![i] = REGISTRY[Key(i)]]
    /\ Request(i, [Idle EXCEPT !.left = Requests(Class(i))])
    /\ UNCHANGED <<reader, stored, left, calm, next, gathered, answer, good>>

Fetch(i) ==
    /\ i \in Slots /\ cycle[i].left > 0
    /\ Request(i, cycle[i])
    /\ UNCHANGED <<reader, due, stored, left, calm, next, gathered, answer, good>>

\* Mutants: a row that exists keeps its old stamp; only a row that exists is
\* written.
Publish_OldStamp(i) ==
    /\ i \in Slots /\ Loaded(cycle[i])
    /\ stored' = [stored EXCEPT ![i] = cycle[i].got]
    /\ left' = [left EXCEPT ![i] = IF stored[i] # "none" THEN @ ELSE Writer[Key(i)].ttl]
    /\ cycle' = [cycle EXCEPT ![i] = Idle]
    /\ UNCHANGED <<reader, due, calm, next, gathered, answer, good>>

Publish_UpdateOnly(i) ==
    /\ i \in Slots /\ Loaded(cycle[i])
    /\ left' = [left EXCEPT ![i] = IF stored[i] # "none" THEN Writer[Key(i)].ttl ELSE @]
    /\ cycle' = [cycle EXCEPT ![i] = Idle]
    /\ UNCHANGED <<reader, due, stored, calm, next, gathered, answer, good>>

Publish(i) ==
    /\ i \in Slots /\ Loaded(cycle[i])
    /\ stored' = [stored EXCEPT ![i] = cycle[i].got]
    /\ left' = [left EXCEPT ![i] = Writer[Key(i)].ttl]
    /\ cycle' = [cycle EXCEPT ![i] = Idle]
    /\ UNCHANGED <<reader, due, calm, next, gathered, answer, good>>

\* Mutant: a skipped cycle drops the row.
Skip_DropsRow(i) ==
    /\ i \in Slots /\ Loaded(cycle[i])
    /\ Key(i) \in Contended \/ ~ calm
    /\ stored' = [stored EXCEPT ![i] = "none"]
    /\ left' = [left EXCEPT ![i] = 0]
    /\ cycle' = [cycle EXCEPT ![i] = Idle]
    /\ UNCHANGED <<reader, due, calm, next, gathered, answer, good>>

\* Another seeder of the domain holds the lock, or the store fails. The cycle
\* is counted as skipped and the row of the cycle before stays.
Skip(i) ==
    /\ i \in Slots /\ Loaded(cycle[i])
    /\ Key(i) \in Contended \/ ~ calm
    /\ cycle' = [cycle EXCEPT ![i] = Idle]
    /\ UNCHANGED <<reader, due, stored, left, calm, next, gathered, answer, good>>

\* The relay comes back: rows survive, cycles do not, every job ticks.
Restart ==
    /\ ~ calm
    /\ due' = [i \in Slots |-> 0]
    /\ cycle' = [i \in Slots |-> Idle]
    /\ next' = 1 /\ gathered' = {}
    /\ UNCHANGED <<reader, stored, left, calm, answer, good>>

\* From here on nothing fails. (Before, everything may fail and need not, so a
\* calm that does not last is covered.)
Settle ==
    /\ ~ calm /\ calm' = TRUE
    /\ UNCHANGED <<reader, jobs, next, gathered, answer, good>>

(***************************************************************************)
(* The handler                                                             *)
(***************************************************************************)
NoAnswer == [status |-> "none", holds |-> {}]

\* Mutant: a row past its time is no row.
Found_FreshOnly(i) ==
    LET slot == reader.slots[i]
    IN  {what \in {"row", "part"} : /\ stored[i] # "none"
                                   /\ what = "part" => slot \notin Partless /\ left[i] > 0}

\* What a slot comes to: nothing, or a row that does not deserialise, yields a
\* part of the answer, has a figure replaced by a default, is made of defaults.
Found(i) ==
    LET slot == reader.slots[i]
    IN {what \in {"row", "undecodable", "part", "default", "blank"} :
        /\ stored[i] # "none"
        /\ CASE what = "row"         -> TRUE
             [] what = "undecodable" -> slot \in Undecodable
             [] what = "part"        -> slot \notin Partless
             [] what = "default"     -> slot \in Defaulting
             [] what = "blank"       -> slot \notin Partless /\ stored[i] = "blank"}

Reply(status, holds) ==
    /\ answer' = [status |-> status, holds |-> gathered \cap holds]
    /\ good' = (good \/ status = "ok")
    /\ next' = 1 /\ gathered' = {}
    /\ UNCHANGED <<reader, jobs, calm>>

\* A handler that decodes as it goes stops at the first row it cannot decode.
Read == \/ next > Len(reader.slots)
        \/ reader.decodes = "each" /\ "undecodable" \in gathered

\* A request comes in with the first slot read.
ReadSlot ==
    /\ ~ Read
    /\ \/ /\ next' = next + 1
          /\ gathered' = gathered \cup Found(next)
          /\ answer' = NoAnswer
          /\ UNCHANGED <<reader, jobs, calm, good>>
       \/ ~ calm /\ Reply("cache_failure", {})

\* 502 when a row does not deserialise, 503 when nothing is left to show.
Answer ==
    /\ Read
    /\ CASE "undecodable" \in gathered -> Reply("cache_shape", {})
         [] "part" \notin gathered /\ "undecodable" \notin gathered ->
                Reply("bootstrap_upstream_empty", {"row"})
         [] OTHER -> Reply("ok", {"default", "blank"})

(***************************************************************************)
(* The behaviour                                                           *)
(***************************************************************************)
DeliveryInit ==
    /\ reader \in Chains
    /\ due = [i \in Slots |-> 0]
    /\ stored = [i \in Slots |-> "none"]
    /\ left = [i \in Slots |-> 0]
    /\ cycle = [i \in Slots |-> Idle]
    /\ calm = FALSE /\ next = 1 /\ gathered = {}
    /\ answer = NoAnswer /\ good = FALSE

MaxSlots == 1 .. 4

Job(i) == Pass(i) \/ StartCycle(i) \/ Fetch(i) \/ Publish(i) \/ Skip(i)

DeliveryNext == (\E i \in MaxSlots : Job(i)) \/ Restart \/ Settle \/ ReadSlot \/ Answer

\* Intervals tick, requests of a cycle time out, publications end.
Fairness == \A i \in MaxSlots : WF_deliveryVars(Job(i))

DeliverySpec == DeliveryInit /\ [][DeliveryNext]_deliveryVars /\ Fairness

(***************************************************************************)
(* The handlers that meet a row they were not written for                  *)
(***************************************************************************)
\* The handlers that cannot deserialise what the seeder of a slot stores:
\* they answer 502 from the first publication on.
Drifted ==
    {GetAirQuality, GetEarthquakes, GetNaturalEvents, GetVolcanoActivity,
     GetWildfire, GetUcdpEvents, GetFuelPrices, GetMacroTiles,
     GetGoldIntelligence, GetOilInventories, GetNowCast, GetPredictionMarkets,
     GetScenarioState, GetActiveCampaigns, GetCloudStatus, GetCveTrending,
     GetCyberIncidents, GetInternetOutages, GetCountryDeepDive, GetRegional}

\* The handlers with a slot that yields nothing whatever its seeder stores:
\* they can answer 503 with rows in the store.
Unfed ==
    {GetClimateAnomalies, GetClimateSummary, GetEnergyComplex, GetEnergyCrisis,
     GetForecastSummary, GetMilitaryCorrelation, GetSupplyChain}

\* The handlers that answer 200 with a default where the seeder stores the
\* figure under another name, or not at all.
Defaulted ==
    {GetClimateAnomalies, GetClimateSummary, GetConflictEscalation,
     GetEnergyComplex, GetEnergyCrisis, GetForecastSummary, GetFuelPrices,
     GetInfraSummary, GetMacroTiles, GetMilitaryCorrelation,
     GetStrategicPosture, GetStrategicRisk, GetSupplyChain}

\* The slots whose rows can be of zeros and empty names, which hydration hands
\* out as they are.
Shapeless ==
    {"aviation:breaking-incidents:v1", "aviation:active-notams:v1",
     "climate:air-quality:current:v1", "natural:volcano-feed:current:v1",
     "conflict:incident-feed:v1", "conflict:iran-events:24h:v1",
     "conflict:events-24h:v1", "unrest:events-24h:v1",
     "energy:fuel-prices:current:v1", "energy:gie-gas-storage:current:v1",
     "eia:petroleum-stocks:latest:v1", "energy:spr-status:current:v1",
     "infrastructure:grid-stress:current:v1", "cyber:active-campaigns:v1",
     "supply-chain:stress-index:current:v1", "maritime:active-incidents:v1",
     "market:commodities-snapshot:v1", "market:cot-report:weekly:v1",
     "market:stocks-bootstrap:v1", "military:active-deployments:v1",
     "forecast:now-cast:summary:v1", "prediction:scenario-state:current:v1",
     "technology:cloud-status:current:v1", "technology:github-trending:v1",
     "technology:hn-top-stories:v1", "technology:ai-models-trending:v1",
     "technology:memory-market-index:v1", "military:theater-posture:current:v1"}

\* The handlers that can answer 200 with zeros and empty names because an
\* upstream answered 200 with something else than its data.
Fooled ==
    {GetClimateSummary, GetConflictEscalation, GetEnergyComplex,
     GetForecastSummary, GetInfraSummary, GetCountryDeepDive, GetGdeltFeed,
     GetRegional, GetStockAnalysis, GetBacktest, GetBreadth, GetCot,
     GetDailyBrief, GetFearGreed, GetMarketQuotes, GetStrategicPosture,
     GetStrategicRisk} \cup {Hydrate(key) : key \in Shapeless}

\* The slots whose rows can be made of defaults.
Blankable == {s \in AllSlots : Scheduled(s.key) /\ "blank" \in Upstream[s.key]}

\* A handler reads its slots one after the other.
ASSUME SlotsAssumption == \A r \in Chains : r.slots \in Seq(AllSlots)

\* A handler with a slot it cannot decode is on the first list: a fact of the
\* two catalogues alone.
ASSUME DriftedAssumption ==
    \A r \in Chains : \A i \in DOMAIN r.slots : r.slots[i] \in Undecodable => r \in Drifted

(***************************************************************************)
(* The properties                                                          *)
(***************************************************************************)
\* Apart from the handlers listed, a handler understands every row its slots
\* can hold: it never answers 502 for the shape of a row, never 503 while it
\* has one, and never shows a default for a figure the seeder stores.
ContractHolds ==
    /\ answer.status = "cache_shape" => reader \in Drifted
    /\ answer.status = "bootstrap_upstream_empty" /\ "row" \in answer.holds
          => reader \in Unfed
    /\ answer.status = "ok" /\ "default" \in answer.holds => reader \in Defaulted

\* Apart from the handlers listed, no reply of an upstream, of whatever shape,
\* becomes figures: between the client, the seeder and the handler it ends as
\* an error, as no row, or as a row that says it knows nothing.
NothingMadeUp ==
    answer.status = "ok" /\ "blank" \in answer.holds => reader \in Fooled

\* Once a handler has answered 200 it answers 200 as long as the store can be
\* read: a failed cycle, a lost lock or a restart never costs a row. (A handler
\* with several slots can lose to a row it cannot decode, published later.)
NeverTakenBack ==
    good => answer.status \in {"none", "ok", "cache_failure"} \/ reader \in Drifted

\* The slots whose job publishes without a rival.
Sure(i) == i \in Slots /\ Scheduled(Key(i)) /\ Key(i) \notin Contended

\* Once upstreams and store work, a job that shares its lock with no other
\* makes its slot fresh again and again, whatever failed before.
Recovers == <>calm => \A i \in MaxSlots : []<>(Sure(i) => RowState(i) = "fresh")

\* ... and a handler with such a slot, and no slot it cannot use, answers 200
\* from some time on.
Served ==
    (<>calm /\ reader \notin Drifted \cup Unfed /\ \E i \in MaxSlots : Sure(i))
        => <>[][Answer => answer'.status = "ok"]_deliveryVars

=============================================================================
