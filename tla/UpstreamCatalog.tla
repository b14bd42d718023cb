-------------------------- MODULE UpstreamCatalog --------------------------
(***************************************************************************)
(* The HTTP clients the seeders fetch with: for each, the slots it feeds,  *)
(* the seconds after which a request is given up, and what a caller gets   *)
(* for each kind of reply. A client refuses what is not a 2xx and what it  *)
(* cannot parse; but nearly every member it parses has a default, so that  *)
(* a reply of another shape becomes no rows, or rows of zeros and empty    *)
(* names that nothing tells from data.                                     *)
(***************************************************************************)
EXTENDS SeederCatalog

\* What an upstream can do:
\*   rows        the documented reply, with entries
\*   empty       the same without entries
\*   other       200 with a JSON object of another shape, as of an error
\*   bare        the documented list, its entries without the known members
\*   garbage     200 with neither JSON nor CSV
\*   not_found   404
\*   too_many    429
\*   refused     any other status outside 2xx
\*   silence     no answer, a broken connection, a timeout
Replies == {"rows", "empty", "other", "bare", "garbage", "not_found",
            "too_many", "refused", "silence"}

\* What the caller gets: rows, none, no file at all (absent), rows made of
\* defaults (blank), an error.  Status first, then the parser with its defaults.
Usual == [r \in Replies |->
            CASE r = "rows" -> "rows"
              [] r \in {"empty", "other"} -> "none"
              [] r = "bare" -> "blank"
              [] OTHER -> "error"]

Client(seconds, feeds, unusual) ==
    [seconds |-> seconds, feeds |-> {s.key : s \in feeds}, gives |-> unusual @@ Usual]

\* An envelope or list that has to be there; entries dropped for what they lack.
OtherFails  == "other" :> "error"
BareDropped == "bare" :> "none"

\* Aviation

\* The first flight of the list, its missing status read as "scheduled". The
\* timeout is that of the process's HTTP client.
Aviationstack == Client(10, {SeedAviationStatus}, <<>>)

\* No file for the day is no error.
Gpsjam == Client(15, {SeedGpsjam}, BareDropped @@ ("not_found" :> "absent"))

FaaNotam == Client(12, {SeedNotam}, <<>>)

\* Natural events and climate

NasaEonet == Client(12, {SeedNaturalEvents}, <<>>)

\* CSV: a line without coordinates is dropped, a header without its columns fails.
NasaFirms == Client(30, {SeedFireDetections}, OtherFails @@ BareDropped)

\* A series without a single reading is an error.
NoaaNcei == Client(12, {SeedClimateAnomalies},
                   OtherFails @@ ("empty" :> "error") @@ ("bare" :> "error"))

OpenAq == Client(12, {SeedAirQuality}, <<>>)

\* An event without magnitude is dropped.
UsgsEarthquakes == Client(12, {SeedEarthquakes}, BareDropped)

\* Conflict

\* success=false is an error; SeedAcled drops rows without an actor.
Acled == Client(20, {SeedAcled}, OtherFails @@ BareDropped)

Ucdp == Client(15, {SeedUcdpEvents}, <<>>)

Gdelt == Client(15, {SeedGdeltIntel, SeedIranEvents, SeedUnrestEvents,
                     SeedSupplyChainStress, SeedMaritimeIncidents,
                     SeedActiveDeployments}, <<>>)

\* A rate limit starts a cooldown and, like 404, is no error. The body is kept
\* as it is: one without "states" counts as a sky without aircraft.
OpenSky == Client(15, {SeedTheaterPosture},
                  [r \in {"too_many", "not_found"} |-> "none"]
                    @@ ("other" :> "blank") @@ ("bare" :> "rows"))

\* Cyber and infrastructure

\* An entry needs its id.
Nvd == Client(20, {SeedCveTrending, SeedCyberIncidentFeed}, BareDropped)

CisaKev == Client(15, {SeedSecurityAdvisories}, <<>>)

\* success=false is an error.
CloudflareRadar == Client(12, {SeedInternetOutages}, OtherFails)

\* Energy

\* The envelope has to be there; a value that is no number is 0.0.
Eia == Client(15, {SeedOilInventories, SeedFuelPrices, SeedSprPolicies}, OtherFails)

GieAgsi == Client(12, {SeedGieGasStorage}, <<>>)

\* CSV with required columns, short lines dropped.
Jodi == Client(60, {SeedJodi, SeedIeaOilStocks}, OtherFails @@ BareDropped)

\* Economy and markets

\* An observation without a value says so, and is not counted as a row.
Fred == Client(12, {SeedFinancialStress, SeedYieldCurve, SeedLiquidityShifts,
                    SeedSemiconductorPpi}, BareDropped)

\* Quotes without a dollar price fail, ids that are missing are left out.
CoinGecko == Client(6, {SeedCryptoQuotes, SeedStablecoinQuotes}, "bare" :> "error")

CftcCot == Client(10, {SeedCot}, OtherFails)

\* Each symbol is a request; one that fails, for whatever reason, is a missing
\* quote, never an error.
YahooQuotes ==
    Client(8, {SeedCommodityQuotes, SeedMarketQuotes, SeedMemoryMarket},
           [r \in Replies \ {"rows", "empty", "bare"} |-> "none"])

\* Bars without a close are dropped.
YahooHistory == Client(8, {SeedMarketHistory, SeedEtfFlows, SeedGoldEtfFlows},
                       OtherFails @@ BareDropped)

\* Predictions

Metaculus == Client(12, {SeedForecasts}, <<>>)

Polymarket == Client(12, {SeedPolymarket}, OtherFails)

\* Technology

\* A list of incidents; one without an end is an ongoing one.
GcpStatus == Client(12, {SeedCloudStatus}, OtherFails)

\* A list of ids, then each item; items that fail are left out.
HackerNews == Client(8, {SeedHackernewsTop}, OtherFails)

HuggingFace == Client(12, {SeedHuggingfaceTrending}, OtherFails)

OssInsight == Client(12, {SeedGithubTrending}, <<>>)

\* Instances of another type or without a price are dropped.
VantageCompute == Client(30, {SeedComputeSpotPrices}, OtherFails @@ BareDropped)

Clients ==
    {Aviationstack, Gpsjam, FaaNotam, NasaEonet, NasaFirms, NoaaNcei, OpenAq,
     UsgsEarthquakes, Acled, Ucdp, Gdelt, OpenSky, Nvd, CisaKev, CloudflareRadar,
     Eia, GieAgsi, Jodi, Fred, CoinGecko, CftcCot, YahooQuotes, YahooHistory,
     Metaculus, Polymarket, GcpStatus, HackerNews, HuggingFace, OssInsight,
     VantageCompute}

\* No request waits for ever, none for longer than a minute.
ASSUME TimeoutsAssumption == \A c \in Clients : c.seconds \in 1 .. 60

\* What a request for the slot can come to. Seeders whose fetcher is declared
\* but not written get rows, none or an error.
ResultsOf(key) ==
    LET feeding == {c \in Clients : key \in c.feeds}
    IN  IF feeding = {} THEN {"rows", "none", "error"}
        ELSE UNION {{c.gives[r] : r \in Replies} : c \in feeding}

============================================================================
