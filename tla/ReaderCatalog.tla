--------------------------- MODULE ReaderCatalog ---------------------------
(***************************************************************************)
(* The handlers that answer from rows of seeders: for each, the slots it   *)
(* reads in order and what it makes of a row.                              *)
(*                                                                         *)
(*   needs     members without which the row does not deserialise          *)
(*   defaults  members that are replaced by a default when missing         *)
(*   gives     members that must be there for the row to yield a part of   *)
(*             the answer (a tile, a list of rows)                         *)
(*                                                                         *)
(* Members are paths as in SeederCatalog, under the name the seeder uses   *)
(* where the handler accepts several. A member under a list or an object   *)
(* that is missing altogether is not missed.                               *)
(***************************************************************************)
EXTENDS SeederCatalog

Slot(key, needs, defaults, gives) ==
    [key |-> key, needs |-> needs, defaults |-> defaults, gives |-> gives]

\* One slot; several slots, all read before the first is decoded; several
\* slots, each decoded before the next is read.
One(slot)    == [decodes |-> "at_end", slots |-> <<slot>>]
Batch(slots) == [decodes |-> "at_end", slots |-> slots]
Loop(slots)  == [decodes |-> "each", slots |-> slots]

\* What no row has: the slot colours other parts and yields none.
NoPart == {<<>>}

\* Climate

GetAirQuality ==
    One(Slot("climate:air-quality:current:v1",
             In(<<"rows">>, {"city", "country", "aqi", "pollutant", "value",
                  "unit"}),
             In(<<>>, {"rows"}), {}))

GetClimateAnomalies ==
    Batch(<<Slot("climate:latest-anomaly:global:v1",
             {},
             In(<<>>, {"anomaly_c", "period"}), {<<"anomaly_c">>}),
        Slot("climate:station-records:monthly:v1",
             In(<<"rows">>, {"station_id", "label", "record_class", "value",
                  "set_on"}),
             In(<<>>, {"rows"}), {<<"rows">>})>>)

GetClimateSummary ==
    Batch(<<Slot("climate:latest-anomaly:global:v1",
             {},
             In(<<>>, {"anomaly_c"}), {<<"anomaly_c">>}),
        Slot("climate:air-quality:current:v1",
             {},
             In(<<>>, {"rows"}) \cup
               In(<<"rows">>, {"aqi"}), {<<"rows">>}),
        Slot("wildfire:active-perimeters:current:v1",
             {},
             In(<<>>, {"rows"}) \cup
               In(<<"rows">>, {"containment_pct"}), {<<"rows">>})>>)

GetEarthquakes ==
    One(Slot("seismology:recent-quakes:24h:v1",
             In(<<"rows">>, {"id", "place", "mag", "depth", "lat", "lon",
                  "occurred_at_ms"}),
             In(<<>>, {"rows"}), {}))

GetNaturalEvents ==
    Batch(<<Slot("natural:volcano-feed:current:v1",
             In(<<"rows">>, {"id", "name", "country", "status", "lat", "lon"}),
             In(<<>>, {"rows"}), {<<"rows">>}),
        Slot("wildfire:active-perimeters:current:v1",
             In(<<"rows">>, {"label", "region", "lat", "lon", "acres_burned",
                  "containment_pct"}),
             In(<<>>, {"rows"}), {<<"rows">>}),
        Slot("seismology:recent-quakes:24h:v1",
             In(<<"rows">>, {"id", "place", "mag", "depth", "lat", "lon",
                  "occurred_at_ms"}),
             In(<<>>, {"rows"}), {<<"rows">>})>>)

GetNoaaAlerts ==
    One(Slot("climate:noaa-alerts:current:v1",
             In(<<"rows">>, {"event", "area", "severity", "urgency",
                  "effective", "expires"}),
             In(<<>>, {"rows"}), {}))

GetVolcanoActivity ==
    One(Slot("natural:volcano-feed:current:v1",
             In(<<"rows">>, {"id", "name", "country", "status", "lat", "lon"}),
             In(<<>>, {"rows"}), {}))

GetWildfire ==
    One(Slot("wildfire:active-perimeters:current:v1",
             In(<<"rows">>, {"label", "region", "lat", "lon", "acres_burned",
                  "containment_pct"}),
             In(<<>>, {"rows"}), {}))

\* Conflict

GetConflictEscalation ==
    Batch(<<Slot("thermal:anomaly-feed:current:v1",
             {},
             In(<<>>, {"rows"}) \cup
               In(<<"rows">>, {"zone"}), {<<"rows">>}),
        Slot("conflict:events-24h:v1",
             {},
             In(<<>>, {"rows"}) \cup
               In(<<"rows">>, {"country", "fatalities"}), {<<"rows">>})>>)

GetUcdpEvents ==
    One(Slot("conflict:events-24h:v1",
             In(<<"rows">>, {"id", "country", "actor1", "actor2", "fatalities",
                  "lat", "lon", "occurred_at"}),
             In(<<>>, {"rows"}), {}))

\* Consumer prices

GetGroceryBasket ==
    One(Slot("consumer-prices:grocery-basket:v1",
             In(<<>>, {"rows"}) \cup
               In(<<"rows">>, {"iso", "country", "basket_usd", "basket_yoy_pct",
                  "period"}),
             {}, {}))

GetConsumerPrices ==
    Loop(<<Slot("consumer-prices:latest-cpi:US:v1",
             In(<<>>, {"region", "period"}) \cup
               In(<<"components">>, {"label", "yoy_pct"}),
             In(<<>>, {"headline_value", "yoy_pct", "mom_pct", "components"}) \cup
               In(<<"components">>, {"weight"}), {}),
        Slot("consumer-prices:latest-cpi:EU:v1",
             In(<<>>, {"region", "period"}) \cup
               In(<<"components">>, {"label", "yoy_pct"}),
             In(<<>>, {"headline_value", "yoy_pct", "mom_pct", "components"}) \cup
               In(<<"components">>, {"weight"}), {})>>)

\* Economy

GetBigMac ==
    One(Slot("economic:big-mac-index:v1",
             In(<<>>, {"snapshot_date", "rows"}) \cup
               In(<<"rows">>, {"iso", "country", "local_price", "currency",
                  "usd_price", "ppp", "fx_rate", "valuation_pct"}),
             {}, {}))

GetFaoFoodPriceIndex ==
    One(Slot("economic:fao-food-price-index:v1",
             In(<<>>, {"latest", "history"}) \cup
               In(<<"latest">>, {"period", "composite", "subindices"}) \cup
               In(<<"history">>, {"period", "composite", "subindices"}),
             In(<<>>, {"yoy_pct"}), {}))

GetFinancialStressIndex ==
    One(Slot("economic:financial-stress:v1",
             In(<<>>, {"series_code", "latest", "history"}) \cup
               In(<<"latest">>, {"date", "value"}) \cup
               In(<<"prior">>, {"date", "value"}) \cup
               In(<<"history">>, {"date", "value"}),
             In(<<>>, {"prior"}), {}))

GetFuelPrices ==
    One(Slot("energy:fuel-prices:current:v1",
             In(<<>>, {"rows"}) \cup
               In(<<"rows">>, {"region", "product", "usd_per_gallon"}),
             In(<<"rows">>, {"wow_change_pct"}), {}))

GetGulfEconomies ==
    One(Slot("economic:gulf-economies:v1",
             In(<<>>, {"rows"}) \cup
               In(<<"rows">>, {"iso", "country", "gdp_usd_billion",
                  "gdp_yoy_pct", "inflation_yoy_pct", "unemployment_pct",
                  "policy_rate_pct", "period"}),
             {}, {}))

GetMacroSignals ==
    Loop(<<Slot("economic:fred-latest:UNRATE:v1",
             In(<<"latest">>, {"value"}),
             In(<<>>, {"value", "prior", "latest"}) \cup
               In(<<"latest">>, {"prior_value"}), {<<"value">>}),
        Slot("economic:fred-latest:CPIAUCSL:v1",
             In(<<"latest">>, {"value"}),
             In(<<>>, {"value", "prior", "latest"}) \cup
               In(<<"latest">>, {"prior_value"}), {<<"value">>}),
        Slot("economic:financial-stress:v1",
             In(<<>>, {"latest"}) \cup
               In(<<"latest">>, {"value"}) \cup
               In(<<"prior">>, {"value"}),
             In(<<>>, {"prior"}), {})>>)

GetMacroTiles ==
    Loop(<<Slot("economic:fred-latest:UNRATE:v1",
             In(<<"latest">>, {"value"}),
             In(<<>>, {"value", "prior", "latest"}) \cup
               In(<<"latest">>, {"prior_value"}), {<<"value">>}),
        Slot("economic:fred-latest:CPIAUCSL:v1",
             In(<<"latest">>, {"value"}),
             In(<<>>, {"value", "prior", "latest"}) \cup
               In(<<"latest">>, {"prior_value"}), {<<"value">>}),
        Slot("economic:financial-stress:v1",
             In(<<>>, {"latest"}) \cup
               In(<<"latest">>, {"value"}),
             {}, {}),
        Slot("energy:fuel-prices:current:v1",
             In(<<>>, {"rows"}) \cup
               In(<<"rows">>, {"usd_per_gallon"}),
             In(<<"rows">>, {"wow_change_pct"}), {<<"rows">>})>>)

GetNationalDebt ==
    One(Slot("economic:national-debt:v1",
             In(<<>>, {"latest", "history"}) \cup
               In(<<"latest">>, {"period", "total_billion_usd",
                  "debt_to_gdp_pct"}) \cup
               In(<<"history">>, {"period", "total_billion_usd",
                  "debt_to_gdp_pct"}),
             In(<<>>, {"qoq_delta_billion_usd"}), {}))

GetEconomicSnapshot ==
    Loop(<<Slot("economic:fred-latest:UNRATE:v1",
             In(<<"latest">>, {"value"}),
             In(<<>>, {"value", "latest", "period", "date"}) \cup
               In(<<"latest">>, {"period", "date"}), {<<"value">>}),
        Slot("economic:fred-latest:CPIAUCSL:v1",
             In(<<"latest">>, {"value"}),
             In(<<>>, {"value", "latest", "period", "date"}) \cup
               In(<<"latest">>, {"period", "date"}), {<<"value">>})>>)

\* Energy

GetEnergyComplex ==
    Batch(<<Slot("energy:fuel-prices:current:v1",
             {},
             In(<<>>, {"rows"}) \cup
               In(<<"rows">>, {"usd_per_gallon"}), {<<"rows">>}),
        Slot("energy:gie-gas-storage:current:v1",
             {},
             In(<<>>, {"average_full_pct"}), {<<"average_full_pct">>}),
        Slot("energy:spr-status:current:v1",
             {},
             In(<<>>, {"current_mb", "delta_mb"}), {<<"current_mb">>})>>)

GetEnergyCrisis ==
    Batch(<<Slot("energy:gie-gas-storage:current:v1",
             {},
             In(<<>>, {"average_full_pct"}), {<<"average_full_pct">>}),
        Slot("energy:spr-status:current:v1",
             {},
             In(<<>>, {"current_mb", "delta_mb"}), {<<"current_mb">>})>>)

GetGoldIntelligence ==
    One(Slot("market:gold-etf-flows:current:v1",
             In(<<"rows">>, {"ticker", "region", "net_flow_million_usd",
                  "tonne_holdings"}),
             In(<<>>, {"rows"}), {}))

GetHormuz ==
    One(Slot("energy:hormuz-transits:current:v1",
             In(<<"rows">>, {"product", "mb_per_day", "share_pct"}),
             In(<<>>, {"rows", "total_mb_per_day", "period"}), {}))

GetOilInventories ==
    One(Slot("eia:petroleum-stocks:latest:v1",
             In(<<"rows">>, {"product", "period", "value_mb", "wow_delta_mb"}),
             In(<<>>, {"rows"}), {}))

GetRenewable ==
    One(Slot("energy:renewable-mix:current:v1",
             In(<<"rows">>, {"source", "capacity_gw", "yoy_pct", "share_pct"}),
             In(<<>>, {"rows", "total_capacity_gw", "period"}), {}))

\* Forecast

GetExtendedForecast ==
    One(Slot("forecast:extended:weekly:v1",
             In(<<"rows">>, {"id", "question", "probability", "horizon",
                  "delta_7d"}),
             In(<<>>, {"rows"}), {}))

GetNowCast ==
    One(Slot("forecast:now-cast:summary:v1",
             In(<<"rows">>, {"id", "question", "probability", "trend"}),
             In(<<>>, {"rows"}), {}))

GetPredictionMarkets ==
    One(Slot("prediction:scenario-state:current:v1",
             In(<<"rows">>, {"id", "question", "yes_price", "volume_usd",
                  "category"}),
             In(<<>>, {"rows"}), {}))

GetScenarioLibrary ==
    One(Slot("prediction:scenario-library:v1",
             In(<<"rows">>, {"id", "title", "domain", "probability"}),
             In(<<>>, {"rows"}), {}))

GetScenarioState ==
    One(Slot("prediction:scenario-state:current:v1",
             In(<<"rows">>, {"id", "question", "yes_price", "volume_usd",
                  "category"}),
             In(<<>>, {"rows"}), {}))

GetForecastSummary ==
    Batch(<<Slot("forecast:now-cast:summary:v1",
             {},
             In(<<>>, {"rows"}) \cup
               In(<<"rows">>, {"probability"}), {<<"rows">>}),
        Slot("prediction:scenario-state:current:v1",
             {},
             In(<<>>, {"rows"}) \cup
               In(<<"rows">>, {"yes_price", "volume_usd"}), {<<"rows", "volume_usd">>}),
        Slot("forecast:extended:weekly:v1",
             {},
             In(<<>>, {"rows"}) \cup
               In(<<"rows">>, {"delta_7d"}), {<<"rows">>})>>)

\* Infrastructure

GetActiveCampaigns ==
    One(Slot("cyber:active-campaigns:v1",
             In(<<"rows">>, {"id", "title", "actor", "severity", "sectors"}),
             In(<<>>, {"rows"}), {}))

GetCloudStatus ==
    One(Slot("technology:cloud-status:current:v1",
             In(<<"rows">>, {"provider", "component", "status", "region"}),
             In(<<>>, {"rows"}), {}))

GetCveTrending ==
    One(Slot("cyber:cve-trending:v1",
             In(<<"rows">>, {"cve_id", "summary", "cvss_score", "severity",
                  "published_at_ms"}),
             In(<<>>, {"rows"}), {}))

GetCyberIncidents ==
    One(Slot("cyber:incident-feed:24h:v1",
             In(<<"rows">>, {"id", "title", "severity", "source",
                  "published_at_ms"}),
             In(<<>>, {"rows"}), {}))

GetInfraSummary ==
    Batch(<<Slot("technology:cloud-status:current:v1",
             {},
             In(<<>>, {"rows"}) \cup
               In(<<"rows">>, {"status"}), {}),
        Slot("infrastructure:grid-stress:current:v1",
             {},
             In(<<>>, {"rows"}), {}),
        Slot("cyber:incident-feed:24h:v1",
             {},
             In(<<>>, {"rows"}) \cup
               In(<<"rows">>, {"severity"}), {})>>)

GetInternetOutages ==
    One(Slot("infrastructure:grid-stress:current:v1",
             In(<<"rows">>, {"provider", "region", "status", "started_at_ms",
                  "affected_as_count"}),
             In(<<>>, {"rows"}), {}))

\* Intelligence

GetCountryDeepDive ==
    Batch(<<Slot("conflict:events-24h:v1",
             In(<<>>, {"rows"}) \cup
               In(<<"rows">>, {"actor", "event_count", "total_fatalities",
                  "country_breakdown"}),
             {}, {}),
        Slot("conflict:incident-feed:v1",
             In(<<>>, {"rows"}) \cup
               In(<<"rows">>, {"url", "title", "domain", "language",
                  "source_country", "seen_date"}),
             {}, {}),
        Slot("telegram:recent-feed:v1",
             In(<<>>, {"rows"}) \cup
               In(<<"rows">>, {"channel", "data_post", "url", "datetime", "text",
                  "views"}),
             {}, {})>>)

GetGdeltFeed ==
    One(Slot("conflict:incident-feed:v1",
             In(<<>>, {"rows", "query", "timespan", "assembled_at_ms"}) \cup
               In(<<"rows">>, {"url", "title", "seen_date", "social_image",
                  "domain", "language", "source_country"}),
             {}, {}))

GetRegional ==
    Batch(<<Slot("conflict:events-24h:v1",
             In(<<>>, {"rows"}) \cup
               In(<<"rows">>, {"actor", "event_count", "total_fatalities",
                  "country_breakdown"}),
             {}, {}),
        Slot("conflict:incident-feed:v1",
             In(<<>>, {"rows"}) \cup
               In(<<"rows">>, {"source_country"}),
             {}, {})>>)

\* Markets

GetStockAnalysis ==
    One(Slot("market:stocks-bootstrap:v1",
             In(<<>>, {"rows"}) \cup
               In(<<"rows">>, {"symbol", "price", "previous_close",
                  "percent_change", "currency", "exchange", "regular_market_time"}),
             {}, {}))

GetBacktest ==
    One(Slot("market:stocks-bootstrap:v1",
             In(<<>>, {"rows"}) \cup
               In(<<"rows">>, {"symbol"}),
             In(<<"rows">>, {"percent_change"}), {}))

GetBreadth ==
    One(Slot("market:stocks-bootstrap:v1",
             In(<<>>, {"rows"}) \cup
               In(<<"rows">>, {"symbol"}),
             In(<<"rows">>, {"percent_change"}), {}))

GetCot ==
    One(Slot("market:cot-report:weekly:v1",
             In(<<>>, {"rows"}) \cup
               In(<<"rows">>, {"contract_code", "contract_name", "report_date",
                  "open_interest_all", "producer_long", "producer_short",
                  "swap_long", "swap_short", "managed_money_long",
                  "managed_money_short", "managed_money_net"}),
             {}, {}))

GetDailyBrief ==
    Batch(<<Slot("market:stocks-bootstrap:v1",
             In(<<>>, {"rows"}) \cup
               In(<<"rows">>, {"symbol", "price", "percent_change"}),
             {}, {}),
        Slot("market:crypto-snapshot:v1",
             In(<<>>, {"rows"}) \cup
               In(<<"rows">>, {"usd_24h_change"}),
             {}, {}),
        Slot("market:commodities-snapshot:v1",
             In(<<>>, {"rows"}) \cup
               In(<<"rows">>, {"percent_change"}),
             {}, {})>>)

GetEarnings ==
    One(Slot("market:earnings-calendar:7d:v1",
             In(<<>>, {"events"}) \cup
               In(<<"events">>, {"symbol", "company", "date", "timing"}),
             In(<<"events">>, {"eps_estimate", "eps_actual_prior"}) \cup
               In(<<>>, {"lookahead_days"}), {}))

GetEtfFlows ==
    One(Slot("market:etf-flows:current:v1",
             In(<<>>, {"rows"}) \cup
               In(<<"rows">>, {"symbol"}),
             In(<<"rows">>, {"latest_dollar_volume", "avg_dollar_volume",
                  "activity_ratio", "latest_session_ts"}) \cup
               In(<<>>, {"lookback_days"}), {}))

GetFearGreed ==
    Batch(<<Slot("market:stocks-bootstrap:v1",
             In(<<>>, {"rows"}) \cup
               In(<<"rows">>, {"symbol", "price", "percent_change"}),
             {}, {}),
        Slot("market:etf-flows:current:v1",
             In(<<>>, {"rows"}) \cup
               In(<<"rows">>, {"activity_ratio"}),
             {}, {})>>)

GetLiquidityShifts ==
    One(Slot("market:liquidity-shifts:v1",
             In(<<>>, {"series"}) \cup
               In(<<"series">>, {"series_code", "latest_value", "latest_date"}),
             In(<<"series">>, {"prior_value", "period_delta",
                  "period_delta_pct"}) \cup
               In(<<>>, {"net_liquidity_billion_usd"}), {}))

GetMarketQuotes ==
    One(Slot("market:stocks-bootstrap:v1",
             In(<<>>, {"rows"}) \cup
               In(<<"rows">>, {"symbol", "price", "previous_close",
                  "percent_change", "currency", "exchange", "regular_market_time"}),
             {}, {}))

GetStablecoins ==
    One(Slot("market:stablecoin-snapshot:v1",
             In(<<>>, {"rows"}) \cup
               In(<<"rows">>, {"id", "symbol", "usd", "usd_24h_change",
                  "usd_market_cap", "peg_deviation_pct", "last_updated_at"}),
             {}, {}))

GetYieldCurve ==
    One(Slot("market:yield-curve:treasury:v1",
             In(<<>>, {"points"}) \cup
               In(<<"points">>, {"series_code", "maturity_label",
                  "maturity_months", "yield_pct", "observation_date"}),
             {}, {}))

\* Military

GetDefensePatents ==
    One(Slot("defense:patent-trends:v1",
             In(<<"rows">>, {"cpc_class", "label", "filings_30d", "yoy_pct",
                  "top_filer"}),
             In(<<>>, {"rows", "total_filings_30d", "period"}), {}))

GetMilitaryCorrelation ==
    Batch(<<Slot("military:theater-posture:current:v1",
             {},
             In(<<>>, {"rows"}) \cup
               In(<<"rows">>, {"theater", "readiness", "headcount"}), {<<"rows">>}),
        Slot("conflict:events-24h:v1",
             {},
             In(<<>>, {"rows"}) \cup
               In(<<"rows">>, {"country", "fatalities"}), NoPart),
        Slot("military:active-deployments:v1",
             {},
             In(<<>>, {"rows"}) \cup
               In(<<"rows">>, {"theater"}), NoPart)>>)

GetStrategicPosture ==
    One(Slot("military:theater-posture:current:v1",
             In(<<"rows">>, {"theater", "force", "readiness", "headcount"}),
             In(<<>>, {"rows"}), {}))

GetStrategicRisk ==
    Batch(<<Slot("conflict:events-24h:v1",
             {},
             In(<<>>, {"rows"}) \cup
               In(<<"rows">>, {"fatalities"}), {}),
        Slot("military:theater-posture:current:v1",
             {},
             In(<<>>, {"rows"}) \cup
               In(<<"rows">>, {"readiness"}), {}),
        Slot("sanctions:recent-additions:24h:v1",
             {},
             In(<<>>, {"rows"}), {})>>)

\* News

GetNewsArticles ==
    One(Slot("news:articles:list:v1",
             In(<<>>, {"articles"}) \cup
               In(<<"articles">>, {"id", "title", "source", "published_at_ms"}),
             In(<<"articles">>, {"url", "summary", "severity"}), {}))

\* The banner reads the row of the list, decodes all of it and keeps the
\* articles that say they are severe.
GetBreaking == GetNewsArticles

\* Sanctions

GetSanctionsPressure ==
    One(Slot("sanctions:recent-additions:24h:v1",
             In(<<"rows">>, {"authority", "entity", "entity_type",
                  "jurisdiction", "listed_on", "programme"}),
             In(<<>>, {"rows"}), {}))

\* Supply chain

GetSupplyChain ==
    Batch(<<Slot("supply-chain:stress-index:current:v1",
             {},
             In(<<>>, {"index_value"}), {<<"index_value">>}),
        Slot("supply-chain:port-congestion:current:v1",
             {},
             In(<<>>, {"rows"}), {}),
        Slot("maritime:chokepoint-status:current:v1",
             {},
             In(<<>>, {"rows"}) \cup
               In(<<"rows">>, {"status"}), {})>>)

\* Telegram

GetTelegramFeed ==
    One(Slot("telegram:recent-feed:v1",
             In(<<>>, {"rows", "channels", "assembled_at_ms"}) \cup
               In(<<"rows">>, {"channel", "data_post", "url", "datetime", "text",
                  "views"}),
             {}, {}))

\* Thermal

GetThermalEscalation ==
    One(Slot("thermal:anomaly-feed:current:v1",
             In(<<"rows">>, {"id", "lat", "lon", "brightness_k", "confidence",
                  "zone", "acquired_at"}),
             In(<<>>, {"rows"}), {}))

\* Trade

GetTradePolicy ==
    One(Slot("trade:tariff-alerts:current:v1",
             In(<<"rows">>, {"authority", "origin", "destination", "hs_code",
                  "product", "rate_delta_pp", "effective", "headline"}),
             In(<<>>, {"rows", "total_rate_delta_pp"}), {}))

\* The brief of a country is the deep dive's answer, shortened.
GetCountryBrief == GetCountryDeepDive

Readers ==
    {GetAirQuality, GetClimateAnomalies, GetClimateSummary, GetEarthquakes,
     GetNaturalEvents, GetNoaaAlerts, GetVolcanoActivity, GetWildfire,
     GetConflictEscalation, GetUcdpEvents, GetGroceryBasket, GetConsumerPrices,
     GetBigMac, GetFaoFoodPriceIndex, GetFinancialStressIndex, GetFuelPrices,
     GetGulfEconomies, GetMacroSignals, GetMacroTiles, GetNationalDebt,
     GetEconomicSnapshot, GetEnergyComplex, GetEnergyCrisis, GetGoldIntelligence,
     GetHormuz, GetOilInventories, GetRenewable, GetExtendedForecast, GetNowCast,
     GetPredictionMarkets, GetScenarioLibrary, GetScenarioState, GetForecastSummary,
     GetCountryBrief, GetActiveCampaigns, GetCloudStatus, GetCveTrending, GetCyberIncidents,
     GetInfraSummary, GetInternetOutages, GetCountryDeepDive, GetGdeltFeed,
     GetRegional, GetStockAnalysis, GetBacktest, GetBreadth, GetCot, GetDailyBrief,
     GetEarnings, GetEtfFlows, GetFearGreed, GetLiquidityShifts, GetMarketQuotes,
     GetStablecoins, GetYieldCurve, GetDefensePatents, GetMilitaryCorrelation,
     GetStrategicPosture, GetStrategicRisk, GetNewsArticles, GetBreaking,
     GetSanctionsPressure, GetSupplyChain, GetTelegramFeed, GetThermalEscalation, GetTradePolicy}

============================================================================
