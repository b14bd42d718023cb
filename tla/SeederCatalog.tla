--------------------------- MODULE SeederCatalog ---------------------------
(***************************************************************************)
(* The seeders: for each, the slot it fills, the lock domain it publishes  *)
(* under, the cascade group of its seed_meta row, the life of its rows in  *)
(* minutes, how a cycle fetches, and the members of the JSON it stores.    *)
(*                                                                         *)
(* A member is named by its path from the top of the snapshot, an element  *)
(* of a list counting as its list: <<"rows", "symbol">>.                   *)
(***************************************************************************)
EXTENDS Naturals, Sequences, TLC

\* Members of one place in the snapshot.
In(path, names) == {Append(path, n) : n \in names}

\* How a cycle fetches.
\*   once      one request; an error or no usable row ends the cycle
\*   each      several requests; an error ends the cycle, a request without a
\*             row does not, no row at all does
\*   all       as "each", but what has no row is published as unknown
\*   any       several requests; errors are passed over as long as one has rows
\*   fallback  a second request (the day before) when there is no file for the
\*             first; a file without a usable row ends the cycle
\*   memory    no request: the vessel table of the process
Seeder(key, domain, group, ttl, fetch, writes) ==
    [key |-> key, domain |-> domain, group |-> group, ttl |-> ttl,
     fetch |-> fetch, writes |-> writes]

Minutes(n) == n
Hours(n)   == 60 * n
Days(n)    == 24 * 60 * n

\* Aviation

SeedAviationStatus ==
    Seeder("aviation:breaking-incidents:v1", "aviation",
           "aviation-status", Minutes(1), "each",
           In(<<>>, {"rows", "assembled_at_ms"})
             \cup In(<<"rows">>, {"flight", "origin", "destination", "status",
                  "scheduled_departure", "scheduled_arrival", "departure_gate",
                  "arrival_gate"}))

SeedGpsjam ==
    Seeder("aviation:airspace-restrictions:v1", "aviation",
           "aviation-gpsjam", Minutes(1), "fallback",
           In(<<>>, {"rows", "source_date", "total_cells",
                  "assembled_at_ms"})
             \cup In(<<"rows">>, {"h3", "bad_pos_pct", "samples"}))

SeedNotam ==
    Seeder("aviation:active-notams:v1", "aviation",
           "aviation-notam", Minutes(1), "once",
           In(<<>>, {"rows", "assembled_at_ms"})
             \cup In(<<"rows">>, {"number", "icao_location", "issue_date_unix",
                  "start_date_unix", "end_date_unix", "message", "active_now"}))

\* Climate and natural events

SeedAirQuality ==
    Seeder("climate:air-quality:current:v1", "climate",
           "air-quality", Minutes(1), "once",
           In(<<>>, {"rows", "countries", "assembled_at_ms"})
             \cup In(<<"rows">>, {"location", "city", "country", "latitude",
                  "longitude", "measurements"})
             \cup In(<<"rows", "measurements">>, {"parameter", "value", "unit",
                  "last_updated"}))

SeedClimateAnomalies ==
    Seeder("climate:latest-anomaly:global:v1", "climate",
           "climate-anomalies", Minutes(1), "once",
           In(<<>>, {"title", "units", "latest", "sparkline",
                  "assembled_at_ms"})
             \cup In(<<"latest">>, {"year", "anomaly_c"})
             \cup In(<<"sparkline">>, {"year", "anomaly_c"}))

SeedEarthquakes ==
    Seeder("seismology:recent-quakes:24h:v1", "seismology",
           "seismology", Minutes(1), "once",
           In(<<>>, {"rows", "total_events", "assembled_at_ms"})
             \cup In(<<"rows">>, {"magnitude", "place", "time_ms", "url", "tsunami",
                  "alert", "longitude", "latitude", "depth_km"}))

SeedFireDetections ==
    Seeder("wildfire:active-perimeters:current:v1", "wildfire",
           "wildfire", Minutes(1), "once",
           In(<<>>, {"rows", "total_detections", "assembled_at_ms"})
             \cup In(<<"rows">>, {"latitude", "longitude", "frp", "bright_ti4",
                  "acq_date", "acq_time", "confidence", "daynight"}))

SeedNaturalEvents ==
    Seeder("natural:volcano-feed:current:v1", "natural",
           "natural-events", Minutes(1), "once",
           In(<<>>, {"rows", "days", "assembled_at_ms"})
             \cup In(<<"rows">>, {"id", "title", "link", "categories",
                  "latest_geometry"})
             \cup In(<<"rows", "latest_geometry">>, {"date", "kind", "longitude",
                  "latitude", "magnitude_value", "magnitude_unit"}))

SeedNoaaAlerts ==
    Seeder("climate:noaa-alerts:current:v1", "climate",
           "climate", Minutes(15), "once",
           In(<<>>, {"rows", "total", "assembled_at_ms"})
             \cup In(<<"rows">>, {"event", "area", "severity", "urgency",
                  "effective", "expires"}))

SeedStationRecords ==
    Seeder("climate:station-records:monthly:v1", "climate",
           "climate", Days(1), "once",
           In(<<>>, {"rows", "month", "assembled_at_ms"})
             \cup In(<<"rows">>, {"station_id", "label", "record_class", "value",
                  "set_on"}))

\* Conflict

SeedAcled ==
    Seeder("conflict:hot-actors:24h:v1", "conflict",
           "conflict-acled", Minutes(1), "once",
           In(<<>>, {"rows", "total_events", "date_range",
                  "assembled_at_ms"})
             \cup In(<<"rows">>, {"actor", "event_count", "total_fatalities",
                  "country_breakdown"}))

SeedGdeltIntel ==
    Seeder("conflict:incident-feed:v1", "conflict",
           "conflict-gdelt", Minutes(1), "once",
           In(<<>>, {"rows", "query", "timespan", "assembled_at_ms"})
             \cup In(<<"rows">>, {"url", "title", "seen_date", "social_image",
                  "domain", "language", "source_country"}))

SeedIranEvents ==
    Seeder("conflict:iran-events:24h:v1", "conflict",
           "conflict-iran", Minutes(1), "once",
           In(<<>>, {"rows", "query", "assembled_at_ms"})
             \cup In(<<"rows">>, {"url", "title", "seen_date", "domain",
                  "source_country", "language"}))

SeedThermalAnomalies ==
    Seeder("thermal:anomaly-feed:current:v1", "thermal",
           "thermal", Minutes(15), "once",
           In(<<>>, {"rows", "total", "assembled_at_ms"})
             \cup In(<<"rows">>, {"id", "lat", "lon", "brightness_k", "confidence",
                  "zone", "acquired_at"}))

SeedUcdpEvents ==
    Seeder("conflict:events-24h:v1", "conflict", "conflict-ucdp", Minutes(1), "once",
           In(<<>>, {"rows", "total_count", "year", "assembled_at_ms"})
             \cup In(<<"rows">>, {"id", "date_start", "country", "side_a", "side_b",
                  "type_of_violence", "best_fatalities", "latitude", "longitude"}))

SeedUnrestEvents ==
    Seeder("unrest:events-24h:v1", "unrest", "unrest", Minutes(1), "once",
           In(<<>>, {"rows", "query", "assembled_at_ms"})
             \cup In(<<"rows">>, {"url", "title", "seen_date", "domain",
                  "source_country"}))

\* Cyber

SeedCveTrending ==
    Seeder("cyber:cve-trending:v1", "cyber",
           "cyber-cve-trending", Minutes(1), "once",
           In(<<>>, {"rows", "lookback_hours", "min_cvss", "total_results",
                  "assembled_at_ms"})
             \cup In(<<"rows">>, {"cve_id", "published", "description",
                  "cvss_base_score", "cvss_severity", "primary_reference"}))

SeedCyberIncidentFeed ==
    Seeder("cyber:incident-feed:24h:v1", "cyber",
           "cyber-cve-feed", Minutes(1), "once",
           In(<<>>, {"rows", "total_results", "lookback_hours",
                  "assembled_at_ms"})
             \cup In(<<"rows">>, {"cve_id", "published", "description",
                  "cvss_base_score", "cvss_severity", "primary_reference"}))

\* Economy

SeedBigMacIndex ==
    Seeder("economic:big-mac-index:v1", "economic", "economic", Days(7), "once",
           In(<<>>, {"snapshot_date", "rows", "assembled_at_ms"})
             \cup In(<<"rows">>, {"iso", "country", "local_price", "currency",
                  "usd_price", "ppp", "fx_rate", "valuation_pct"}))

SeedFaoFoodPrice ==
    Seeder("economic:fao-food-price-index:v1", "economic",
           "economic", Days(1), "once",
           In(<<>>, {"latest", "history", "yoy_pct", "assembled_at_ms"})
             \cup In(<<"latest">>, {"period", "composite", "subindices"})
             \cup In(<<"history">>, {"period", "composite", "subindices"}))

SeedFinancialStress ==
    Seeder("economic:financial-stress:v1", "economic", "economic", Hours(12), "once",
           In(<<>>, {"series_code", "latest", "prior", "history",
                  "assembled_at_ms"})
             \cup In(<<"latest">>, {"date", "value"})
             \cup In(<<"prior">>, {"date", "value"})
             \cup In(<<"history">>, {"date", "value"}))

SeedGroceryBasket ==
    Seeder("consumer-prices:grocery-basket:v1", "consumer-prices",
           "consumer-prices", Days(1), "once",
           In(<<>>, {"rows", "assembled_at_ms"})
             \cup In(<<"rows">>, {"iso", "country", "basket_usd", "basket_yoy_pct",
                  "period"}))

SeedGulfEconomies ==
    Seeder("economic:gulf-economies:v1", "economic", "economic", Days(1), "once",
           In(<<>>, {"rows", "assembled_at_ms"})
             \cup In(<<"rows">>, {"iso", "country", "gdp_usd_billion",
                  "gdp_yoy_pct", "inflation_yoy_pct", "unemployment_pct",
                  "policy_rate_pct", "period"}))

SeedNationalDebt ==
    Seeder("economic:national-debt:v1", "economic", "economic", Days(1), "once",
           In(<<>>, {"latest", "qoq_delta_billion_usd", "history",
                  "assembled_at_ms"})
             \cup In(<<"latest">>, {"period", "total_billion_usd",
                  "debt_to_gdp_pct"})
             \cup In(<<"history">>, {"period", "total_billion_usd",
                  "debt_to_gdp_pct"}))

\* Energy

SeedFuelPrices ==
    Seeder("energy:fuel-prices:current:v1", "energy",
           "energy-fuel-prices", Minutes(1), "once",
           In(<<>>, {"rows", "latest", "assembled_at_ms"})
             \cup In(<<"rows">>, {"period", "value", "units"})
             \cup In(<<"latest">>, {"period", "value", "units"}))

SeedGieGasStorage ==
    Seeder("energy:gie-gas-storage:current:v1", "energy",
           "energy-gas-storage", Minutes(1), "each",
           In(<<>>, {"rows", "date_range", "assembled_at_ms"})
             \cup In(<<"rows">>, {"gas_day_start", "name", "code",
                  "gas_in_storage_twh", "working_gas_volume_twh", "full_pct",
                  "injection_twh", "withdrawal_twh", "trend", "status"}))

SeedHormuzTransits ==
    Seeder("energy:hormuz-transits:current:v1", "energy",
           "energy", Hours(12), "once",
           In(<<>>, {"rows", "total_mb_per_day", "period",
                  "assembled_at_ms"})
             \cup In(<<"rows">>, {"product", "mb_per_day", "share_pct"}))

SeedIeaOilStocks ==
    Seeder("energy:iea-oil-stocks:monthly:v1", "energy",
           "energy-iea-oil-stocks", Hours(12), "once",
           In(<<>>, {"rows", "source_note", "assembled_at_ms"})
             \cup In(<<"rows">>, {"country", "time_period", "obs_value",
                  "unit_measure"}))

SeedJodi ==
    Seeder("energy:jodi:latest:v1", "energy", "energy-jodi", Hours(6), "once",
           In(<<>>, {"rows", "flow_breakdown", "oil_dataset",
                  "assembled_at_ms"})
             \cup In(<<"rows">>, {"country", "time_period", "energy_product",
                  "obs_value", "unit_measure"}))

SeedOilInventories ==
    Seeder("eia:petroleum-stocks:latest:v1", "energy",
           "energy-oil-inventories", Minutes(1), "once",
           In(<<>>, {"rows", "latest", "assembled_at_ms"})
             \cup In(<<"rows">>, {"period", "value", "units"})
             \cup In(<<"latest">>, {"period", "value", "units"}))

SeedRenewableMix ==
    Seeder("energy:renewable-mix:current:v1", "energy", "energy", Days(1), "once",
           In(<<>>, {"rows", "total_capacity_gw", "period",
                  "assembled_at_ms"})
             \cup In(<<"rows">>, {"source", "capacity_gw", "yoy_pct", "share_pct"}))

SeedSprPolicies ==
    Seeder("energy:spr-status:current:v1", "energy", "energy-spr", Hours(1), "once",
           In(<<>>, {"rows", "latest", "yoy_delta", "assembled_at_ms"})
             \cup In(<<"rows">>, {"period", "value", "units"})
             \cup In(<<"latest">>, {"period", "value", "units"}))

\* Infrastructure

SeedInternetOutages ==
    Seeder("infrastructure:grid-stress:current:v1", "infrastructure",
           "infra-outages", Minutes(1), "once",
           In(<<>>, {"rows", "date_range", "assembled_at_ms"})
             \cup In(<<"rows">>, {"uuid", "scope", "locations", "outage_type",
                  "outage_cause", "description", "start_date", "end_date",
                  "linked_url", "ongoing"}))

SeedSecurityAdvisories ==
    Seeder("cyber:active-campaigns:v1", "cyber", "cyber-kev", Minutes(1), "once",
           In(<<>>, {"rows", "catalog_version", "total_catalog_size",
                  "assembled_at_ms"})
             \cup In(<<"rows">>, {"cve_id", "vendor_project", "product",
                  "vulnerability_name", "date_added", "short_description",
                  "required_action", "due_date", "known_ransomware_campaign_use"}))

\* Logistics

SeedPortCongestion ==
    Seeder("supply-chain:port-congestion:current:v1", "supply-chain",
           "supply-chain-ports", Minutes(1), "memory",
           In(<<>>, {"rows", "total_vessels_at_ports", "source_note",
                  "assembled_at_ms"})
             \cup In(<<"rows">>, {"name", "bbox", "vessel_count"}))

SeedSupplyChainStress ==
    Seeder("supply-chain:stress-index:current:v1", "supply-chain",
           "supply-chain", Minutes(1), "once",
           In(<<>>, {"rows", "article_count", "source_note",
                  "assembled_at_ms"})
             \cup In(<<"rows">>, {"url", "title", "seen_date", "domain",
                  "source_country"}))

\* Maritime

SeedAisSnapshot ==
    Seeder("maritime:ais-snapshot:summary:v1", "maritime",
           "maritime-ais", Minutes(1), "memory",
           In(<<>>, {"regions", "total_vessels", "assembled_at_ms"})
             \cup In(<<"regions">>, {"name", "vessel_count"}))

SeedChokepointStatus ==
    Seeder("maritime:chokepoint-status:current:v1", "maritime",
           "maritime-chokepoint", Minutes(1), "memory",
           In(<<>>, {"rows", "assembled_at_ms"})
             \cup In(<<"rows">>, {"name", "bbox", "vessel_count"}))

SeedMaritimeIncidents ==
    Seeder("maritime:active-incidents:v1", "maritime",
           "maritime-incidents", Minutes(1), "once",
           In(<<>>, {"rows", "query", "assembled_at_ms"})
             \cup In(<<"rows">>, {"url", "title", "seen_date", "domain",
                  "source_country"}))

\* Markets

SeedCommodityQuotes ==
    Seeder("market:commodities-snapshot:v1", "markets",
           "markets-commodities", Minutes(1), "once",
           In(<<>>, {"rows", "assembled_at_ms"})
             \cup In(<<"rows">>, {"symbol", "price", "previous_close",
                  "percent_change", "currency", "exchange", "regular_market_time"}))

SeedCot ==
    Seeder("market:cot-report:weekly:v1", "markets", "markets-cot", Days(1), "once",
           In(<<>>, {"rows", "assembled_at_ms"})
             \cup In(<<"rows">>, {"contract_code", "contract_name", "report_date",
                  "open_interest_all", "producer_long", "producer_short",
                  "swap_long", "swap_short", "managed_money_long",
                  "managed_money_short", "managed_money_net"}))

SeedCryptoQuotes ==
    Seeder("market:crypto-snapshot:v1", "markets",
           "markets-crypto", Minutes(1), "once",
           In(<<>>, {"rows", "assembled_at_ms"})
             \cup In(<<"rows">>, {"id", "usd", "usd_24h_change", "usd_market_cap",
                  "last_updated_at"}))

SeedEarningsCalendar ==
    Seeder("market:earnings-calendar:7d:v1", "markets", "markets", Hours(6), "once",
           In(<<>>, {"events", "lookahead_days", "assembled_at_ms"})
             \cup In(<<"events">>, {"symbol", "company", "date", "timing",
                  "eps_estimate", "eps_actual_prior"}))

SeedEtfFlows ==
    Seeder("market:etf-flows:current:v1", "markets",
           "markets-etf-flows", Minutes(30), "once",
           In(<<>>, {"rows", "lookback_days", "assembled_at_ms"})
             \cup In(<<"rows">>, {"symbol", "latest_dollar_volume",
                  "avg_dollar_volume", "activity_ratio", "latest_session_ts"}))

SeedGoldEtfFlows ==
    Seeder("market:gold-etf-flows:current:v1", "markets",
           "markets-gold-etf-flows", Minutes(30), "once",
           In(<<>>, {"rows", "lookback_days", "assembled_at_ms"})
             \cup In(<<"rows">>, {"symbol", "latest_dollar_volume",
                  "avg_dollar_volume", "activity_ratio", "latest_session_ts"}))

SeedLiquidityShifts ==
    Seeder("market:liquidity-shifts:v1", "markets", "markets", Hours(12), "once",
           In(<<>>, {"series", "net_liquidity_billion_usd",
                  "assembled_at_ms"})
             \cup In(<<"series">>, {"series_code", "latest_value", "latest_date",
                  "prior_value", "period_delta", "period_delta_pct"}))

SeedMarketHistory ==
    Seeder("market:history:default-basket:v1", "markets", "markets", Days(1), "any",
           In(<<>>, {"symbols", "interval", "range", "assembled_at_ms"})
             \cup In(<<"symbols">>, {"symbol", "bars"})
             \cup In(<<"symbols", "bars">>, {"time_secs", "open", "high", "low",
                  "close", "volume"}))

SeedMarketQuotes ==
    Seeder("market:stocks-bootstrap:v1", "markets", "markets", Minutes(1), "once",
           In(<<>>, {"rows", "assembled_at_ms"})
             \cup In(<<"rows">>, {"symbol", "price", "previous_close",
                  "percent_change", "currency", "exchange", "regular_market_time"}))

SeedStablecoinQuotes ==
    Seeder("market:stablecoin-snapshot:v1", "markets",
           "markets-crypto", Minutes(1), "once",
           In(<<>>, {"rows", "assembled_at_ms"})
             \cup In(<<"rows">>, {"id", "symbol", "usd", "usd_24h_change",
                  "usd_market_cap", "peg_deviation_pct", "last_updated_at"}))

SeedYieldCurve ==
    Seeder("market:yield-curve:treasury:v1", "markets", "markets", Hours(6), "once",
           In(<<>>, {"points", "assembled_at_ms"})
             \cup In(<<"points">>, {"series_code", "maturity_label",
                  "maturity_months", "yield_pct", "observation_date"}))

\* Military

SeedActiveDeployments ==
    Seeder("military:active-deployments:v1", "military",
           "military-deployments", Minutes(1), "once",
           In(<<>>, {"rows", "query", "source_note", "assembled_at_ms"})
             \cup In(<<"rows">>, {"url", "title", "seen_date", "domain",
                  "source_country"}))

SeedDefensePatents ==
    Seeder("defense:patent-trends:v1", "defense", "defense", Days(7), "once",
           In(<<>>, {"rows", "total_filings_30d", "period",
                  "assembled_at_ms"})
             \cup In(<<"rows">>, {"cpc_class", "label", "filings_30d", "yoy_pct",
                  "top_filer"}))

\* Prediction

SeedExtendedForecast ==
    Seeder("forecast:extended:weekly:v1", "forecast", "forecast", Days(1), "once",
           In(<<>>, {"rows", "assembled_at_ms"})
             \cup In(<<"rows">>, {"id", "question", "probability", "horizon",
                  "delta_7d"}))

SeedForecasts ==
    Seeder("forecast:now-cast:summary:v1", "forecast",
           "prediction-forecasts", Minutes(1), "once",
           In(<<>>, {"rows", "assembled_at_ms"})
             \cup In(<<"rows">>, {"id", "title", "page_url", "resolve_time",
                  "activity", "community_median", "community_q1", "community_q3"}))

SeedPolymarket ==
    Seeder("prediction:scenario-state:current:v1", "prediction",
           "prediction-polymarket", Minutes(1), "once",
           In(<<>>, {"rows", "assembled_at_ms"})
             \cup In(<<"rows">>, {"id", "question", "slug", "outcomes",
                  "outcome_prices", "volume_24hr", "volume", "liquidity",
                  "end_date", "category"}))

SeedScenarioLibrary ==
    Seeder("prediction:scenario-library:v1", "prediction",
           "prediction", Days(1), "once",
           In(<<>>, {"rows", "assembled_at_ms"})
             \cup In(<<"rows">>, {"id", "title", "domain", "probability"}))

\* Sanctions

SeedRecentAdditions ==
    Seeder("sanctions:recent-additions:24h:v1", "sanctions",
           "sanctions", Minutes(30), "once",
           In(<<>>, {"rows", "total", "assembled_at_ms"})
             \cup In(<<"rows">>, {"authority", "entity", "entity_type",
                  "jurisdiction", "listed_on", "programme"}))

\* Technology

SeedCloudStatus ==
    Seeder("technology:cloud-status:current:v1", "technology",
           "technology-cloud", Minutes(1), "once",
           In(<<>>, {"rows", "open_incidents", "assembled_at_ms"})
             \cup In(<<"rows">>, {"provider", "id", "description", "begin", "end",
                  "severity", "service_name", "uri", "ongoing"}))

SeedComputeSpotPrices ==
    Seeder("technology:compute-spot-prices:current:v1", "technology",
           "technology-compute", Minutes(1), "once",
           In(<<>>, {"rows", "region", "assembled_at_ms"})
             \cup In(<<"rows">>, {"instance_type", "region", "memory_gib", "vcpu",
                  "ondemand_usd_hr", "spot_min_usd_hr", "spot_max_usd_hr",
                  "spot_avg_usd_hr", "spot_discount_ratio"}))

SeedGithubTrending ==
    Seeder("technology:github-trending:v1", "technology",
           "technology-github", Minutes(1), "once",
           In(<<>>, {"rows", "window", "language", "assembled_at_ms"})
             \cup In(<<"rows">>, {"repo_name", "stars", "forks", "pushes",
                  "total_score", "primary_language", "description"}))

SeedHackernewsTop ==
    Seeder("technology:hn-top-stories:v1", "technology",
           "technology-hn", Minutes(1), "once",
           In(<<>>, {"rows", "assembled_at_ms"})
             \cup In(<<"rows">>, {"id", "by", "title", "url", "score",
                  "descendants", "time_unix", "item_type"}))

SeedHuggingfaceTrending ==
    Seeder("technology:ai-models-trending:v1", "technology",
           "technology-ai", Minutes(1), "once",
           In(<<>>, {"rows", "sort_by", "assembled_at_ms"})
             \cup In(<<"rows">>, {"id", "downloads", "likes", "last_modified",
                  "pipeline_tag", "library_name"}))

SeedMemoryMarket ==
    Seeder("technology:memory-market-index:v1", "technology",
           "technology-memory", Minutes(1), "once",
           In(<<>>, {"rows", "index_percent_change", "source_note",
                  "assembled_at_ms"})
             \cup In(<<"rows">>, {"symbol", "price", "previous_close",
                  "percent_change", "currency"}))

SeedSemiconductorPpi ==
    Seeder("technology:semiconductor-ppi:monthly:v1", "technology",
           "technology-ppi", Hours(12), "all",
           In(<<>>, {"rows", "source_note", "assembled_at_ms"})
             \cup In(<<"rows">>, {"series_id", "total_count", "readings", "latest",
                  "yoy_percent_change"})
             \cup In(<<"rows", "readings">>, {"date", "value"})
             \cup In(<<"rows", "latest">>, {"date", "value"}))

\* Theaters

SeedTheaterPosture ==
    Seeder("military:theater-posture:current:v1", "military",
           "theater-posture", Minutes(1), "all",
           In(<<>>, {"theaters", "assembled_at_ms"})
             \cup In(<<"theaters">>, {"theater", "aircraft_count", "fresh"}))

\* Trade

SeedTariffAlerts ==
    Seeder("trade:tariff-alerts:current:v1", "trade", "trade", Minutes(30), "once",
           In(<<>>, {"rows", "total_rate_delta_pp", "total",
                  "assembled_at_ms"})
             \cup In(<<"rows">>, {"authority", "origin", "destination", "hs_code",
                  "product", "rate_delta_pp", "effective", "headline"}))

\* The Telegram task has a loop and an interval of its own.
SeedTelegramFeed ==
    Seeder("telegram:recent-feed:v1", "telegram", "intel-telegram", Minutes(1), "any",
           In(<<>>, {"rows", "channels", "assembled_at_ms"})
             \cup In(<<"rows">>, {"channel", "data_post", "url", "datetime", "text", "views"}))

Seeders ==
    {SeedAviationStatus, SeedGpsjam, SeedNotam, SeedAirQuality,
     SeedClimateAnomalies, SeedEarthquakes, SeedFireDetections, SeedNaturalEvents,
     SeedNoaaAlerts, SeedStationRecords, SeedAcled, SeedGdeltIntel, SeedIranEvents,
     SeedThermalAnomalies, SeedUcdpEvents, SeedUnrestEvents, SeedCveTrending,
     SeedCyberIncidentFeed, SeedBigMacIndex, SeedFaoFoodPrice, SeedFinancialStress,
     SeedGroceryBasket, SeedGulfEconomies, SeedNationalDebt, SeedFuelPrices,
     SeedGieGasStorage, SeedHormuzTransits, SeedIeaOilStocks, SeedJodi,
     SeedOilInventories, SeedRenewableMix, SeedSprPolicies, SeedInternetOutages,
     SeedSecurityAdvisories, SeedPortCongestion, SeedSupplyChainStress,
     SeedAisSnapshot, SeedChokepointStatus, SeedMaritimeIncidents,
     SeedCommodityQuotes, SeedCot, SeedCryptoQuotes, SeedEarningsCalendar,
     SeedEtfFlows, SeedGoldEtfFlows, SeedLiquidityShifts, SeedMarketHistory,
     SeedMarketQuotes, SeedStablecoinQuotes, SeedYieldCurve, SeedActiveDeployments,
     SeedDefensePatents, SeedExtendedForecast, SeedForecasts, SeedPolymarket,
     SeedScenarioLibrary, SeedRecentAdditions, SeedCloudStatus,
     SeedComputeSpotPrices, SeedGithubTrending, SeedHackernewsTop,
     SeedHuggingfaceTrending, SeedMemoryMarket, SeedSemiconductorPpi,
     SeedTheaterPosture, SeedTariffAlerts, SeedTelegramFeed}

\* The cadences. Four seeders are not in the registry and so never run; seven
\* names of the registry have no seeder and are left out.
REGISTRY ==
    SeedAviationStatus.key :> Minutes(30)
 @@ SeedGpsjam.key :> Hours(1)
 @@ SeedNotam.key :> Hours(2)
 @@ SeedAirQuality.key :> Minutes(15)
 @@ SeedClimateAnomalies.key :> Hours(1)
 @@ SeedEarthquakes.key :> Minutes(5)
 @@ SeedFireDetections.key :> Minutes(15)
 @@ SeedNaturalEvents.key :> Minutes(15)
 @@ SeedNoaaAlerts.key :> Minutes(15)
 @@ SeedStationRecords.key :> Days(1)
 @@ SeedAcled.key :> Hours(1)
 @@ SeedGdeltIntel.key :> Minutes(15)
 @@ SeedIranEvents.key :> Minutes(15)
 @@ SeedThermalAnomalies.key :> Minutes(15)
 @@ SeedUcdpEvents.key :> Hours(1)
 @@ SeedUnrestEvents.key :> Minutes(15)
 @@ SeedCveTrending.key :> Hours(1)
 @@ SeedCyberIncidentFeed.key :> Hours(1)
 @@ SeedBigMacIndex.key :> Days(7)
 @@ SeedFaoFoodPrice.key :> Days(1)
 @@ SeedFinancialStress.key :> Hours(12)
 @@ SeedGroceryBasket.key :> Days(1)
 @@ SeedGulfEconomies.key :> Days(1)
 @@ SeedNationalDebt.key :> Days(1)
 @@ SeedFuelPrices.key :> Hours(1)
 @@ SeedGieGasStorage.key :> Hours(1)
 @@ SeedHormuzTransits.key :> Hours(12)
 @@ SeedIeaOilStocks.key :> Hours(12)
 @@ SeedJodi.key :> Hours(6)
 @@ SeedOilInventories.key :> Hours(1)
 @@ SeedRenewableMix.key :> Days(1)
 @@ SeedSprPolicies.key :> Hours(6)
 @@ SeedInternetOutages.key :> Hours(1)
 @@ SeedSecurityAdvisories.key :> Hours(1)
 @@ SeedPortCongestion.key :> Minutes(5)
 @@ SeedSupplyChainStress.key :> Minutes(15)
 @@ SeedAisSnapshot.key :> Minutes(5)
 @@ SeedChokepointStatus.key :> Minutes(5)
 @@ SeedMaritimeIncidents.key :> Minutes(15)
 @@ SeedCommodityQuotes.key :> Minutes(5)
 @@ SeedCot.key :> Days(1)
 @@ SeedCryptoQuotes.key :> Minutes(5)
 @@ SeedEtfFlows.key :> Hours(1)
 @@ SeedGoldEtfFlows.key :> Hours(1)
 @@ SeedMarketHistory.key :> Days(1)
 @@ SeedMarketQuotes.key :> Minutes(5)
 @@ SeedActiveDeployments.key :> Minutes(15)
 @@ SeedDefensePatents.key :> Days(7)
 @@ SeedExtendedForecast.key :> Days(1)
 @@ SeedForecasts.key :> Minutes(15)
 @@ SeedPolymarket.key :> Minutes(15)
 @@ SeedScenarioLibrary.key :> Days(1)
 @@ SeedRecentAdditions.key :> Minutes(30)
 @@ SeedCloudStatus.key :> Minutes(15)
 @@ SeedComputeSpotPrices.key :> Hours(1)
 @@ SeedGithubTrending.key :> Hours(1)
 @@ SeedHackernewsTop.key :> Minutes(15)
 @@ SeedHuggingfaceTrending.key :> Hours(1)
 @@ SeedMemoryMarket.key :> Minutes(15)
 @@ SeedSemiconductorPpi.key :> Hours(12)
 @@ SeedTheaterPosture.key :> Minutes(5)
 @@ SeedTariffAlerts.key :> Minutes(30)
 @@ SeedTelegramFeed.key :> Minutes(1)

============================================================================
