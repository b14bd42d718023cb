----------------------------- MODULE Bootstrap -----------------------------
(***************************************************************************)
(* The cold-start hydration of the webview: one batch read of the slots of *)
(* a tier, or of the keys the request names. Rows come back as they are    *)
(* stored, fresh or stale; a slot that yields nothing is reported missing, *)
(* and when all of them are the answer is the outage 503.                  *)
(***************************************************************************)
EXTENDS ReaderCatalog

FastKeys ==
    {"aviation:breaking-incidents:v1", "aviation:active-notams:v1",
     "aviation:live-tracks:summary:v1", "aviation:airspace-restrictions:v1",
     "climate:latest-anomaly:global:v1", "climate:hot-stations-24h:v1",
     "climate:noaa-alerts:current:v1", "climate:air-quality:current:v1",
     "conflict:events-24h:v1", "conflict:hot-actors:24h:v1",
     "conflict:incident-feed:v1", "conflict:iran-events:24h:v1",
     "consumer-prices:latest-cpi:US:v1", "consumer-prices:latest-cpi:EU:v1",
     "cyber:incident-feed:24h:v1", "cyber:cve-trending:v1",
     "cyber:active-campaigns:v1", "discord:active-channels:v1",
     "displacement:camp-deltas-24h:v1", "economic:fred-latest:UNRATE:v1",
     "economic:fred-latest:CPIAUCSL:v1", "eia:petroleum-stocks:latest:v1",
     "eia:nat-gas-spot:latest:v1", "energy:fuel-prices:current:v1",
     "energy:gie-gas-storage:current:v1", "forecast:now-cast:summary:v1",
     "health:surveillance-feed:24h:v1", "health:wastewater-current:v1",
     "imagery:tile-catalog:current:v1",
     "infrastructure:grid-stress:current:v1",
     "infrastructure:pipeline-flows:current:v1",
     "intelligence:correlation-graph:summary:v1",
     "intelligence:hot-stories:v1", "maritime:ais-snapshot:summary:v1",
     "maritime:chokepoint-status:current:v1", "maritime:active-incidents:v1",
     "market:indices-snapshot:v1", "market:fx-snapshot:v1",
     "market:commodities-snapshot:v1", "market:stocks-bootstrap:v1",
     "market:crypto-snapshot:v1", "market:stablecoin-snapshot:v1",
     "military:theater-posture:current:v1", "military:active-deployments:v1",
     "natural:volcano-feed:current:v1", "natural:weather-alerts:current:v1",
     "news:breaking:v1", "news:signals:v1", "news:gaps:v1",
     "news:trending-sources:v1", "news:articles:list:v1",
     "notification-channels:active:v1", "oauth:active-sessions:summary:v1",
     "positive-events:feed:v1", "prediction:scenario-state:current:v1",
     "radiation:station-readings:current:v1", "research:arxiv-latest:v1",
     "resilience:cii-score:global:v1", "sanctions:recent-additions:24h:v1",
     "scenario:active:v1", "seismology:recent-quakes:24h:v1",
     "seismology:tsunami-alerts:current:v1", "skills:active:v1",
     "slack:channel-status:v1", "supply-chain:stress-index:current:v1",
     "supply-chain:port-congestion:current:v1", "telegram:recent-feed:v1",
     "thermal:anomaly-feed:current:v1", "trade:tariff-alerts:current:v1",
     "unrest:events-24h:v1", "v2:bootstrap:v1", "webcam:snapshots-index:v1",
     "wildfire:active-perimeters:current:v1",
     "youtube:channel-feed:current:v1", "technology:hn-top-stories:v1",
     "technology:github-trending:v1", "technology:ai-models-trending:v1",
     "technology:cloud-status:current:v1",
     "technology:compute-spot-prices:current:v1",
     "technology:memory-market-index:v1"}

SlowKeys ==
    {"aviation:flight-history:summary:v1", "aviation:airline-on-time:30d:v1",
     "aviation:notam-trend:7d:v1", "climate:station-records:monthly:v1",
     "climate:anomaly-grid:monthly:v1", "conflict:actor-history:summary:v1",
     "conflict:fatality-trend:30d:v1", "cyber:cve-catalog:weekly:v1",
     "cyber:apt-roster:v1", "data:source-catalog:v1",
     "displacement:camp-population:weekly:v1",
     "economic:indicator-series:monthly:v1",
     "economic:fred-long-series:UNRATE:v1", "economic:financial-stress:v1",
     "economic:national-debt:v1", "economic:big-mac-index:v1",
     "economic:fao-food-price-index:v1", "economic:gulf-economies:v1",
     "consumer-prices:grocery-basket:v1", "eia:petroleum-stocks:weekly:v1",
     "energy:spr-status:current:v1", "energy:iea-oil-stocks:monthly:v1",
     "energy:jodi:latest:v1", "energy:hormuz-transits:current:v1",
     "energy:renewable-mix:current:v1", "enrichment:entity-catalog:v1",
     "enrichment:gazetteer:v1", "forecast:extended:weekly:v1",
     "giving:donor-catalog:v1", "health:disease-trend:30d:v1",
     "imagery:tile-catalog:historical:v1", "infrastructure:grid-topology:v1",
     "intelligence:correlation-graph:full:v1",
     "maritime:vessel-history:summary:v1", "maritime:ais-historical:30d:v1",
     "market:analyst-summary:weekly:v1", "market:etf-flows:current:v1",
     "market:gold-etf-flows:current:v1", "market:cot-report:weekly:v1",
     "market:history:default-basket:v1", "market:earnings-calendar:7d:v1",
     "market:yield-curve:treasury:v1", "market:liquidity-shifts:v1",
     "military:deployment-history:v1", "military:basing-snapshot:v1",
     "natural:volcano-history:v1", "news:source-catalog:v1",
     "news:breaking-archive:7d:v1", "positive-events:archive:30d:v1",
     "prediction:scenario-library:v1", "radiation:station-catalog:v1",
     "research:paper-catalog:weekly:v1", "resilience:cii-history:30d:v1",
     "sanctions:entity-list:full:v1", "defense:patent-trends:v1",
     "scenario:library:v1", "seismology:fault-catalog:v1",
     "supply-chain:route-topology:v1", "telegram:channel-catalog:v1",
     "thermal:anomaly-history:30d:v1",
     "technology:semiconductor-ppi:monthly:v1", "trade:tariff-catalog:v1",
     "unrest:event-archive:30d:v1", "wildfire:perimeter-history:30d:v1",
     "youtube:channel-catalog:v1"}

TierKeys(tier) ==
    CASE tier = "fast" -> FastKeys
      [] tier = "slow" -> SlowKeys
      [] tier = "both" -> FastKeys \cup SlowKeys

\* The request that names one key. Nothing is deserialised, so nothing can be
\* missed and no figure is put in its place.
Hydrate(key) == One(Slot(key, {}, {}, {}))

\* What a request for a tier asks of each of its slots.
Hydrations(tier) == {Hydrate(key) : key \in TierKeys(tier)}

=============================================================================
