------------------------------ MODULE MCCorrelate ------------------------------
(* Pools of four signals in each domain, posted in any selection and, where   *)
(* nothing is spread on a map, in any order. The map is a small one: a unit of *)
(* latitude is half the radius, and so is a unit of longitude up to latitude 4.*)
(* North of it a radius is three units of longitude, and so is a cell.         *)
EXTENDS Correlate

At(lat, lon) == [lat |-> lat, lon |-> lon]

MCNowhere == At(-90, 0)
MCPlaces == {At(0, 0), At(1, 1), At(2, 2), At(2, 4), At(3, 12), At(4, 12), MCNowhere}

MCBreadth(p) == IF p.lat < 4 THEN 2 ELSE 3
MCRow(p) == p.lat \div 2
MCCol(p) == p.lon \div MCBreadth(p)

Sq(n) == n * n

\* Both legs of the distance, in the units of the narrower of the two.
MCNear(p, q) ==
    LET b == IF MCBreadth(p) < MCBreadth(q) THEN MCBreadth(p) ELSE MCBreadth(q)
    IN  MCNowhere \notin {p, q} /\ Sq(b * (p.lat - q.lat)) + Sq(2 * (p.lon - q.lon)) <= Sq(2 * b)

\* Half a radius is one unit.
MCClose(S, T) ==
    LET total(f, leg(_)) == SumFunction([n \in DOMAIN f |-> leg(f[n])])
        size(f) == Cardinality(DOMAIN f)
        apart(leg(_)) == size(T) * total(S, leg) - size(S) * total(T, leg)
    IN  Sq(apart(LAMBDA p : p.lat)) + Sq(apart(LAMBDA p : p.lon)) <= Sq(size(S) * size(T))

Seen(kind, severity, where, craft) == SignalEvidence(kind, severity, where, "none", {}, <<>>, craft)
Told(kind, severity, country) == SignalEvidence(kind, severity, MCNowhere, country, {}, <<>>, "none")
Quoted(kind, severity, phrases, words) ==
    SignalEvidence(kind, severity, MCNowhere, "none", phrases, words, "none")

Military == <<Seen("military_flight", 80, At(0, 0), "fighter"),
              Seen("military_flight", 60, At(1, 1), "tanker"),
              Seen("military_vessel", 50, At(2, 2), "none"),
              Seen("ais_gap", 40, At(2, 4), "none")>>
Disaster == <<Seen("earthquake", 70, At(3, 12), "none"), Seen("infra_outage", 60, At(4, 12), "none"),
              Seen("earthquake", 30, At(3, 12), "none"), Seen("infra_outage", 90, MCNowhere, "none")>>
Escalation == {Told("conflict_event", 60, "IR"), Told("news_severity", 20, "IR"),
               Told("escalation_outage", 30, "IR"), Told("conflict_event", 10, "IR")}
Economic == {Quoted("market_move", 40, {"oil price"}, <<"gas", "rally">>),
             Quoted("sanctions_news", 50, {}, <<"new", "gas">>),
             Quoted("commodity_spike", 30, {}, <<"gas", "oil">>),
             Quoted("market_move", 70, {"gas price", "oil price"}, <<>>)}
Unknown == <<Told("strike", 0, "FR"), Told("rumour", 0, "FR"), Told("protest", 0, "FR"),
             Told("flood", 0, "FR")>>

Post(domain, rows) == [domain |-> domain, rows |-> rows]

Selections(pool) ==
    {SelectSeq(pool, LAMBDA s : s \in S) : S \in SUBSET ToSet(pool)}

MCRequests ==
    {Post("military", rows) : rows \in Selections(Military)}
    \cup {Post("disaster", rows) : rows \in Selections(Disaster)}
    \cup {Post("escalation", rows) : rows \in SetToAllKPermutations(Escalation)}
    \cup {Post("economic", rows) : rows \in SetToAllKPermutations(Economic)}
    \cup {Post("escalation", Unknown), Post("military", Military \o Disaster)}
=============================================================================
