-------------------------------- MODULE Correlate --------------------------------
(***************************************************************************)
(* The correlation engine and the handler in front of it. A run groups the *)
(* signals of one domain by place, country or subject, scores the groups,  *)
(* compares them with those of the run before and makes cards of those     *)
(* that reach the threshold. Signals of a place are grouped by Proximity,  *)
(* a step at a time, under the handler's timeout.                          *)
(*                                                                         *)
(* Severities and weights are per cent. The signals of a group are a       *)
(* function of where in the request they are. Where centroids lie is left  *)
(* to a constant; a title is the set of things it says.                    *)
(***************************************************************************)
EXTENDS Proximity, Integers, SequencesExt

CONSTANTS
    Requests,         \* what is posted: [domain, rows], rows a sequence of signals
    Nowhere,          \* the place of a signal without one: near no place
    Close(_, _),      \* the centroids of two groups of places are within half the
                      \* radius
    NoKey,            \* the country of a signal that has none
    MaxRuns           \* bound: the runs of one engine

ASSUME NowhereAssumption ==
    /\ Nowhere \in Places
    /\ \A p \in Places : ~ Near(p, Nowhere) /\ ~ Near(Nowhere, p)

VARIABLES
    request,   \* what is being computed, or none
    reply,     \* the status of the last answer
    runs,      \* the runs of the engine so far
    previous,  \* domain -> the clusters of its last run, by key or root
    last       \* the last report: domain, rows, cards

engineVars == <<request, reply, runs, previous, last>>
allVars == <<engineVars, vars>>

\* Of a label: the phrases of COMPOUND_PATTERNS in it, and its words.
SignalEvidence(kind, severity, where, country, phrases, words, craft) ==
    [kind |-> kind, severity |-> severity, place |-> where, country |-> country,
     phrases |-> phrases, words |-> words, craft |-> craft]

\* Of each list, in its order, what the labels say.
CompoundPatterns == <<"oil price", "gas price">>
SingleKeys       == {"oil", "gas"}

Idle == [domain |-> "none", rows |-> <<>>]
NoReport == [domain |-> "none", rows |-> <<>>, cards |-> {}]

(***************************************************************************)
(* The adapters                                                            *)
(***************************************************************************)
MilitaryAdapter ==
    [mode |-> "geographic",
     weights |-> [military_flight |-> 40, ais_gap |-> 30, military_vessel |-> 30]]

EscalationAdapter ==
    [mode |-> "country",
     weights |-> [conflict_event |-> 45, escalation_outage |-> 25, news_severity |-> 30]]

EconomicAdapter ==
    [mode |-> "entity",
     weights |-> [market_move |-> 35, sanctions_news |-> 30, commodity_spike |-> 35]]

DisasterAdapter ==
    [mode |-> "geographic", weights |-> [earthquake |-> 55, infra_outage |-> 45]]

Adapter == [military |-> MilitaryAdapter, escalation |-> EscalationAdapter,
            economic |-> EconomicAdapter, disaster |-> DisasterAdapter]

Domains == DOMAIN Adapter
Threshold == 20

Mode(r) == Adapter[r.domain].mode

\* What can be posted as a signal.
SignalEvidences ==
    [kind : STRING, severity : Nat, place : Places, country : STRING,
     phrases : SUBSET STRING, words : Seq(STRING), craft : STRING]

ASSUME RequestsAssumption == Requests \subseteq [domain : Domains, rows : Seq(SignalEvidences)]

Kinds(signals) == {s.kind : s \in ToSet(signals)}
Craft(signals) == {s.craft : s \in {s \in ToSet(signals) : s.kind = "military_flight"}}

MilitaryTitle(signals) ==
    IF /\ Craft(signals) \cap {"fighter", "bomber", "attack"} # {}
       /\ Craft(signals) \cap {"tanker", "awacs", "surveillance", "electronic_warfare"} # {}
    THEN {"strike package"}
    ELSE Kinds(signals) \cap {"military_flight", "military_vessel"}

EscalationTitle(signals) ==
    Kinds(signals) \cap {"conflict_event", "escalation_outage", "news_severity"}

EconomicTitle(signals) ==
    LET market == Kinds(signals) \cap {"market_move", "commodity_spike"} # {}
        sanctions == "sanctions_news" \in Kinds(signals)
    IN  {t \in {"sanctions", "market"} :
            \/ t = "sanctions" /\ sanctions /\ market
            \/ t = "market" /\ market /\ ~ sanctions}

DisasterTitle(signals) == Kinds(signals) \cap {"earthquake", "infra_outage"}

Title(domain, signals) ==
    CASE domain = "military"   -> MilitaryTitle(signals)
      [] domain = "escalation" -> EscalationTitle(signals)
      [] domain = "economic"   -> EconomicTitle(signals)
      [] domain = "disaster"   -> DisasterTitle(signals)

(***************************************************************************)
(* Clusters: groups of signals under a key, or by their root.              *)
(***************************************************************************)
\* The signals with one key, those of a single signal left out.
Grouped(rows, Key(_)) ==
    LET group(k) == {n \in DOMAIN rows : Key(rows[n]) = k}
    IN  [k \in {k \in {Key(s) : s \in ToSet(rows)} \ {NoKey} : Cardinality(group(k)) > 1} |->
            [key |-> k, signals |-> [n \in group(k) |-> rows[n]]]]

ByCountry(rows) == Grouped(rows, LAMBDA s : s.country)

\* A phrase goes before a word, and what comes first before the rest.
EntityKey(s) ==
    LET phrases == SelectSeq(CompoundPatterns, LAMBDA p : p \in s.phrases)
        words   == SelectSeq(s.words, LAMBDA w : w \in SingleKeys)
    IN  IF phrases # <<>> THEN phrases[1] ELSE IF words # <<>> THEN words[1] ELSE NoKey

ByEntity(rows) == Grouped(rows, EntityKey)

\* What Proximity has put together; such a cluster is known by its centroid.
ByProximity(rows) ==
    [root \in DOMAIN Output |-> [key |-> NoKey, signals |-> [n \in Output[root] |-> rows[n]]]]

Clusters(r) ==
    CASE Mode(r) = "country"    -> ByCountry(r.rows)
      [] Mode(r) = "entity"     -> ByEntity(r.rows)
      [] Mode(r) = "geographic" -> ByProximity(r.rows)

(***************************************************************************)
(* Scores                                                                  *)
(***************************************************************************)
\* Mutant: the last signal of a kind stands for all.
Severity_Last(signals, kind) ==
    signals[Max({n \in DOMAIN signals : signals[n].kind = kind})].severity

\* The worst of a kind stands for all.
Severity(signals, kind) == Max({s.severity : s \in {s \in ToSet(signals) : s.kind = kind}})

\* The weighted worst, and 12 for every kind beyond two, 30 at most.
Score(domain, signals) ==
    LET weights   == Adapter[domain].weights
        sum       == SumFunction([k \in Kinds(signals) \cap DOMAIN weights |->
                                      weights[k] * Severity(signals, k)])
        diversity == Min({30, 12 * Max({0, Cardinality(Kinds(signals)) - 2})})
    IN  Min({100, (sum + 100 * diversity + 50) \div 100})

(***************************************************************************)
(* Trends                                                                  *)
(***************************************************************************)
PlacesOf(signals) ==
    [n \in {n \in DOMAIN signals : signals[n].place # Nowhere} |-> signals[n].place]

\* Keys are compared where there are keys, centroids where there are none.
Matches(cluster, state) ==
    IF cluster.key # NoKey THEN cluster.key = state.key
    ELSE Close(PlacesOf(cluster.signals), state.places)

\* The first that matches is what the cluster was, whichever is the closest. (Of
\* one key there is only one.)
Trend(domain, cluster) ==
    LET matched == {n \in DOMAIN previous[domain] : Matches(cluster, previous[domain][n])}
        first   == CHOOSE n \in matched : cluster.key = NoKey => \A m \in matched : n <= m
        delta   == Score(domain, cluster.signals) - previous[domain][first].score
    IN  IF matched = {} THEN "stable"
        ELSE IF delta > 5 THEN "escalating" ELSE IF delta < -5 THEN "de-escalating" ELSE "stable"

Card(domain, cluster) ==
    [key |-> cluster.key, signals |-> cluster.signals, score |-> Score(domain, cluster.signals),
     trend |-> Trend(domain, cluster), title |-> Title(domain, cluster.signals)]

State(domain, cluster) ==
    [key |-> cluster.key, places |-> PlacesOf(cluster.signals),
     score |-> Score(domain, cluster.signals)]

(***************************************************************************)
(* The handler and the engine                                              *)
(***************************************************************************)
NewEngine == [d \in Domains |-> <<>>]

AtRest == parent = [i \in Ids |-> i] /\ todo = {} /\ phase = "scan" /\ pair = <<0, 0>> /\ at = <<0, 0>>
Rest == place' = [i \in Ids |-> Nowhere] /\ parent' = [i \in Ids |-> i] /\ todo' = {}
        /\ phase' = "scan" /\ pair' = <<0, 0>> /\ at' = <<0, 0>>

EngineInit ==
    /\ request = Idle /\ reply = 0 /\ runs = 0 /\ previous = NewEngine /\ last = NoReport
    /\ place = [i \in Ids |-> Nowhere] /\ AtRest

\* No signal at all, or more than the cap.
Refuse(r) ==
    /\ Len(r.rows) \notin 1 .. N
    /\ reply' = IF r.rows = <<>> THEN 400 ELSE 413
    /\ UNCHANGED <<request, runs, previous, last, vars>>

\* The signals are spread on the grid, if the domain is one of places.
Accept(r) ==
    LET put == [i \in Ids |-> IF i <= Len(r.rows) /\ Mode(r) = "geographic"
                              THEN r.rows[i].place ELSE Nowhere]
    IN  /\ runs < MaxRuns /\ Len(r.rows) \in 1 .. N
        /\ request' = r /\ runs' = runs + 1
        /\ place' = put
        /\ todo' = {p \in Ids \X Ids : p[1] < p[2] /\ Nowhere \notin {put[p[1]], put[p[2]]}
                                       /\ Touch(put[p[1]], put[p[2]])}
        /\ UNCHANGED <<reply, previous, last, parent, phase, pair, at>>

Cluster ==
    /\ request # Idle
    /\ Compare \/ FindFirst \/ FindSecond \/ Join
    /\ UNCHANGED engineVars

\* What the run has found becomes cards, and what the next run compares with.
\* (What stays below the threshold is not remembered either.)
Report ==
    LET found   == Clusters(request)
        reached == {n \in DOMAIN found : Score(request.domain, found[n].signals) >= Threshold}
    IN  /\ request # Idle /\ Finished
        /\ reply' = 200 /\ request' = Idle
        /\ previous' = [previous EXCEPT ![request.domain] =
                            [n \in reached |-> State(request.domain, found[n])]]
        /\ last' = [domain |-> request.domain, rows |-> request.rows,
                    cards |-> {Card(request.domain, found[n]) : n \in reached}]
        /\ UNCHANGED runs /\ Rest

\* The handler waits for thirty seconds. The engine is the computation's own and
\* goes with it.
TimeOut ==
    /\ request # Idle
    /\ reply' = 504 /\ request' = Idle /\ runs' = 0
    /\ previous' = NewEngine /\ last' = NoReport
    /\ Rest

\* The handler makes an engine for every request; others can keep or reset one.
Renew ==
    /\ request = Idle /\ runs > 0
    /\ runs' = 0 /\ previous' = NewEngine /\ last' = NoReport
    /\ UNCHANGED <<request, reply, vars>>

EngineNext ==
    \/ request = Idle /\ \E r \in Requests : Refuse(r) \/ Accept(r)
    \/ Cluster \/ Report \/ TimeOut \/ Renew

EngineSpec == EngineInit /\ [][EngineNext]_allVars

(***************************************************************************)
(* The property                                                            *)
(***************************************************************************)
\* More evidence never weakens a finding: when a run sees all that the run before
\* saw, no two of those alike, every card is found again in a card that holds all
\* its signals and scores no less, in whatever order the signals came and the
\* pairs were joined; and where clusters have a key, none is called de-escalating.
\* (Two alike make a cluster, and are one of the signals of the next run if it has
\* that one once.)
MoreIsNeverLess ==
    [][ /\ request # Idle /\ reply' = 200 /\ request' = Idle
        /\ last.domain = request.domain
        /\ ToSet(last.rows) \subseteq ToSet(request.rows) /\ IsInjective(last.rows)
        => \A c \in last.cards : \E d \in last'.cards :
             /\ ToSet(c.signals) \subseteq ToSet(d.signals)
             /\ d.score >= c.score
             /\ c.key # NoKey => d.key = c.key /\ d.trend # "de-escalating" ]_allVars

=============================================================================
