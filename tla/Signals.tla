------------------------------- MODULE Signals -------------------------------
(***************************************************************************)
(* The signals the news, the prediction markets and the prices give        *)
(* together: every tick the feed is clustered into events, the detectors   *)
(* look at events, prices and what the tick before left, and what they     *)
(* find and have not found before is announced, one signal of a type.      *)
(*                                                                         *)
(* A title is a set of words. Prices are whole points, changes tenths of a *)
(* percent, times half hours. A sum of confidence terms is given by the    *)
(* only thing that counts, whether it reaches 0.6.                         *)
(***************************************************************************)
EXTENDS Integers, Sequences, FiniteSets, FiniteSetsExt, SequencesExt

CONSTANTS
    Items,        \* news items
    Feeds,        \* the feeds a tick can see, sequences of items
    Predictions,  \* sequence of prediction markets
    Prices,       \* what their prices are, functions of the position
    Markets,      \* sequence of quoted symbols
    Changes,      \* how they have moved, functions of the position
    NewsVelocity, \* NEWS_VELOCITY_THRESHOLD, 3 in the code
    Window,       \* TOPIC_BASELINE_WINDOW_MS, a week in the code
    MaxPoints,    \* TOPIC_HISTORY_MAX_POINTS, 1000 in the code
    MaxNow,       \* bound: the last moment of a tick
    MaxTicks      \* bound: how many ticks there are

ASSUME FeedsAssumption == (\A feed \in Feeds : feed \in Seq(Items)) /\ \A i \in Items : i.at \in Nat
ASSUME PricesAssumption ==
    /\ Predictions \in Seq([key : STRING, topics : SUBSET STRING])
    /\ Prices \subseteq [DOMAIN Predictions -> Int]
ASSUME ThresholdsAssumption == {NewsVelocity, Window, MaxPoints, MaxNow, MaxTicks} \subseteq Nat \ {0}

VARIABLES
    now,       \* the moment of the last tick
    world,     \* which tick it was and what it saw: feed, prices, changes, events
    history,   \* topic -> its activity at the ticks before
    seen,      \* the keys of the signals found so far, never forgotten
    out,       \* the signals announced by the last tick
    told       \* what was announced at any time, with the items it was about

signalsVars == <<now, world, history, seen, out, told>>

(***************************************************************************)
(* What is looked at, and of each list of words those the titles use.      *)
(***************************************************************************)
\* Of a link only what tells two items of one moment apart.
Item(title, source, tier, at, slug) ==
    [title |-> title, source |-> source, tier |-> tier, at |-> at, slug |-> slug]

\* The key is what the dedupe key keeps of the title, its first fifty characters.
Prediction(key, topics) == [key |-> key, topics |-> topics]

\* A symbol is given as the word it is in a title.
Market(symbol, topics, energy) == [symbol |-> symbol, topics |-> topics, energy |-> energy]

StopWords       == {"the"}
TopicWords      == {"iran", "oil", "ai"}
SuppressedWords == {"ai"}
PipelineWords   == {"pipeline"}
FlowDropWords   == {"leak", "halt"}

\* Publishers are named for their type.
SourceType(source) == IF source = "blog" THEN "other" ELSE source

(***************************************************************************)
(* Clustering                                                              *)
(***************************************************************************)
Tokens(i) == i.title \ StopWords

\* At least one half of the words of the two are common.
Similar(i, j) ==
    LET common == Tokens(i) \cap Tokens(j)
    IN  common # {} /\ 2 * Cardinality(common) >= Cardinality(Tokens(i) \cup Tokens(j))

\* Each position of the feed joins the first leader it resembles, or leads.
\* Mutant: it joins any it resembles, leader or not.
Leader_Chained(feed) ==
    LET lead[n \in DOMAIN feed] ==
            LET like == {m \in 1 .. n - 1 : Similar(feed[m], feed[n])}
            IN  IF like = {} THEN n ELSE lead[Min(like)]
    IN  lead

Leader(feed) ==
    LET lead[n \in DOMAIN feed] ==
            LET like == {m \in 1 .. n - 1 : lead[m] = m /\ Similar(feed[m], feed[n])}
            IN  IF like = {} THEN n ELSE Min(like)
    IN  lead

\* The first of a set of positions in an order, the feed's own where it leaves
\* two equal.
FirstBy(before(_, _), positions) ==
    CHOOSE n \in positions : \A m \in positions \ {n} :
        before(n, m) \/ (~ before(m, n) /\ n < m)

\* Mutant: the event is named for its primary item.
BuildCluster_PrimaryId(feed, members) ==
    LET better(n, m)  == \/ feed[n].tier < feed[m].tier
                         \/ feed[n].tier = feed[m].tier /\ feed[n].at > feed[m].at
        primary  == feed[FirstBy(better, members)]
    IN  [id    |-> <<primary.at, primary.slug>>,
         title |-> primary.title,
         items |-> {feed[n] : n \in members},
         count |-> Cardinality(members),
         updated |-> Max({feed[n].at : n \in members})]

\* An event is named for its earliest item and titled by the newest of the
\* best tier.
BuildCluster(feed, members) ==
    LET better(n, m)  == \/ feed[n].tier < feed[m].tier
                         \/ feed[n].tier = feed[m].tier /\ feed[n].at > feed[m].at
        earlier(n, m) == feed[n].at < feed[m].at
        primary  == feed[FirstBy(better, members)]
        earliest == feed[FirstBy(earlier, members)]
    IN  [id    |-> <<earliest.at, earliest.slug>>,
         title |-> primary.title,
         items |-> {feed[n] : n \in members},
         count |-> Cardinality(members),
         updated |-> Max({feed[n].at : n \in members})]

\* The events of a feed. Each is known by where its first item is.
ClusterNews(feed) ==
    LET lead == Leader(feed)
    IN  [l \in {n \in DOMAIN feed : lead[n] = n} |->
            BuildCluster(feed, {n \in DOMAIN feed : lead[n] = l})]

(***************************************************************************)
(* Topics                                                                  *)
(***************************************************************************)
\* How much the news is about each topic. (cluster_news_core leaves velocity
\* out, so an event counts for its items.)
ExtractTopics(events) ==
    [t \in TopicWords \ SuppressedWords |->
        SumFunction([l \in {l \in DOMAIN events : t \in events[l].title} |-> events[l].count])]

Activity(topics, some) == SumFunction([t \in some \cap DOMAIN topics |-> topics[t]])

\* The points of the last week.
Pruned(points, moment) == {p \in points : moment - p.at <= Window}

\* The last MaxPoints of them.
Latest(points) == {p \in points : Cardinality({q \in points : q.at > p.at}) < MaxPoints}

\* Every topic ever mentioned gets a point.
Remember(topics, moment) ==
    [t \in DOMAIN topics |->
        IF history[t] = {} /\ topics[t] = 0 THEN {}
        ELSE Latest(Pruned(history[t], moment) \cup {[at |-> moment, velocity |-> topics[t]]})]

(***************************************************************************)
(* The detectors: what each finds, by where the cause of it is.            *)
(***************************************************************************)
\* A signal: its dedupe key, whether its confidence reaches 0.6, the items.
Signal(type, who, value, sure, items) ==
    [key |-> <<type, who, value>>, sure |-> sure, items |-> items]

\* A signal about a market or a topic. The key of a market's has no value.
Plain(type, who, value, sure) == Signal(type, who, value, sure, {})

Where(causes, Test(_), Make(_)) ==
    [k \in {k \in DOMAIN causes : Test(causes[k])} |-> Make(causes[k])]

Abs(n) == IF n < 0 THEN -n ELSE n

FlowDrops(events) ==
    LET words(e) == e.title \cup UNION {i.title : i \in e.items}
    IN  Where(events,
              LAMBDA e : words(e) \cap PipelineWords # {} /\ words(e) \cap FlowDropWords # {},
              LAMBDA e : Signal("flow_drop", e.id, e.count, e.count >= 2, e.items))

\* Three items within the hour, of three types besides "other".
Convergences(events, moment) ==
    LET types(e) == {SourceType(i.source) : i \in {i \in e.items : moment - i.at < 2}}
        recent(e) == Cardinality({i \in e.items : moment - i.at < 2})
    IN  Where(events,
              LAMBDA e : recent(e) >= 3 /\ Cardinality(types(e) \ {"other"}) >= 3,
              LAMBDA e : Signal("convergence", e.id, Cardinality(types(e)), TRUE, e.items))

Triangulations(events) ==
    Where(events,
          LAMBDA e : /\ e.count >= 3
                     /\ {"wire", "gov", "intel"} \subseteq {SourceType(i.source) : i \in e.items},
          LAMBDA e : Signal("triangulation", e.id, 3, TRUE, e.items))

\* The price a tick remembers under a key is the last of its markets'.
Remembered(prices, key) == prices[Max({n \in DOMAIN Predictions : Predictions[n].key = key})]

Shifts(prices, topics) ==
    LET shift(n) == Abs(prices[n] - Remembered(world.prices, Predictions[n].key))
    IN  Where([n \in DOMAIN Predictions |-> n],
              LAMBDA n : shift(n) >= 5 /\ Activity(topics, Predictions[n].topics) < NewsVelocity,
              LAMBDA n : Plain("prediction_leads_news", Predictions[n].key, shift(n), TRUE))

\* More than twice the threshold, and more than three times the topic's average
\* where it has one. (A topic seen for the first time has none.)
Spikes(topics, moment) ==
    {Plain("velocity_spike", t, topics[t], TRUE) : t \in {t \in DOMAIN topics :
        LET points == Pruned(history[t], moment)
            total  == SumFunction([p \in points |-> p.velocity])
        IN  /\ topics[t] > 2 * NewsVelocity
            /\ total > 0 => topics[t] * Cardinality(points) > 3 * total}}

\* The keywords of an event's context, which the caller passes along with the
\* events: the words of its titles.
Keywords(e) == UNION {i.title : i \in e.items}

\* The events with the market's own symbol for a keyword.
Related(events, m) == {k \in DOMAIN events : m.symbol \in Keywords(events[k])}

Explained(events, changes) ==
    Where([n \in DOMAIN Markets |-> n],
          LAMBDA n : Abs(changes[n]) >= 20 /\ Related(events, Markets[n]) # {},
          LAMBDA n : Plain("explained_market_move", Markets[n].symbol, "any", TRUE))

Silent(events, topics, changes) ==
    Where([n \in DOMAIN Markets |-> n],
          LAMBDA n : /\ Abs(changes[n]) >= 20 /\ Related(events, Markets[n]) = {}
                     /\ Activity(topics, Markets[n].topics) < 2,
          LAMBDA n : Plain("silent_divergence", Markets[n].symbol, "any", TRUE))

\* A rise of an energy price that nothing new about pipelines explains.
Divergences(topics, changes, flowNews) ==
    Where([n \in DOMAIN Markets |-> n],
          LAMBDA n : /\ Markets[n].energy /\ changes[n] >= 15 /\ flowNews = {}
                     /\ Activity(topics, Markets[n].topics) < 2,
          LAMBDA n : Plain("flow_price_divergence", Markets[n].symbol, "any", changes[n] >= 16))

(***************************************************************************)
(* The tick                                                                *)
(***************************************************************************)
Keys(signals) == {signals[k].key : k \in DOMAIN signals}

\* The last updated, then the first, of those not found before, if it is sure.
\* (The first of a type hides the others, and is then left out when it is not
\* sure.)
Chosen(signals, updated) ==
    LET fresh == {k \in DOMAIN signals : signals[k].key \notin seen}
        first == {k \in fresh : \A m \in fresh \ {k} :
                     updated[k] > updated[m] \/ (updated[k] = updated[m] /\ k < m)}
    IN  {signals[k] : k \in {k \in first : signals[k].sure}}

\* What is announced of stories and of what is listed.
Announced(events, stories, listed) ==
    (UNION {Chosen(f, [l \in DOMAIN events |-> events[l].updated]) : f \in stories})
    \cup (UNION {Chosen(f, [k \in DOMAIN f |-> now]) : f \in listed})

\* Mutant: only what is announced is marked as found.
Conclude_MarksChosen(events, stories, listed, spikes) ==
    \E chosen \in IF spikes = {} THEN {{}} ELSE {{s} : s \in spikes} :
        /\ out' = chosen \cup Announced(events, stories, listed)
        /\ seen' = seen \cup {s.key : s \in out'}
        /\ told' = told \cup out'

\* The detectors' finds are marked, and one of each type announced. The spikes
\* come in any order.
Conclude(events, stories, listed, spikes) ==
    \E chosen \in IF spikes = {} THEN {{}} ELSE {{s} : s \in spikes} :
        /\ out' = chosen \cup Announced(events, stories, listed)
        /\ seen' = seen \cup {s.key : s \in spikes} \cup UNION {Keys(f) : f \in stories \cup listed}
        /\ told' = told \cup out'

NoWorld == [nth |-> 0, feed |-> <<>>, prices |-> <<>>, changes |-> <<>>, events |-> <<>>]

SignalsInit ==
    /\ now = 0 /\ world = NoWorld
    /\ history = [t \in TopicWords \ SuppressedWords |-> {}]
    /\ seen = {} /\ out = {} /\ told = {}

\* What every tick does: it looks at the world and keeps a snapshot of it.
Snapshot(moment, feed, prices, changes, events) ==
    /\ now' = moment
    /\ world' = [nth |-> world.nth + 1, feed |-> feed, prices |-> prices,
                 changes |-> changes, events |-> events]
    /\ history' = Remember(ExtractTopics(events), moment)

\* There is nothing to compare with: nothing is announced. What the pipeline
\* detector has found is marked nevertheless.
ColdStart(moment, feed, prices, changes) ==
    LET events == ClusterNews(feed)
    IN  /\ world.nth = 0
        /\ Snapshot(moment, feed, prices, changes, events)
        /\ seen' = seen \cup Keys(FlowDrops(events))
        /\ UNCHANGED <<out, told>>

Tick(moment, feed, prices, changes) ==
    LET events == ClusterNews(feed)
        topics == ExtractTopics(events)
        drops  == FlowDrops(events)
        spikes == {s \in Spikes(topics, moment) : s.key \notin seen}
    IN  /\ world.nth \in 1 .. MaxTicks - 1
        /\ Snapshot(moment, feed, prices, changes, events)
        /\ Conclude(events,
                    {Convergences(events, moment), Triangulations(events), drops},
                    {Shifts(prices, topics), Explained(events, changes),
                     Silent(events, topics, changes),
                     Divergences(topics, changes, Keys(drops) \ seen)}, spikes)

\* A feed shows what has been published.
Published(feed, moment) == \A n \in DOMAIN feed : feed[n].at <= moment

SignalsNext ==
    \E moment \in now + 1 .. MaxNow : \E feed \in Feeds, prices \in Prices, changes \in Changes :
        /\ Published(feed, moment)
        /\ ColdStart(moment, feed, prices, changes) \/ Tick(moment, feed, prices, changes)

SignalsSpec == SignalsInit /\ [][SignalsNext]_signalsVars

(***************************************************************************)
(* The properties                                                          *)
(***************************************************************************)
\* The events of a tick share out its feed, each item in one whose first item
\* it resembles; what has been announced has been marked.
EventsShareFeed ==
    /\ UNION {world.events[l].items : l \in DOMAIN world.events} = ToSet(world.feed)
    /\ SumFunction([l \in DOMAIN world.events |-> world.events[l].count]) = Len(world.feed)
    /\ \A l \in DOMAIN world.events :
           \A i \in world.events[l].items \ {world.feed[l]} : Similar(world.feed[l], i)
    /\ {s.key : s \in told} \subseteq seen

\* Nothing has left the hour of a convergence or the week of a baseline.
NothingAged ==
    /\ \A i \in ToSet(world.feed) : now - i.at < 2 <=> now' - i.at < 2
    /\ \A t \in DOMAIN history : history'[t] = {} \/ Cardinality(history'[t]) > Cardinality(history[t])

Shared(key) == Cardinality({n \in DOMAIN Predictions : Predictions[n].key = key}) > 1

\* An unchanged world is not news: a tick that sees what the tick before saw
\* announces nothing. There are two exceptions: the pipeline story that explained
\* an energy price has been marked and counts as no news now, and the price of a
\* market is compared with that of another whose title begins with the same fifty
\* characters.
QuietWhenUnchanged ==
    [][ /\ world'.feed = world.feed /\ world'.prices = world.prices
        /\ world'.changes = world.changes /\ world.nth > 1 /\ NothingAged
        => \A s \in out' :
             \/ s.key[1] = "flow_price_divergence"
             \/ s.key[1] = "prediction_leads_news" /\ Shared(s.key[2]) ]_signalsVars

\* A story told as triangulated is told again, however it grows and in whatever
\* order the feed brings it, only if an item turns up that is as old as what the
\* story began with, or if two items began it at one moment.
ToldOnce ==
    [][ \A s \in out', t \in told :
            /\ s.key[1] = "triangulation" /\ t.key[1] = "triangulation"
            /\ t.items \subseteq s.items
            => LET began == Min({i.at : i \in t.items})
               IN  \/ \E i \in s.items \ t.items : i.at <= began
                   \/ Cardinality({i \in t.items : i.at = began}) > 1 ]_signalsVars

=============================================================================
