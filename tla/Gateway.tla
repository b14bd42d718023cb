------------------------------- MODULE Gateway -------------------------------
(***************************************************************************)
(* A request on its way through the gateway's stages, with the two caches  *)
(* the answers to "who is this" and "what may they see" come from: Clerk's *)
(* signing keys, held in memory, and the caller's entitlement, held in     *)
(* SQLite and fetched from Convex.                                         *)
(*                                                                         *)
(* Behind the stages a handler answers: one of those that ask a model      *)
(* (Inference) or any other.                                               *)
(*                                                                         *)
(* The stages are composed as the crates describe it (builder, verifier    *)
(* and checker plugged in). One account signs in; rows of other accounts   *)
(* are independent. No API key is known: the only store there is answers   *)
(* Unknown. A deadline is kept as the ticks left to it, an instant as the  *)
(* ticks since.                                                            *)
(***************************************************************************)
EXTENDS Integers, FiniteSets, Inference

CONSTANTS
    Requests,       \* requests in flight together
    Keys,           \* kids of Clerk's signing keys
    Plans,          \* ranks the account's plan may have
    Tiers,          \* ranks routes require; 0 is Anonymous
    JwksTtl,        \* JwksCache::ttl
    PlanTtl,        \* snapshot_ttl, where Convex states no validity
    StatedTtls,     \* validities Convex may state
    Flight          \* the HTTP client's timeout

\* What a request presents: a bearer token under some kid, one that cannot be
\* read, an API key, nothing.
Callers == Keys \cup {"malformed", "api_key", "none"}

ASSUME GatewayAssumption ==
    /\ Plans \subseteq 0 .. 3 /\ Tiers \subseteq 0 .. 3
    /\ {JwksTtl, PlanTtl, Flight} \subseteq Nat \ {0}
    /\ StatedTtls \subseteq Nat

\* No validity is endless.
ASSUME ValidityAssumption ==
    \E t \in StatedTtls \cup {PlanTtl} : \A u \in StatedTtls \cup {PlanTtl} : u <= t

Longest == CHOOSE t \in StatedTtls \cup {PlanTtl} : \A u \in StatedTtls \cup {PlanTtl} : u <= t

\* Ages beyond which no property looks.
KeyAges  == 0 .. JwksTtl + Flight
PlanAges == 0 .. Longest + Flight

VARIABLES
    published,   \* the kids in Clerk's JWKS document
    retired,     \* kid -> ticks since it was last in the document
    plan,        \* the rank Convex holds for the account
    lapsed,      \* rank -> ticks since the plan last had it
    jwks,        \* JwksCache: the document and its age; stale while empty
    row,         \* entitlements_cache: rank and ticks left, none left while empty
    req,         \* the requests
    sent         \* the answer just given, NoReply after any other step

upstreams == <<published, retired, plan, lapsed>>
vars == <<upstreams, jwks, row, req, sent>>

NoRow   == [rank |-> CHOOSE p \in Plans : TRUE, left |-> -Flight]

NoReply == [to |-> {}, code |-> "none", truth |-> "none"]

\* Where a request is; at the awaits among them time goes by for it.
Awaits == {"keys_asked", "keys_back", "row", "plan_asked", "plan_back"}

(***************************************************************************)
(* The stages before authentication                                        *)
(***************************************************************************)
Enter(caller, tier) ==
    [at |-> "clerk", caller |-> caller, tier |-> tier,
     wait |-> 0, forced |-> FALSE, doc |-> {}, snap |-> NoRow,
     known |-> caller \in published]

Done    == [Enter("none", 0) EXCEPT !.at = "done"]
Allowed == [Enter("none", 0) EXCEPT !.at = "allowed"]

Move(r, state) ==
    /\ req' = [req EXCEPT ![r] = state]
    /\ sent' = NoReply

Send(r, code, truth) ==
    /\ req' = [req EXCEPT ![r] = Done]
    /\ sent' = [to |-> {r}, code |-> code, truth |-> truth]

Reply(r, code) == Send(r, code, "none")

\* Origin allow-list, then OPTIONS, then the tier of the route.
Arrive(r) ==
    /\ req[r].at = "done"
    /\ \E caller \in Callers, tier \in Tiers : 
         Move(r, IF tier = 0 THEN Allowed ELSE Enter(caller, tier))
    /\ UNCHANGED <<upstreams, jwks, row>>

TurnedAway(r) ==
    /\ req[r].at = "done"
    /\ \E code \in {"origin_forbidden", "no_content"} : Reply(r, code)
    /\ UNCHANGED <<upstreams, jwks, row>>

(***************************************************************************)
(* Stages 5 and 6: who is this                                             *)
(***************************************************************************)
NoToken(r) ==
    /\ req[r].at = "clerk" /\ req[r].caller \notin Keys
    /\ Reply(r, IF req[r].caller = "api_key" THEN "api_key_unauthorized" ELSE "clerk_unauthorized")
    /\ UNCHANGED <<upstreams, jwks, row>>

\* Mutant: staleness is not looked at.
KeysFresh_Always == jwks.doc # {}

KeysFresh == jwks.age < JwksTtl

\* The key was found: signature, expiry and issuer hold or do not. The
\* entitlement stage reads the clock as it begins.
Judge(r) ==
    \/ Move(r, [Enter("none", req[r].tier) EXCEPT !.at = "row"])
    \/ Reply(r, "clerk_unauthorized")

AskKeys(r, forced) ==
    Move(r, [req[r] EXCEPT !.at = "keys_asked", !.wait = 0, !.forced = forced])

\* Mutant: a kid the cached document lacks is refused without another fetch.
LookUp_NoRefresh(r) ==
    /\ req[r].at = "clerk" /\ req[r].caller \in Keys
    /\ IF ~ KeysFresh THEN AskKeys(r, FALSE)
       ELSE IF req[r].caller \in jwks.doc THEN Judge(r)
       ELSE Reply(r, "clerk_unauthorized")
    /\ UNCHANGED <<upstreams, jwks, row>>

\* get_or_refresh: the cached document while it is fresh, else a fetch, with
\* no lock held over it; a kid the document lacks forces one fetch.
LookUp(r) ==
    /\ req[r].at = "clerk" /\ req[r].caller \in Keys
    /\ IF ~ KeysFresh THEN AskKeys(r, FALSE)
       ELSE IF req[r].caller \in jwks.doc THEN Judge(r)
       ELSE AskKeys(r, TRUE)
    /\ UNCHANGED <<upstreams, jwks, row>>

ServeKeys(r) ==
    /\ req[r].at = "keys_asked"
    /\ Move(r, [req[r] EXCEPT !.at = "keys_back", !.doc = published])
    /\ UNCHANGED <<upstreams, jwks, row>>

\* The fetch is stamped when its answer is stored. Requests that fetched
\* together store in any order.
StoreKeys(r) ==
    /\ req[r].at = "keys_back"
    /\ jwks' = [doc |-> req[r].doc, age |-> 0]
    /\ IF req[r].caller \in req[r].doc THEN Judge(r)
       ELSE IF req[r].forced THEN Reply(r, "clerk_unauthorized")
       ELSE AskKeys(r, TRUE)
    /\ UNCHANGED <<upstreams, row>>

\* Every failure of the fetch, the timeout included, is a 401.
KeysFail(r) ==
    /\ req[r].at \in {"keys_asked", "keys_back"}
    /\ Reply(r, "clerk_unauthorized")
    /\ UNCHANGED <<upstreams, jwks, row>>

(***************************************************************************)
(* Stage 7: what may they see                                              *)
(***************************************************************************)
Decide(r, rank) ==
    IF rank >= req[r].tier
    THEN Move(r, Allowed)
    ELSE Reply(r, "entitlement_forbidden")

\* Mutant: a row counts whatever its age.
Fresh_Always(snapshot, wait) == snapshot # NoRow

\* The row was still valid when the clock was read.
Fresh(snapshot, wait) == snapshot.left + wait > 0

AskPlan(r) == Move(r, [req[r] EXCEPT !.at = "plan_asked", !.wait = 0])

\* A row that is missing, stale or unreadable sends the request to Convex.
ReadRow(r) ==
    /\ req[r].at = "row"
    /\ \/ Fresh(row, req[r].wait) /\ Decide(r, row.rank)
       \/ AskPlan(r)
    /\ UNCHANGED <<upstreams, jwks, row>>

\* Convex states the snapshot's end or leaves it to be counted from the clock
\* read before the request was sent.
ServePlan(r) ==
    /\ req[r].at = "plan_asked"
    /\ \E left \in StatedTtls \cup {PlanTtl - req[r].wait} :
         Move(r, [req[r] EXCEPT !.at = "plan_back", !.snap = [rank |-> plan, left |-> left]])
    /\ UNCHANGED <<upstreams, jwks, row>>

\* The row is replaced, or the write fails and is passed over.
StorePlan(r) ==
    /\ req[r].at = "plan_back"
    /\ row' \in {row, req[r].snap}
    /\ Decide(r, req[r].snap.rank)
    /\ UNCHANGED <<upstreams, jwks>>

PlanFails(r) ==
    /\ req[r].at \in {"plan_asked", "plan_back"}
    /\ Reply(r, "entitlement_upstream_down")
    /\ UNCHANGED <<upstreams, jwks, row>>

(***************************************************************************)
(* The stages behind it                                                    *)
(***************************************************************************)
\* Rate limits; a limiter that fails lets the request through.
Limit(r) ==
    /\ req[r].at = "allowed"
    /\ \/ Reply(r, "rate_limited")
       \/ Move(r, [req[r] EXCEPT !.at = "handler"])
    /\ UNCHANGED <<upstreams, jwks, row>>

\* Mutant: the handlers' names are not known here.
Boundary_Unnamed(status, named) ==
    IF status \in ServerErrors THEN "handler_error" ELSE status

\* A 5xx that bears no name becomes a handler_error.
Boundary(status, named) ==
    IF status \in ServerErrors /\ ~ named THEN "handler_error" ELSE status

\* A body the client has already is not sent again.
Tagged(status) == IF status = "ok" THEN {"ok", "not_modified"} ELSE {status}

\* What a handler that asks a model answers.
ModelAnswers ==
    {[code |-> Boundary(Respond(call), Named(Respond(call))), truth |-> Truth(call)] : call \in Calls}

\* The handler answers, and the inner stages dress the answer.
Handle(r) ==
    /\ req[r].at = "handler"
    /\ \/ Reply(r, "answered")
       \/ \E answer \in ModelAnswers : \E code \in Tagged(answer.code) :
             Send(r, code, answer.truth)
    /\ UNCHANGED <<upstreams, jwks, row>>

(***************************************************************************)
(* Clerk, Convex and time                                                  *)
(***************************************************************************)
Rotate ==
    /\ \E kids \in SUBSET Keys \ {{}, published} :
         /\ published' = kids
         /\ retired' = [k \in Keys |-> IF k \in kids THEN 0 ELSE retired[k]]
         /\ req' = [r \in Requests |-> [req[r] EXCEPT !.known = @ /\ req[r].caller \in kids]]
         /\ sent' = NoReply
    /\ UNCHANGED <<plan, lapsed, jwks, row>>

ChangePlan ==
    /\ plan' \in Plans \ {plan}
    /\ lapsed' = [lapsed EXCEPT ![plan'] = 0]
    /\ sent' = NoReply
    /\ UNCHANGED <<published, retired, jwks, row, req>>

Older(age, ages) == IF age + 1 \in ages THEN age + 1 ELSE age
Sooner(left) == IF left > -Flight THEN left - 1 ELSE left

\* No fetch outlasts the client's timeout, and reading a row takes no longer.
Tick ==
    /\ \A r \in Requests : req[r].at \in Awaits => req[r].wait < Flight
    /\ retired' = [k \in Keys |-> IF k \in published THEN 0 ELSE Older(retired[k], KeyAges)]
    /\ lapsed' = [p \in Plans |-> IF p = plan THEN 0 ELSE Older(lapsed[p], PlanAges)]
    /\ jwks' = [jwks EXCEPT !.age = Older(@, 0 .. JwksTtl)]
    /\ row' = [row EXCEPT !.left = Sooner(@)]
    /\ req' = [r \in Requests |->
                 IF req[r].at \notin Awaits THEN req[r]
                 ELSE [req[r] EXCEPT !.wait = @ + 1, !.snap.left = Sooner(@)]]
    /\ sent' = NoReply
    /\ UNCHANGED <<published, plan>>

(***************************************************************************)
(* The specification                                                       *)
(***************************************************************************)
Init ==
    /\ published \in SUBSET Keys \ {{}}
    /\ retired = [k \in Keys |-> IF k \in published THEN 0 ELSE JwksTtl + Flight]
    /\ plan \in Plans
    /\ lapsed = [p \in Plans |-> IF p = plan THEN 0 ELSE Longest + Flight]
    /\ jwks = [doc |-> {}, age |-> JwksTtl]
    /\ row = NoRow
    /\ req = [r \in Requests |-> Done]
    /\ sent = NoReply

Identify(r) == NoToken(r) \/ LookUp(r) \/ ServeKeys(r) \/ StoreKeys(r) \/ KeysFail(r)
Entitle(r)  == ReadRow(r) \/ ServePlan(r) \/ StorePlan(r) \/ PlanFails(r)
Stages(r)   == Arrive(r) \/ TurnedAway(r) \/ Identify(r) \/ Entitle(r) \/ Limit(r) \/ Handle(r)

Next == Rotate \/ ChangePlan \/ Tick \/ \E r \in Requests : Stages(r)

Spec == Init /\ [][Next]_vars

(***************************************************************************)
(* Properties                                                              *)
(***************************************************************************)
\* A token is accepted only under a key Clerk published less than the cache's
\* life and one fetch ago, however many requests fetch together and in
\* whatever order their documents are stored.
AcceptedByARecentKey ==
    [][\A r \in Requests :
          req[r].at # "row" /\ req'[r].at = "row" =>
              retired[req[r].caller] < JwksTtl + Flight]_vars

\* A token whose key Clerk has published since the request came in is judged
\* by that key, unless Clerk could not be asked: a rotation never signs anyone
\* out.
PublishedKeyNeverRefused ==
    [][\A r \in Requests :
          req[r].known /\ sent' = [to |-> {r}, code |-> "clerk_unauthorized", truth |-> "none"] =>
              \/ KeysFail(r)
              \/ req[r].caller \in req[r].doc
              \/ req[r].at = "clerk" /\ KeysFresh /\ req[r].caller \in jwks.doc]_vars

\* A request to a gated route is let through, or refused for its tier, because
\* of a plan the account had no longer ago than a snapshot may live and the
\* request has waited: an outage never reads as a missing upgrade, and an
\* upgrade or a cancellation takes effect.
DecidedByARecentPlan ==
    [][\A r \in Requests :
          LET let_through == req[r].at \in Awaits /\ req'[r].at = "allowed"
              forbidden   == sent'.to = {r} /\ sent'.code = "entitlement_forbidden"
          IN  let_through \/ forbidden =>
                \E p \in Plans :
                    /\ (p >= req[r].tier) = let_through
                    /\ lapsed[p] < Longest + req[r].wait]_vars

\* A caller of a model's endpoint is told what is the matter: success only
\* when the model said what was asked, a 4xx only for what the caller sent,
\* 503, 429 and 504 only for a missing key, a provider's limit and a timeout,
\* 502 for everything else a provider does, whatever the gateway does to the
\* answer. What the code lets pass: an object without a list means no
\* entities, a query without direction finds nothing, and a search ranks the
\* embeddings of other models along.
ModelFaultsAreTold ==
    CASE sent.truth = "none"         -> TRUE
      [] sent.truth = "caller"       -> sent.code \in {"unprocessable", "bad_request", "payload_too_large"}
      [] sent.truth = "unconfigured" -> sent.code = "service_unavailable"
      [] sent.truth = "silent"       -> sent.code = "gateway_timeout"
      [] sent.truth = "limited"      -> sent.code = "too_many_requests"
      [] sent.truth = "lost"         -> sent.code = "internal_server_error"
      [] sent.truth = "nonsense"     -> sent.code = "bad_gateway"
      [] sent.truth \in {"said", "no_list", "directionless", "strangers"} ->
             sent.code \in {"ok", "not_modified"}
=============================================================================
