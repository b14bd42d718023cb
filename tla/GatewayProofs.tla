---------------------------- MODULE GatewayProofs ----------------------------
(***************************************************************************)
(* Proofs about Gateway, for every number of requests, keys, plans and     *)
(* tiers, and any lifetimes.                                               *)
(*                                                                         *)
(* The invariant counts how old what a request decides by can be: a key in *)
(* the cached document was published not longer ago than the document is   *)
(* old and a fetch may last (KeysInv), a plan in the row not longer ago    *)
(* than the longest validity less what is left of the row's (RowInv), and  *)
(* what a fetch brings back was true while the request waited for it       *)
(* (RequestInv).                                                           *)
(***************************************************************************)
EXTENDS Gateway, TLAPS

Snapshots == [rank : Plans, left : {n \in Int : n >= -Flight}]

Stops == Awaits \cup {"clerk", "done", "allowed", "handler"}

States ==
    [at : Stops, caller : Callers, tier : 0 .. 3, wait : Nat, forced : BOOLEAN,
     doc : SUBSET Keys, snap : Snapshots, known : BOOLEAN]

TypeInv ==
    /\ published \in SUBSET Keys /\ retired \in [Keys -> KeyAges]
    /\ plan \in Plans /\ lapsed \in [Plans -> PlanAges]
    /\ jwks \in [doc : SUBSET Keys, age : 0 .. JwksTtl]
    /\ row \in Snapshots
    /\ req \in [Requests -> States]

KeysInv ==
    /\ \A k \in published : retired[k] = 0
    /\ \A k \in jwks.doc : retired[k] <= jwks.age + Flight

\* What is left of a snapshot counts against the time the plan is gone.
Dated(snapshot) == lapsed[snapshot.rank] + snapshot.left <= Longest

RowInv == lapsed[plan] = 0 /\ Dated(row)

RequestInv(q) ==
    /\ q.at \in Awaits => q.wait <= Flight
    /\ q.known => q.caller \in published
    /\ q.at = "keys_back" =>
          /\ \A k \in q.doc : retired[k] <= q.wait
          /\ q.known => q.caller \in q.doc
    /\ q.at = "plan_back" => lapsed[q.snap.rank] <= q.wait /\ Dated(q.snap)

GatewayInv == TypeInv /\ KeysInv /\ RowInv /\ \A r \in Requests : RequestInv(req[r])

------------------------------------------------------------------------------
\* The longest validity is none less than any.
LEMMA LongestLasts ==
    /\ Longest \in Nat /\ PlanTtl <= Longest
    /\ \A t \in StatedTtls : t <= Longest
<1> DEFINE All == StatedTtls \cup {PlanTtl}
<1>1. Longest \in All /\ \A u \in All : u <= Longest
  BY ValidityAssumption DEF Longest
<1> QED BY <1>1, GatewayAssumption

\* Ages and what is left, one tick later.
LEMMA OneTick ==
    /\ \A n \in KeyAges : Older(n, KeyAges) \in KeyAges /\ Older(n, KeyAges) <= n + 1
    /\ \A n \in PlanAges : Older(n, PlanAges) \in PlanAges /\ Older(n, PlanAges) <= n + 1
    /\ \A n \in 0 .. JwksTtl :
          /\ Older(n, 0 .. JwksTtl) \in 0 .. JwksTtl
          /\ Older(n, 0 .. JwksTtl) = IF n = JwksTtl THEN n ELSE n + 1
    /\ \A n \in Int : n >= -Flight =>
          /\ Sooner(n) \in Int /\ Sooner(n) >= -Flight
          /\ Sooner(n) = IF n = -Flight THEN n ELSE n - 1
<1>1. \A n \in KeyAges : Older(n, KeyAges) \in KeyAges /\ Older(n, KeyAges) <= n + 1
  <2>1. JwksTtl + Flight \in Nat
    BY GatewayAssumption
  <2> QED BY <2>1 DEF KeyAges, Older
<1>2. \A n \in PlanAges : Older(n, PlanAges) \in PlanAges /\ Older(n, PlanAges) <= n + 1
  <2>1. Longest + Flight \in Nat
    BY GatewayAssumption, LongestLasts
  <2> QED BY <2>1 DEF PlanAges, Older
<1>3. \A n \in 0 .. JwksTtl :
          /\ Older(n, 0 .. JwksTtl) \in 0 .. JwksTtl
          /\ Older(n, 0 .. JwksTtl) = IF n = JwksTtl THEN n ELSE n + 1
  BY GatewayAssumption DEF Older
<1>4. \A n \in Int : n >= -Flight =>
          /\ Sooner(n) \in Int /\ Sooner(n) >= -Flight
          /\ Sooner(n) = IF n = -Flight THEN n ELSE n - 1
  BY GatewayAssumption DEF Sooner
<1> QED BY <1>1, <1>2, <1>3, <1>4

\* A request that is somewhere else is the same otherwise.
LEMMA Elsewhere ==
    ASSUME NEW q \in States, NEW at \in Stops
    PROVE  LET p == [q EXCEPT !.at = at]
           IN  /\ p \in States
               /\ p.at = at /\ p.caller = q.caller /\ p.wait = q.wait /\ p.known = q.known /\ p.tier = q.tier
BY DEF States

\* A request that has waited.
LEMMA Waiting ==
    ASSUME NEW q \in States, NEW wait \in Nat, NEW snap \in Snapshots
    PROVE  LET p == [q EXCEPT !.wait = wait, !.snap = snap]
           IN  p \in States /\ (p.known => q.known)
BY DEF States

\* A request that enters.
LEMMA Entering ==
    ASSUME Plans # {}, NEW caller \in Callers, NEW tier \in 0 .. 3
    PROVE  /\ NoRow \in Snapshots
           /\ Enter(caller, tier) \in States
           /\ Enter(caller, tier).wait = 0
           /\ Enter(caller, tier).known => caller \in published
           /\ Enter(caller, tier).caller = caller
           /\ Enter(caller, tier).tier = tier
<1>1. NoRow \in Snapshots
  BY GatewayAssumption DEF NoRow, Snapshots
<1> HIDE DEF NoRow
<1>2. (caller \in published) \in BOOLEAN
  OBVIOUS
<1> QED BY <1>1, <1>2 DEF Enter, States, Stops

\* A new request, at a stop where nothing has been fetched.
LEMMA NewRequest ==
    ASSUME Plans # {}, NEW caller \in Callers, NEW tier \in 0 .. 3,
           NEW at \in Stops \ {"keys_back", "plan_back"}
    PROVE  /\ [Enter(caller, tier) EXCEPT !.at = at] \in States
           /\ RequestInv([Enter(caller, tier) EXCEPT !.at = at])
           /\ [Enter(caller, tier) EXCEPT !.at = at].at = at
<1> DEFINE q == [Enter(caller, tier) EXCEPT !.at = at]
<1>1. /\ q \in States /\ q.at = at /\ q.wait = 0 /\ q.caller = caller
      /\ q.known => q.caller \in published
      /\ q.at \notin {"keys_back", "plan_back"}
  BY Entering, Elsewhere
<1> HIDE DEF q
<1>2. RequestInv(q)
  BY <1>1, GatewayAssumption DEF RequestInv
<1> QED BY <1>1, <1>2 DEF q

LEMMA GatewayInit == Init => GatewayInv
<1> SUFFICES ASSUME Init PROVE GatewayInv
  OBVIOUS
<1>1. TypeInv
  <2>1. NoRow \in Snapshots
    BY GatewayAssumption DEF Init, NoRow, Snapshots
  <2>2. Done \in States
    BY NewRequest DEF Init, Done, Callers, Stops
  <2> QED BY <2>1, <2>2, GatewayAssumption, LongestLasts DEF Init, TypeInv, KeyAges, PlanAges
<1>2. KeysInv
  BY DEF Init, KeysInv
<1>3. RowInv
  BY <1>1, LongestLasts, GatewayAssumption DEF Init, RowInv, Dated, TypeInv, PlanAges, NoRow, Snapshots
<1>4. \A r \in Requests : RequestInv(req[r])
  BY NewRequest DEF Init, Done, Callers, Stops
<1> QED BY <1>1, <1>2, <1>3, <1>4 DEF GatewayInv

------------------------------------------------------------------------------
RequestsInv == \A r \in Requests : RequestInv(req[r])

\* One request changes, nothing it was told of does.
LEMMA Moved ==
    ASSUME GatewayInv, NEW r \in Requests, NEW q \in States, RequestInv(q),
           req' = [req EXCEPT ![r] = q], UNCHANGED upstreams
    PROVE  req' \in [Requests -> States] /\ RequestsInv'
<1>1. req' \in [Requests -> States]
  BY DEF GatewayInv, TypeInv
<1>2. ASSUME NEW s \in Requests PROVE RequestInv(req[s])'
  <2>1. RequestInv(req'[s])
    BY DEF GatewayInv, TypeInv
  <2> QED BY <2>1 DEF RequestInv, Dated, upstreams
<1> QED BY <1>1, <1>2 DEF RequestsInv

\* A request that is over, or let through.
LEMMA Over ==
    ASSUME GatewayInv
    PROVE  /\ Done \in States /\ RequestInv(Done) /\ Done.at = "done"
           /\ Allowed \in States /\ RequestInv(Allowed) /\ Allowed.at = "allowed"
<1>1. Plans # {} /\ "none" \in Callers /\ {"done", "allowed"} \subseteq Stops \ {"keys_back", "plan_back"}
  BY DEF GatewayInv, TypeInv, Callers, Stops, Awaits
<1>2. Done \in States /\ RequestInv(Done) /\ Done.at = "done"
  BY <1>1, NewRequest DEF Done
<1>3. Allowed \in States /\ RequestInv(Allowed) /\ Allowed.at = "allowed"
  BY <1>1, NewRequest DEF Allowed
<1> QED BY <1>2, <1>3

\* Everything but the request is as it was.
LEMMA OnlyMoved ==
    ASSUME GatewayInv, NEW r \in Requests, NEW q \in States, RequestInv(q),
           req' = [req EXCEPT ![r] = q], UNCHANGED <<upstreams, jwks, row>>
    PROVE  GatewayInv'
<1>1. req' \in [Requests -> States] /\ RequestsInv'
  BY Moved
<1>2. TypeInv'
  BY <1>1 DEF GatewayInv, TypeInv, upstreams
<1>3. KeysInv' /\ RowInv'
  BY DEF GatewayInv, KeysInv, RowInv, Dated, upstreams
<1> QED BY <1>1, <1>2, <1>3 DEF GatewayInv, RequestsInv

LEMMA MoveStep ==
    ASSUME GatewayInv, NEW r \in Requests, NEW q \in States, RequestInv(q), Move(r, q),
           UNCHANGED <<upstreams, jwks, row>>
    PROVE  GatewayInv'
BY OnlyMoved DEF Move

LEMMA SendStep ==
    ASSUME GatewayInv, NEW r \in Requests, NEW code, NEW truth, Send(r, code, truth),
           UNCHANGED <<upstreams, jwks, row>>
    PROVE  GatewayInv'
BY OnlyMoved, Over DEF Send

\* The token is judged, or the plan.
LEMMA Judged ==
    ASSUME GatewayInv, NEW r \in Requests
    PROVE  /\ [Enter("none", req[r].tier) EXCEPT !.at = "row"] \in States
           /\ RequestInv([Enter("none", req[r].tier) EXCEPT !.at = "row"])
           /\ [Enter("none", req[r].tier) EXCEPT !.at = "row"].at = "row"
<1>1. req[r].tier \in 0 .. 3
  BY DEF GatewayInv, TypeInv, States
<1>2. Plans # {} /\ "none" \in Callers /\ "row" \in Stops \ {"keys_back", "plan_back"}
  BY DEF GatewayInv, TypeInv, Callers, Stops, Awaits
<1> QED BY <1>1, <1>2, NewRequest

LEMMA JudgeStep ==
    ASSUME GatewayInv, NEW r \in Requests, Judge(r), UNCHANGED <<upstreams, jwks, row>>
    PROVE  GatewayInv'
BY Judged, MoveStep, SendStep DEF Judge, Reply

\* The request waits for an answer from now on.
LEMMA Asking ==
    ASSUME GatewayInv, NEW r \in Requests
    PROVE  /\ \A forced \in BOOLEAN :
                 LET q == [req[r] EXCEPT !.at = "keys_asked", !.wait = 0, !.forced = forced]
                 IN  q \in States /\ RequestInv(q) /\ q.at = "keys_asked"
           /\ LET q == [req[r] EXCEPT !.at = "plan_asked", !.wait = 0]
              IN  q \in States /\ RequestInv(q) /\ q.at = "plan_asked"
<1> DEFINE p == req[r]
<1>1. p \in States /\ (p.known => p.caller \in published)
  BY DEF GatewayInv, TypeInv, RequestInv
<1> HIDE DEF p
<1>2. ASSUME NEW forced \in BOOLEAN
      PROVE  LET q == [p EXCEPT !.at = "keys_asked", !.wait = 0, !.forced = forced]
             IN  q \in States /\ RequestInv(q) /\ q.at = "keys_asked"
  <2> DEFINE q == [p EXCEPT !.at = "keys_asked", !.wait = 0, !.forced = forced]
  <2>1. /\ q \in States /\ q.at = "keys_asked" /\ q.wait = 0
        /\ q.caller = p.caller /\ q.known = p.known
    BY <1>1 DEF States, Stops, Awaits
  <2> HIDE DEF q
  <2>2. RequestInv(q)
    BY <1>1, <2>1, GatewayAssumption DEF RequestInv
  <2> QED BY <2>1, <2>2 DEF q
<1>3. LET q == [p EXCEPT !.at = "plan_asked", !.wait = 0]
      IN  q \in States /\ RequestInv(q) /\ q.at = "plan_asked"
  <2> DEFINE q == [p EXCEPT !.at = "plan_asked", !.wait = 0]
  <2>1. /\ q \in States /\ q.at = "plan_asked" /\ q.wait = 0
        /\ q.caller = p.caller /\ q.known = p.known
    BY <1>1 DEF States, Stops, Awaits
  <2> HIDE DEF q
  <2>2. RequestInv(q)
    BY <1>1, <2>1, GatewayAssumption DEF RequestInv
  <2> QED BY <2>1, <2>2 DEF q
<1> QED BY <1>2, <1>3 DEF p

LEMMA AskStep ==
    ASSUME GatewayInv, NEW r \in Requests, UNCHANGED <<upstreams, jwks, row>>,
           AskPlan(r) \/ \E forced \in BOOLEAN : AskKeys(r, forced)
    PROVE  GatewayInv'
BY Asking, MoveStep DEF AskPlan, AskKeys

LEMMA DecideStep ==
    ASSUME GatewayInv, NEW r \in Requests, NEW rank, Decide(r, rank),
           UNCHANGED <<upstreams, jwks, row>>
    PROVE  GatewayInv'
BY Over, MoveStep, SendStep DEF Decide, Reply

------------------------------------------------------------------------------
\* A request that goes elsewhere, with what it has waited.
LEMMA Going ==
    ASSUME GatewayInv, NEW r \in Requests, NEW at \in Stops \ {"keys_back", "plan_back"},
           at \in Awaits => req[r].at \in Awaits
    PROVE  [req[r] EXCEPT !.at = at] \in States /\ RequestInv([req[r] EXCEPT !.at = at])
<1> DEFINE q == [req[r] EXCEPT !.at = at]
<1>1. req[r] \in States /\ RequestInv(req[r])
  BY DEF GatewayInv, TypeInv
<1>2. /\ q \in States /\ q.at = at /\ q.caller = req[r].caller
      /\ q.wait = req[r].wait /\ q.known = req[r].known
  BY <1>1, Elsewhere
<1> HIDE DEF q
<1>3. RequestInv(q)
  BY <1>1, <1>2 DEF RequestInv
<1> QED BY <1>2, <1>3 DEF q

LEMMA ArriveStep ==
    ASSUME GatewayInv, NEW r \in Requests, Arrive(r)
    PROVE  GatewayInv'
<1>1. PICK caller \in Callers, tier \in Tiers :
         Move(r, IF tier = 0 THEN Allowed ELSE Enter(caller, tier))
  BY DEF Arrive
<1>2. Enter(caller, tier) \in States /\ RequestInv(Enter(caller, tier))
  <2>1. tier \in 0 .. 3 /\ Plans # {}
    BY GatewayAssumption DEF GatewayInv, TypeInv
  <2>2. Enter(caller, tier) \in States /\ Enter(caller, tier).at = "clerk"
        /\ (Enter(caller, tier).known => Enter(caller, tier).caller \in published)
    BY <2>1, Entering DEF Enter
  <2> QED BY <2>2 DEF RequestInv, Awaits
<1> QED BY <1>1, <1>2, Over, MoveStep DEF Arrive

\* The answer to a fetch is what was true when it was given.
LEMMA ServeKeysStep ==
    ASSUME GatewayInv, NEW r \in Requests, ServeKeys(r)
    PROVE  GatewayInv'
<1> DEFINE q == [req[r] EXCEPT !.at = "keys_back", !.doc = published]
<1>1. req[r] \in States /\ RequestInv(req[r]) /\ published \in SUBSET Keys
  BY DEF GatewayInv, TypeInv
<1>2. /\ q \in States /\ q.at = "keys_back" /\ q.caller = req[r].caller
      /\ q.wait = req[r].wait /\ q.known = req[r].known /\ q.doc = published
  BY <1>1 DEF States, Stops, Awaits
<1> HIDE DEF q
<1>3. RequestInv(q)
  <2>1. \A k \in published : retired[k] = 0
    BY DEF GatewayInv, KeysInv
  <2> QED BY <1>1, <1>2, <2>1 DEF RequestInv, Awaits, ServeKeys, States
<1> QED BY <1>2, <1>3, MoveStep DEF q, ServeKeys

LEMMA ServePlanStep ==
    ASSUME GatewayInv, NEW r \in Requests, ServePlan(r)
    PROVE  GatewayInv'
<1>1. PICK left \in StatedTtls \cup {PlanTtl - req[r].wait} :
         Move(r, [req[r] EXCEPT !.at = "plan_back", !.snap = [rank |-> plan, left |-> left]])
  BY DEF ServePlan
<1> DEFINE s == [rank |-> plan, left |-> left]
           q == [req[r] EXCEPT !.at = "plan_back", !.snap = s]
<1>2. req[r] \in States /\ RequestInv(req[r]) /\ req[r].wait \in Nat /\ req[r].wait <= Flight
  BY DEF GatewayInv, TypeInv, RequestInv, States, ServePlan, Awaits
<1>3. s \in Snapshots /\ left <= Longest
  BY <1>2, GatewayAssumption, LongestLasts DEF Snapshots, GatewayInv, TypeInv
<1>4. s.rank = plan /\ s.left = left /\ left \in Int
  BY <1>3 DEF Snapshots
<1> HIDE DEF s
<1>5. /\ q \in States /\ q.at = "plan_back" /\ q.caller = req[r].caller
      /\ q.wait = req[r].wait /\ q.known = req[r].known /\ q.snap = s
  BY <1>2, <1>3 DEF States, Stops, Awaits
<1> HIDE DEF q
<1>6. RequestInv(q)
  <2>1. lapsed[plan] = 0
    BY DEF GatewayInv, RowInv
  <2> QED BY <1>2, <1>3, <1>4, <1>5, <2>1, LongestLasts DEF RequestInv, Dated
<1> QED BY <1>1, <1>5, <1>6, MoveStep DEF q, s, ServePlan

\* The document that is stored is as old as the request has waited, at most.
LEMMA StoreKeysStep ==
    ASSUME GatewayInv, NEW r \in Requests, StoreKeys(r)
    PROVE  GatewayInv'
<1>1. req[r] \in States /\ RequestInv(req[r]) /\ req[r].at = "keys_back"
  BY DEF GatewayInv, TypeInv, StoreKeys
<1>2. PICK q \in States : req' = [req EXCEPT ![r] = q] /\ RequestInv(q)
  <2>1. Judge(r) \/ Reply(r, "clerk_unauthorized") \/ AskKeys(r, TRUE)
    BY DEF StoreKeys
  <2> QED BY <2>1, Judged, Over, Asking DEF Judge, Reply, Send, Move, AskKeys
<1>3. req' \in [Requests -> States] /\ RequestsInv'
  BY <1>2, Moved DEF StoreKeys
<1>4. KeysInv'
  <2>1. \A k \in req[r].doc : retired[k] <= req[r].wait
    BY <1>1 DEF RequestInv
  <2>2. req[r].wait <= Flight /\ req[r].wait \in Nat /\ req[r].doc \subseteq Keys
    BY <1>1 DEF RequestInv, States, Awaits
  <2>3. jwks'.doc = req[r].doc /\ jwks'.age = 0
    BY DEF StoreKeys
  <2>4. \A k \in Keys : retired[k] \in Nat
    BY GatewayAssumption DEF GatewayInv, TypeInv, KeyAges
  <2> QED BY <2>1, <2>2, <2>3, <2>4, GatewayAssumption DEF KeysInv, GatewayInv, StoreKeys, upstreams
<1>5. TypeInv'
  <2>1. jwks' \in [doc : SUBSET Keys, age : 0 .. JwksTtl]
    BY <1>1, GatewayAssumption DEF StoreKeys, States
  <2> QED BY <1>3, <2>1 DEF GatewayInv, TypeInv, StoreKeys, upstreams
<1>6. RowInv'
  BY DEF GatewayInv, RowInv, Dated, StoreKeys, upstreams
<1> QED BY <1>3, <1>4, <1>5, <1>6 DEF GatewayInv, RequestsInv

LEMMA StorePlanStep ==
    ASSUME GatewayInv, NEW r \in Requests, StorePlan(r)
    PROVE  GatewayInv'
<1>1. req[r] \in States /\ RequestInv(req[r]) /\ req[r].at = "plan_back"
  BY DEF GatewayInv, TypeInv, StorePlan
<1>2. PICK q \in States : req' = [req EXCEPT ![r] = q] /\ RequestInv(q)
  BY Over DEF StorePlan, Decide, Reply, Send, Move
<1>3. req' \in [Requests -> States] /\ RequestsInv'
  BY <1>2, Moved DEF StorePlan
<1>4. req[r].snap \in Snapshots /\ Dated(req[r].snap)
  BY <1>1 DEF RequestInv, States
<1>5. TypeInv' /\ KeysInv'
  BY <1>3, <1>4 DEF GatewayInv, TypeInv, KeysInv, StorePlan, upstreams
<1>6. RowInv'
  BY <1>4 DEF GatewayInv, RowInv, Dated, StorePlan, upstreams
<1> QED BY <1>3, <1>5, <1>6 DEF GatewayInv, RequestsInv

LEMMA StagesStep ==
    ASSUME GatewayInv, NEW r \in Requests, Stages(r)
    PROVE  GatewayInv'
<1>1. CASE Arrive(r)
  BY <1>1, ArriveStep
<1>2. CASE TurnedAway(r)
  BY <1>2, SendStep DEF TurnedAway, Reply
<1>3. CASE NoToken(r)
  BY <1>3, SendStep DEF NoToken, Reply
<1>4. CASE LookUp(r)
  BY <1>4, JudgeStep, AskStep DEF LookUp
<1>5. CASE ServeKeys(r)
  BY <1>5, ServeKeysStep
<1>6. CASE StoreKeys(r)
  BY <1>6, StoreKeysStep
<1>7. CASE KeysFail(r)
  BY <1>7, SendStep DEF KeysFail, Reply
<1>8. CASE ReadRow(r)
  BY <1>8, DecideStep, AskStep DEF ReadRow
<1>9. CASE ServePlan(r)
  BY <1>9, ServePlanStep
<1>10. CASE StorePlan(r)
  BY <1>10, StorePlanStep
<1>11. CASE PlanFails(r)
  BY <1>11, SendStep DEF PlanFails, Reply
<1>12. CASE Limit(r)
  <2>1. CASE Reply(r, "rate_limited")
    BY <1>12, <2>1, SendStep DEF Limit, Reply
  <2>2. CASE Move(r, [req[r] EXCEPT !.at = "handler"])
    <3>1. "handler" \in Stops \ {"keys_back", "plan_back"} /\ "handler" \notin Awaits
      BY DEF Stops, Awaits
    <3> QED BY <1>12, <2>2, <3>1, Going, MoveStep DEF Limit
  <2> QED BY <1>12, <2>1, <2>2 DEF Limit
<1>13. CASE Handle(r)
  BY <1>13, SendStep DEF Handle, Reply
<1> QED BY <1>1, <1>2, <1>3, <1>4, <1>5, <1>6, <1>7, <1>8, <1>9, <1>10, <1>11, <1>12, <1>13
       DEF Stages, Identify, Entitle

------------------------------------------------------------------------------
\* What a request knows stays true when the document changes.
LEMMA RotateStep ==
    ASSUME GatewayInv, Rotate
    PROVE  GatewayInv'
<1>1. PICK kids \in SUBSET Keys \ {{}, published} :
         /\ published' = kids
         /\ retired' = [k \in Keys |-> IF k \in kids THEN 0 ELSE retired[k]]
         /\ req' = [r \in Requests |-> [req[r] EXCEPT !.known = @ /\ req[r].caller \in kids]]
  BY DEF Rotate
<1>2. /\ retired' \in [Keys -> KeyAges]
      /\ \A k \in Keys : retired'[k] <= retired[k] /\ (k \in kids => retired'[k] = 0)
  <2>1. 0 \in KeyAges /\ \A n \in KeyAges : n \in Nat
    BY GatewayAssumption DEF KeyAges
  <2> QED BY <1>1, <2>1 DEF GatewayInv, TypeInv
<1>3. ASSUME NEW r \in Requests
      PROVE  /\ req'[r] \in States /\ req'[r].at = req[r].at /\ req'[r].wait = req[r].wait
             /\ req'[r].caller = req[r].caller /\ req'[r].doc = req[r].doc
             /\ req'[r].snap = req[r].snap
             /\ req'[r].known => req[r].known /\ req[r].caller \in kids
  <2> DEFINE known == req[r].known /\ req[r].caller \in kids
  <2>1. req'[r] = [req[r] EXCEPT !.known = known] /\ known \in BOOLEAN
    BY <1>1
  <2>2. known => req[r].known /\ req[r].caller \in kids
    OBVIOUS
  <2> HIDE DEF known
  <2>3. req[r] \in States
    BY DEF GatewayInv, TypeInv
  <2>4. [req[r] EXCEPT !.known = known] \in States /\ [req[r] EXCEPT !.known = known].known = known
    BY <2>1, <2>3 DEF States
  <2> QED BY <2>1, <2>2, <2>3, <2>4 DEF States
<1>4. req' \in [Requests -> States]
  BY <1>1, <1>3
<1>5. RequestsInv'
  <2> SUFFICES ASSUME NEW r \in Requests PROVE RequestInv(req[r])'
    BY DEF RequestsInv
  <2>1. RequestInv(req[r]) /\ req[r].doc \subseteq Keys /\ req[r].wait \in Nat
    BY DEF GatewayInv, TypeInv, States
  <2>2. \A k \in Keys : retired[k] \in Nat /\ retired'[k] \in Nat
    BY <1>2, GatewayAssumption DEF GatewayInv, TypeInv, KeyAges
  <2>3. lapsed' = lapsed /\ published' = kids
    BY <1>1 DEF Rotate
  <2> QED BY <1>2, <1>3, <2>1, <2>2, <2>3 DEF RequestInv, Dated
<1>6. KeysInv'
  <2>1. \A k \in Keys : retired[k] \in Nat /\ retired'[k] \in Nat
    BY <1>2, GatewayAssumption DEF GatewayInv, TypeInv, KeyAges
  <2>2. jwks' = jwks /\ jwks.doc \subseteq Keys /\ jwks.age \in Nat /\ Flight \in Nat
    BY GatewayAssumption DEF Rotate, GatewayInv, TypeInv
  <2> QED BY <1>1, <1>2, <2>1, <2>2 DEF KeysInv, GatewayInv
<1>7. TypeInv'
  BY <1>1, <1>2, <1>4 DEF GatewayInv, TypeInv, Rotate
<1>8. RowInv'
  BY DEF GatewayInv, RowInv, Dated, Rotate
<1> QED BY <1>5, <1>6, <1>7, <1>8 DEF GatewayInv, RequestsInv

\* The plan that is had now is no more gone.
LEMMA ChangePlanStep ==
    ASSUME GatewayInv, ChangePlan
    PROVE  GatewayInv'
<1>1. plan' \in Plans /\ lapsed' = [lapsed EXCEPT ![plan'] = 0]
  BY DEF ChangePlan
<1>2. /\ lapsed' \in [Plans -> PlanAges] /\ lapsed'[plan'] = 0
      /\ \A p \in Plans : lapsed[p] \in Nat /\ lapsed'[p] \in Nat /\ lapsed'[p] <= lapsed[p]
  <2>1. 0 \in PlanAges /\ \A n \in PlanAges : n \in Nat
    BY GatewayAssumption, LongestLasts DEF PlanAges
  <2> QED BY <1>1, <2>1 DEF GatewayInv, TypeInv
<1>4. TypeInv'
  BY <1>1, <1>2 DEF GatewayInv, TypeInv, ChangePlan
<1>5. KeysInv'
  BY DEF GatewayInv, KeysInv, ChangePlan
<1>6. RowInv'
  <2>1. Dated(row)'
    BY <1>2, LongestLasts DEF Dated, Snapshots, GatewayInv, TypeInv, RowInv, ChangePlan
  <2> QED BY <1>2, <2>1 DEF RowInv
<1>7. RequestsInv'
  <2> SUFFICES ASSUME NEW r \in Requests PROVE RequestInv(req[r])'
    BY DEF RequestsInv
  <2>1. RequestInv(req[r]) /\ req[r] \in States /\ req' = req
    BY DEF GatewayInv, TypeInv, ChangePlan
  <2>2. req[r].snap \in Snapshots /\ req[r].wait \in Nat /\ req[r].snap.rank \in Plans
    BY <2>1 DEF States, Snapshots
  <2>3. published' = published /\ retired' = retired
    BY DEF ChangePlan
  <2>4. req[r].at = "plan_back" =>
          /\ lapsed'[req[r].snap.rank] <= req[r].wait
          /\ lapsed'[req[r].snap.rank] + req[r].snap.left <= Longest
    BY <1>2, <2>1, <2>2, LongestLasts DEF RequestInv, Dated, Snapshots
  <2> QED BY <2>1, <2>3, <2>4 DEF RequestInv, Dated
<1> QED BY <1>4, <1>5, <1>6, <1>7 DEF GatewayInv, RequestsInv

\* Time counts for what is published or had no longer, for what is cached, and
\* for what a request waits for, alike.
LEMMA TickStep ==
    ASSUME GatewayInv, Tick
    PROVE  GatewayInv'
<1>1. /\ retired' \in [Keys -> KeyAges]
      /\ \A k \in Keys : /\ retired[k] \in Nat /\ retired'[k] \in Nat
                         /\ retired'[k] <= retired[k] + 1
                         /\ k \in published => retired'[k] = 0
  <2>1. 0 \in KeyAges /\ \A n \in KeyAges : n \in Nat
    BY GatewayAssumption DEF KeyAges
  <2>2. \A k \in Keys : retired[k] \in KeyAges
    BY DEF GatewayInv, TypeInv
  <2>3. retired' = [k \in Keys |-> IF k \in published THEN 0 ELSE Older(retired[k], KeyAges)]
    BY DEF Tick
  <2> QED BY <2>1, <2>2, <2>3, OneTick
<1>2. /\ lapsed' \in [Plans -> PlanAges] /\ lapsed'[plan] = 0
      /\ \A p \in Plans : /\ lapsed[p] \in Nat /\ lapsed'[p] \in Nat
                          /\ lapsed'[p] <= lapsed[p] + 1 /\ lapsed'[p] <= Longest + Flight
  <2>1. 0 \in PlanAges /\ \A n \in PlanAges : n \in Nat /\ n <= Longest + Flight
    BY GatewayAssumption, LongestLasts DEF PlanAges
  <2>2. (\A p \in Plans : lapsed[p] \in PlanAges) /\ plan \in Plans
    BY DEF GatewayInv, TypeInv
  <2>3. lapsed' = [p \in Plans |-> IF p = plan THEN 0 ELSE Older(lapsed[p], PlanAges)]
    BY DEF Tick
  <2> QED BY <2>1, <2>2, <2>3, OneTick
\* A snapshot's plan is gone for a tick longer, and the snapshot has one less.
<1>3. ASSUME NEW p \in Plans, NEW n \in Int, n >= -Flight, lapsed[p] + n <= Longest
      PROVE  lapsed'[p] + Sooner(n) <= Longest
  <2>1. Sooner(n) = IF n = -Flight THEN n ELSE n - 1
    BY <1>3, OneTick
  <2>2. /\ lapsed[p] \in Nat /\ lapsed'[p] \in Nat
        /\ lapsed'[p] <= lapsed[p] + 1 /\ lapsed'[p] <= Longest + Flight
    BY <1>2
  <2> QED BY <1>3, <2>1, <2>2, LongestLasts, GatewayAssumption
<1>4. row' \in Snapshots /\ row'.rank = row.rank /\ row'.left = Sooner(row.left)
  BY OneTick DEF Tick, GatewayInv, TypeInv, Snapshots
<1>5. /\ jwks' \in [doc : SUBSET Keys, age : 0 .. JwksTtl] /\ jwks'.doc = jwks.doc
      /\ jwks'.age = IF jwks.age = JwksTtl THEN jwks.age ELSE jwks.age + 1
  BY OneTick DEF Tick, GatewayInv, TypeInv
<1>6. ASSUME NEW r \in Requests
      PROVE  /\ req'[r] \in States /\ req'[r].at = req[r].at
             /\ req'[r].caller = req[r].caller /\ req'[r].doc = req[r].doc
             /\ req'[r].known => req[r].known
             /\ req[r].at \in Awaits => /\ req'[r].wait = req[r].wait + 1
                                        /\ req[r].wait < Flight
                                        /\ req'[r].snap.rank = req[r].snap.rank
                                        /\ req'[r].snap.left = Sooner(req[r].snap.left)
  <2> DEFINE q == req[r]
             s == [q.snap EXCEPT !.left = Sooner(@)]
  <2>1. q \in States /\ q.snap \in Snapshots
    BY DEF GatewayInv, TypeInv, States
  <2>2. s \in Snapshots /\ s.rank = q.snap.rank /\ s.left = Sooner(q.snap.left)
    BY <2>1, OneTick DEF Snapshots
  <2>3. req'[r] = IF q.at \notin Awaits THEN q ELSE [q EXCEPT !.wait = @ + 1, !.snap.left = Sooner(@)]
    BY DEF Tick
  <2>4. CASE q.at \notin Awaits
    BY <2>1, <2>3, <2>4
  <2>5. CASE q.at \in Awaits
    <3>1. q.wait < Flight
      BY <2>5 DEF Tick
    <3>2. req'[r] = [q EXCEPT !.wait = q.wait + 1, !.snap = s]
      BY <2>1, <2>3, <2>5 DEF States, Snapshots
    <3> HIDE DEF q, s
    <3> DEFINE w == q.wait + 1
               t == [q EXCEPT !.wait = w, !.snap = s]
    <3>3. /\ t \in States /\ t.at = q.at /\ t.caller = q.caller
          /\ t.doc = q.doc /\ t.wait = q.wait + 1 /\ t.snap = s
          /\ t.known => q.known
      <4>1. w \in Nat /\ w = q.wait + 1
        BY <2>1 DEF States
      <4>2. q \in States /\ s \in Snapshots
        BY <2>1, <2>2
      <4> HIDE DEF w
      <4>3. t \in States
        BY <4>1, <4>2, Waiting
      <4>4. t.known => q.known
        BY <4>1, <4>2, Waiting
      <4>5. t.wait = w /\ t.snap = s
        BY <4>1, <4>2 DEF States
      <4>6. t.at = q.at /\ t.caller = q.caller /\ t.doc = q.doc
        BY <4>2 DEF States
      <4> QED BY <4>1, <4>3, <4>4, <4>5, <4>6
    <3> HIDE DEF t
    <3> QED BY <2>2, <3>1, <3>2, <3>3 DEF q, t
  <2> QED BY <2>4, <2>5
<1>7. req' \in [Requests -> States]
  BY <1>6 DEF Tick
<1>8. TypeInv'
  BY <1>1, <1>2, <1>4, <1>5, <1>7 DEF GatewayInv, TypeInv, Tick
<1>9. KeysInv'
  <2>1. \A k \in jwks.doc : retired'[k] <= jwks'.age + Flight
    <3> SUFFICES ASSUME NEW k \in jwks.doc PROVE retired'[k] <= jwks'.age + Flight
      OBVIOUS
    <3>1. k \in Keys /\ jwks.age \in 0 .. JwksTtl
      BY DEF GatewayInv, TypeInv
    <3>2. retired[k] <= jwks.age + Flight
      BY DEF GatewayInv, KeysInv
    <3>3. retired'[k] \in 0 .. JwksTtl + Flight
      BY <1>1, <3>1 DEF KeyAges
    <3> QED BY <1>1, <1>5, <3>1, <3>2, <3>3, GatewayAssumption
  <2> QED BY <1>1, <1>5, <2>1 DEF KeysInv, Tick, GatewayInv, TypeInv
<1>10. RowInv'
  <2>1. row.rank \in Plans /\ row.left \in Int /\ row.left >= -Flight
    BY DEF GatewayInv, TypeInv, Snapshots
  <2>2. lapsed[row.rank] + row.left <= Longest
    BY DEF GatewayInv, RowInv, Dated
  <2> QED BY <1>2, <1>3, <1>4, <2>1, <2>2 DEF RowInv, Dated, Tick
<1>11. RequestsInv'
  <2> SUFFICES ASSUME NEW r \in Requests PROVE RequestInv(req[r])'
    BY DEF RequestsInv
  <2> DEFINE q == req[r]
  <2>1. RequestInv(q) /\ q \in States
    BY DEF GatewayInv, TypeInv
  <2>2. q.wait \in Nat /\ q.doc \subseteq Keys /\ q.snap.rank \in Plans
        /\ q.snap.left \in Int /\ q.snap.left >= -Flight
    BY <2>1 DEF States, Snapshots
  <2>3. req'[r].at \in Awaits => req'[r].wait <= Flight
    BY <1>6, <2>2, GatewayAssumption
  <2>4. req'[r].known => req'[r].caller \in published'
    <3>1. q.known => q.caller \in published
      BY <2>1 DEF RequestInv
    <3>2. published' = published
      BY DEF Tick
    <3> QED BY <1>6, <3>1, <3>2
  <2>5. ASSUME q.at = "keys_back"
        PROVE  (\A k \in req'[r].doc : retired'[k] <= req'[r].wait) /\ (req'[r].known => req'[r].caller \in req'[r].doc)
    <3>1. q.at \in Awaits
      BY <2>5 DEF Awaits
    <3> QED BY <1>1, <1>6, <2>1, <2>2, <2>5, <3>1 DEF RequestInv
  <2>6. ASSUME q.at = "plan_back"
        PROVE  /\ lapsed'[req'[r].snap.rank] <= req'[r].wait
               /\ lapsed'[req'[r].snap.rank] + req'[r].snap.left <= Longest
    <3>1. q.at \in Awaits
      BY <2>6 DEF Awaits
    <3>2. lapsed[q.snap.rank] <= q.wait /\ lapsed[q.snap.rank] + q.snap.left <= Longest
      BY <2>1, <2>6 DEF RequestInv, Dated
    <3>3. lapsed'[q.snap.rank] <= q.wait + 1
      BY <1>2, <2>2, <3>2
    <3>4. lapsed'[q.snap.rank] + Sooner(q.snap.left) <= Longest
      BY <1>3, <2>2, <3>2
    <3> QED BY <1>6, <3>1, <3>3, <3>4
  <2> QED BY <1>6, <2>3, <2>4, <2>5, <2>6 DEF RequestInv, Dated
<1> QED BY <1>8, <1>9, <1>10, <1>11 DEF GatewayInv, RequestsInv

LEMMA GatewayStep == GatewayInv /\ [Next]_vars => GatewayInv'
<1> SUFFICES ASSUME GatewayInv, [Next]_vars PROVE GatewayInv'
  OBVIOUS
<1>1. ASSUME NEW r \in Requests, Stages(r) PROVE GatewayInv'
  BY <1>1, StagesStep
<1>2. CASE UNCHANGED vars
  BY <1>2 DEF vars, upstreams, GatewayInv, TypeInv, KeysInv, RowInv, RequestInv, Dated
<1> QED BY <1>1, <1>2, RotateStep, ChangePlanStep, TickStep DEF Next

LEMMA GatewayAlways == Spec => []GatewayInv
BY GatewayInit, GatewayStep, PTL DEF Spec

------------------------------------------------------------------------------
(* The endpoints that ask a model.                                            *)

Answer(call) == Boundary(Respond(call), Named(Respond(call)))

\* The code tells what is the matter.
Tells(code, truth) ==
    CASE truth = "caller"       -> code \in {"unprocessable", "bad_request", "payload_too_large"}
      [] truth = "unconfigured" -> code = "service_unavailable"
      [] truth = "silent"       -> code = "gateway_timeout"
      [] truth = "limited"      -> code = "too_many_requests"
      [] truth = "lost"         -> code = "internal_server_error"
      [] truth = "nonsense"     -> code = "bad_gateway"
      [] truth \in {"said", "no_list", "directionless", "strangers"} -> code = "ok"
      [] OTHER                  -> FALSE

\* A request that cannot be put to a model is told so.
LEMMA UnaskedTold ==
    ASSUME NEW call \in Calls, ~ Asked(call)
    PROVE  Tells(Answer(call), Truth(call))
<1>1. call.endpoint \in {"classify", "extract", "summarize", "search"}
      /\ call.text \in {"text", "blank", "long", "unreadable"}
  BY DEF Calls, Endpoints
<1>2. Respond(call) = Unasked(call)
  BY <1>1 DEF Respond, classify_event, extract_entities_handler, summarize_article, search_semantic
<1>3. Answer(call) = Unasked(call)
  BY <1>1, <1>2 DEF Answer, Boundary, Named, Unasked, ServerErrors
<1> QED BY <1>1, <1>3 DEF Tells, Truth, Unasked, Asked

LEMMA ClassifyTold ==
    ASSUME NEW call \in Calls, Asked(call), call.endpoint = "classify"
    PROVE  Tells(Answer(call), Truth(call))
<1>1. call.reply \in {"silence", "broken", "too_many", "refused"} \cup ChatBodies /\ call.index = {}
  BY DEF Calls, Endpoints, Replies, Failures, Backend
<1>2. Answer(call) = Status(sentiment(call.reply))
  BY DEF Answer, Respond, classify_event, Boundary, Named, Status
<1>3. Truth(call) = OfReply(call)
  BY DEF Truth, Asked
<1>4. OfReply(call) =
        IF call.reply = "silence" THEN "silent" ELSE IF call.reply = "too_many" THEN "limited"
        ELSE IF call.reply \in {"label", "verdict"} THEN "said" ELSE "nonsense"
  BY <1>1 DEF OfReply, Strangers, Saying, ChatBodies, Contents
<1>5. CASE call.reply = "silence"
  BY <1>2, <1>3, <1>4, <1>5 DEF Tells, Status, sentiment, Parsed, Chat, Failures, Contents
<1>6. CASE call.reply = "too_many"
  BY <1>2, <1>3, <1>4, <1>6 DEF Tells, Status, sentiment, Parsed, Chat, Failures, Contents
<1>7. CASE call.reply \in {"label", "verdict"}
  <2>1. sentiment(call.reply) = "ok"
    BY <1>7 DEF sentiment, Parsed, Chat, Failures, parse_sentiment, Contents
  <2> QED BY <1>2, <1>3, <1>4, <1>7, <2>1 DEF Tells, Status
<1>8. CASE call.reply \notin {"silence", "too_many", "label", "verdict"}
  <2>1. sentiment(call.reply) \notin {"ok", "Upstream429", "Elapsed"}
    BY <1>1, <1>8 DEF sentiment, Parsed, Chat, Failures, parse_sentiment, ChatBodies, Contents
  <2> QED BY <1>2, <1>3, <1>4, <1>8, <2>1 DEF Tells, Status
<1> QED BY <1>5, <1>6, <1>7, <1>8

LEMMA ExtractTold ==
    ASSUME NEW call \in Calls, Asked(call), call.endpoint = "extract"
    PROVE  Tells(Answer(call), Truth(call))
<1>1. call.reply \in {"silence", "broken", "too_many", "refused"} \cup ChatBodies /\ call.index = {}
  BY DEF Calls, Endpoints, Replies, Failures, Backend
<1>2. Answer(call) = Status(extract_entities(call.reply))
  BY DEF Answer, Respond, extract_entities_handler, Boundary, Named, Status
<1>3. Truth(call) = OfReply(call)
  BY DEF Truth, Asked
<1>4. OfReply(call) =
        IF call.reply = "silence" THEN "silent" ELSE IF call.reply = "too_many" THEN "limited"
        ELSE IF call.reply \in {"object", "label", "verdict", "odd_label"} THEN "no_list"
        ELSE IF call.reply \in {"names", "no_names"} THEN "said" ELSE "nonsense"
  BY <1>1 DEF OfReply, Strangers, Saying, ChatBodies, Contents
<1>5. CASE call.reply = "silence"
  BY <1>2, <1>3, <1>4, <1>5 DEF Tells, Status, extract_entities, Parsed, Chat, Failures, Contents
<1>6. CASE call.reply = "too_many"
  BY <1>2, <1>3, <1>4, <1>6 DEF Tells, Status, extract_entities, Parsed, Chat, Failures, Contents
<1>7. CASE call.reply \in {"object", "label", "verdict", "odd_label", "names", "no_names"}
  <2>1. extract_entities(call.reply) = "ok"
    BY <1>7 DEF extract_entities, Parsed, Chat, Failures, parse_entities, Contents
  <2> QED BY <1>2, <1>3, <1>4, <1>7, <2>1 DEF Tells, Status
<1>8. CASE call.reply \notin {"silence", "too_many"} \cup {"object", "label", "verdict", "odd_label", "names", "no_names"}
  <2>1. extract_entities(call.reply) \notin {"ok", "Upstream429", "Elapsed"}
    BY <1>1, <1>8 DEF extract_entities, Parsed, Chat, Failures, parse_entities, ChatBodies, Contents
  <2> QED BY <1>2, <1>3, <1>4, <1>8, <2>1 DEF Tells, Status
<1> QED BY <1>5, <1>6, <1>7, <1>8

LEMMA SummarizeTold ==
    ASSUME NEW call \in Calls, Asked(call), call.endpoint = "summarize"
    PROVE  Tells(Answer(call), Truth(call))
<1>1. call.reply \in {"silence", "broken", "too_many", "refused"} \cup ChatBodies /\ call.index = {}
  BY DEF Calls, Endpoints, Replies, Failures, Backend
<1>2. Answer(call) = Status(summarize(call.reply))
  BY DEF Answer, Respond, summarize_article, Boundary, Named, Status
<1>3. Truth(call) = OfReply(call)
  BY DEF Truth, Asked
<1>4. OfReply(call) =
        IF call.reply = "silence" THEN "silent" ELSE IF call.reply = "too_many" THEN "limited"
        ELSE IF call.reply \in Contents \ {"blank"} THEN "said" ELSE "nonsense"
  BY <1>1 DEF OfReply, Strangers, Saying, ChatBodies, Contents
<1>5. CASE call.reply = "silence"
  BY <1>2, <1>3, <1>4, <1>5 DEF Tells, Status, summarize, Parsed, Chat, Failures, Contents
<1>6. CASE call.reply = "too_many"
  BY <1>2, <1>3, <1>4, <1>6 DEF Tells, Status, summarize, Parsed, Chat, Failures, Contents
<1>7. CASE call.reply \in (Contents \ {"blank"})
  <2>1. summarize(call.reply) = "ok"
    BY <1>7 DEF summarize, Parsed, Chat, Failures, parse_summary, Contents
  <2> QED BY <1>2, <1>3, <1>4, <1>7, <2>1 DEF Tells, Status, Contents
<1>8. CASE call.reply \notin {"silence", "too_many"} \cup (Contents \ {"blank"})
  <2>1. summarize(call.reply) \notin {"ok", "Upstream429", "Elapsed"}
    BY <1>1, <1>8 DEF summarize, Parsed, Chat, Failures, parse_summary, ChatBodies, Contents
  <2> QED BY <1>2, <1>3, <1>4, <1>8, <2>1 DEF Tells, Status, Contents
<1> QED BY <1>5, <1>6, <1>7, <1>8

LEMMA SearchTold ==
    ASSUME NEW call \in Calls, Asked(call), call.endpoint = "search"
    PROVE  Tells(Answer(call), Truth(call))
<1>1. call.reply \in {"silence", "broken", "too_many", "refused"} \cup Vectors
  BY DEF Calls, Endpoints, Replies, Failures, Backend
<1>2. Respond(call) = IF embed(call.reply) = "ok" /\ call.index = {"lost"} THEN "internal_server_error"
                      ELSE Status(embed(call.reply))
  BY DEF Respond, search_semantic
<1>3. Answer(call) = Respond(call)
  BY <1>2 DEF Answer, Boundary, Named, Status
<1>4. Truth(call) = OfReply(call)
  BY DEF Truth, Asked
<1>5. CASE call.reply = "silence"
  <2>1. embed(call.reply) = "Elapsed"
    BY <1>5 DEF embed, Failures
  <2>2. OfReply(call) = "silent"
    BY <1>5 DEF OfReply, Strangers, Saying
  <2> QED BY <1>2, <1>3, <1>4, <2>1, <2>2 DEF Tells, Status
<1>6. CASE call.reply = "too_many"
  <2>1. embed(call.reply) = "Upstream429"
    BY <1>6 DEF embed, Failures
  <2>2. OfReply(call) = "limited"
    BY <1>6 DEF OfReply, Strangers, Saying
  <2> QED BY <1>2, <1>3, <1>4, <2>1, <2>2 DEF Tells, Status
<1>7. CASE call.reply \in {"row", "vector", "zeros"}
  <2>1. embed(call.reply) = "ok"
    BY <1>7 DEF embed, Failures, parse_single_embedding
  <2>2. CASE call.index = {"lost"}
    <3>1. ~ Strangers(call)
      BY <2>2 DEF Strangers, top_k_by_cosine
    <3>2. OfReply(call) = "lost"
      BY <1>7, <2>2, <3>1 DEF OfReply
    <3> QED BY <1>2, <1>3, <1>4, <2>1, <2>2, <3>2 DEF Tells
  <2>3. CASE call.index # {"lost"}
    <3>1. OfReply(call) \in {"said", "directionless", "strangers"}
      BY <1>7, <2>3 DEF OfReply, Saying
    <3> QED BY <1>2, <1>3, <1>4, <2>1, <2>3, <3>1 DEF Tells, Status
  <2> QED BY <2>2, <2>3
<1>8. CASE call.reply \notin {"silence", "too_many", "row", "vector", "zeros"}
  <2>1. embed(call.reply) \notin {"ok", "Upstream429", "Elapsed"}
    BY <1>1, <1>8 DEF embed, Failures, parse_single_embedding, Vectors
  <2>2. OfReply(call) = "nonsense"
    BY <1>8 DEF OfReply, Strangers, Saying
  <2> QED BY <1>2, <1>3, <1>4, <2>1, <2>2 DEF Tells, Status
<1> QED BY <1>5, <1>6, <1>7, <1>8

\* Whatever is called, the code tells what is the matter.
LEMMA AllTold == \A call \in Calls : Tells(Answer(call), Truth(call))
<1> SUFFICES ASSUME NEW call \in Calls PROVE Tells(Answer(call), Truth(call))
  OBVIOUS
<1>1. call.endpoint \in {"classify", "extract", "summarize", "search"}
  BY DEF Calls, Endpoints
<1> QED BY <1>1, UnaskedTold, ClassifyTold, ExtractTold, SummarizeTold, SearchTold

------------------------------------------------------------------------------
(* The properties                                                             *)

\* A stage moves its own request, and answers no other.
LEMMA OwnStage ==
    ASSUME NEW s \in Requests, Stages(s)
    PROVE  /\ \E q : req' = [req EXCEPT ![s] = q]
           /\ sent' = NoReply \/ sent'.to = {s}
<1> DEFINE Own == /\ \E q : req' = [req EXCEPT ![s] = q]
                  /\ sent' = NoReply \/ sent'.to = {s}
<1> SUFFICES Own
  OBVIOUS
<1>1. ASSUME NEW q, Move(s, q) PROVE Own
  BY <1>1 DEF Move
<1>2. ASSUME NEW code, NEW truth, Send(s, code, truth) PROVE Own
  BY <1>2 DEF Send
<1> HIDE DEF Own
<1>3. ASSUME NEW code, Reply(s, code) PROVE Own
  BY <1>2, <1>3 DEF Reply
<1>4. CASE Arrive(s) \/ TurnedAway(s) \/ NoToken(s) \/ ServeKeys(s) \/ KeysFail(s)
  BY <1>1, <1>3, <1>4 DEF Arrive, TurnedAway, NoToken, ServeKeys, KeysFail
<1>5. CASE LookUp(s) \/ StoreKeys(s)
  BY <1>1, <1>3, <1>5 DEF LookUp, StoreKeys, Judge, AskKeys
<1>6. CASE ReadRow(s) \/ ServePlan(s) \/ StorePlan(s) \/ PlanFails(s)
  BY <1>1, <1>3, <1>6 DEF ReadRow, ServePlan, StorePlan, PlanFails, Decide, AskPlan
<1>7. CASE Limit(s) \/ Handle(s)
  BY <1>1, <1>2, <1>3, <1>7 DEF Limit, Handle
<1> QED BY <1>4, <1>5, <1>6, <1>7 DEF Stages, Identify, Entitle

\* Who moves, or is answered, has been through a stage.
LEMMA ByItsStage ==
    ASSUME GatewayInv, Next, NEW r \in Requests,
           req'[r].at # req[r].at \/ sent'.to = {r}
    PROVE  Stages(r)
<1>1. req[r] \in States
  BY DEF GatewayInv, TypeInv
<1>2. CASE Rotate \/ ChangePlan
  <2>1. req'[r].at = req[r].at
    BY <1>1, <1>2 DEF Rotate, ChangePlan, States
  <2> QED BY <1>2, <2>1 DEF NoReply, Rotate, ChangePlan
<1>3. CASE Tick
  <2>1. req'[r].at = req[r].at
    BY <1>1, <1>3 DEF Tick, States
  <2> QED BY <1>3, <2>1 DEF NoReply, Tick
<1>4. ASSUME NEW s \in Requests, Stages(s) PROVE Stages(r)
  <2>1. CASE s = r
    BY <1>4, <2>1
  <2>2. CASE s # r
    <3>1. req'[r] = req[r]
      <4>1. PICK q : req' = [req EXCEPT ![s] = q]
        BY <1>4, OwnStage
      <4> QED BY <2>2, <4>1 DEF GatewayInv, TypeInv
    <3>2. sent' = NoReply \/ sent'.to = {s}
      BY <1>4, OwnStage
    <3> QED BY <2>2, <3>1, <3>2 DEF NoReply
  <2> QED BY <2>1, <2>2
<1> QED BY <1>2, <1>3, <1>4 DEF Next

\* Where a reply and the first two states of a request leave it.
LEMMA NewPlaces ==
    ASSUME GatewayInv, NEW r \in Requests
    PROVE  /\ \A code, truth : Send(r, code, truth) =>
                 /\ req'[r].at = "done"
                 /\ sent' = [to |-> {r}, code |-> code, truth |-> truth]
           /\ \A q : Move(r, q) => req'[r] = q /\ sent'.to = {}
<1>1. req \in [Requests -> States]
  BY DEF GatewayInv, TypeInv
<1> QED BY <1>1, Over DEF Send, Move, NoReply

\* Only a judged token gets a request to the entitlement stage.
LEMMA ToTheRow ==
    ASSUME GatewayInv, NEW r \in Requests, Stages(r),
           req[r].at # "row", req'[r].at = "row"
    PROVE  \/ KeysFresh /\ req[r].caller \in jwks.doc
           \/ req[r].at = "keys_back" /\ req[r].caller \in req[r].doc
<1>1. \A code, truth : ~ Send(r, code, truth)
  BY NewPlaces
<1>2. \A q : q.at # "row" => ~ Move(r, q)
  BY NewPlaces
<1>3. req[r] \in States
  BY DEF GatewayInv, TypeInv
<1>4. CASE Arrive(r)
  <2>1. PICK caller \in Callers, tier \in Tiers :
           Move(r, IF tier = 0 THEN Allowed ELSE Enter(caller, tier))
    BY <1>4 DEF Arrive
  <2>2. Allowed.at # "row" /\ Enter(caller, tier).at # "row"
    BY Over DEF Enter
  <2> QED BY <1>2, <2>1, <2>2
<1>5. CASE LookUp(r)
  <2>1. ~ AskKeys(r, FALSE) /\ ~ AskKeys(r, TRUE)
    BY <1>2, Asking DEF AskKeys
  <2> QED BY <1>5, <2>1 DEF LookUp
<1>6. CASE StoreKeys(r)
  <2>1. ~ AskKeys(r, TRUE) /\ ~ Reply(r, "clerk_unauthorized")
    BY <1>1, <1>2, Asking DEF AskKeys, Reply
  <2> QED BY <1>6, <2>1 DEF StoreKeys
<1>7. CASE ServeKeys(r)
  <2>1. [req[r] EXCEPT !.at = "keys_back", !.doc = published].at = "keys_back"
    BY <1>3 DEF States
  <2> QED BY <1>2, <1>7, <2>1 DEF ServeKeys
<1>8. CASE ReadRow(r)
  BY <1>8 DEF ReadRow
<1>9. CASE ServePlan(r)
  <2>1. \A s : [req[r] EXCEPT !.at = "plan_back", !.snap = s].at = "plan_back"
    BY <1>3 DEF States
  <2> QED BY <1>2, <1>9, <2>1 DEF ServePlan
<1>10. CASE StorePlan(r)
  BY <1>1, <1>2, <1>10, Over DEF StorePlan, Decide, Reply
<1>11. CASE Limit(r)
  <2>1. [req[r] EXCEPT !.at = "handler"].at = "handler"
    BY <1>3 DEF States
  <2> QED BY <1>1, <1>2, <1>11, <2>1 DEF Limit, Reply
<1>12. CASE TurnedAway(r) \/ NoToken(r) \/ KeysFail(r) \/ PlanFails(r) \/ Handle(r)
  BY <1>1, <1>12 DEF TurnedAway, NoToken, KeysFail, PlanFails, Handle, Reply
<1> QED BY <1>4, <1>5, <1>6, <1>7, <1>8, <1>9, <1>10, <1>11, <1>12 DEF Stages, Identify, Entitle

\* Whatever the lifetimes and the number of requests that fetch together, a key
\* by which a token is accepted was published less than the cache's life and one
\* fetch ago.
THEOREM KeysAreRecent == Spec => AcceptedByARecentKey
<1>1. ASSUME GatewayInv, [Next]_vars, NEW r \in Requests,
             req[r].at # "row", req'[r].at = "row"
      PROVE  retired[req[r].caller] < JwksTtl + Flight
  <2>1. Stages(r)
    BY <1>1, ByItsStage DEF vars
  <2>2. \A k \in Keys : retired[k] \in Nat
    BY <1>1, GatewayAssumption DEF GatewayInv, TypeInv, KeyAges
  <2>3. CASE KeysFresh /\ req[r].caller \in jwks.doc
    <3>1. retired[req[r].caller] <= jwks.age + Flight /\ jwks.age \in Nat /\ req[r].caller \in Keys
      BY <1>1, <2>3, GatewayAssumption DEF GatewayInv, KeysInv, TypeInv
    <3> QED BY <2>2, <2>3, <3>1, GatewayAssumption DEF KeysFresh
  <2>4. CASE req[r].at = "keys_back" /\ req[r].caller \in req[r].doc
    <3>1. req[r].wait <= Flight /\ req[r].wait \in Nat /\ req[r].caller \in Keys
          /\ retired[req[r].caller] <= req[r].wait
      BY <1>1, <2>4 DEF GatewayInv, RequestInv, Awaits, TypeInv, States
    <3> QED BY <2>2, <3>1, GatewayAssumption
  <2> QED BY <1>1, <2>1, <2>3, <2>4, ToTheRow
<1>2. GatewayInv /\ [Next]_vars =>
        [\A r \in Requests :
            req[r].at # "row" /\ req'[r].at = "row" => retired[req[r].caller] < JwksTtl + Flight]_vars
  BY <1>1
<1> QED BY <1>2, GatewayAlways, PTL DEF Spec, AcceptedByARecentKey

\* What a refusal can come from: a document that has not the key, or a fetch
\* that failed.
LEMMA RefusedBy ==
    ASSUME GatewayInv, NEW r \in Requests, Stages(r),
           sent' = [to |-> {r}, code |-> "clerk_unauthorized", truth |-> "none"]
    PROVE  \/ NoToken(r) /\ req[r].caller \notin Keys
           \/ req[r].at = "clerk" /\ KeysFresh /\ req[r].caller \in jwks.doc
           \/ req[r].at = "keys_back"
           \/ KeysFail(r)
<1>1. \A code, truth : Send(r, code, truth) => code = "clerk_unauthorized" /\ truth = "none"
  BY NewPlaces
<1>2. \A q : ~ Move(r, q)
  BY NewPlaces
<1>3. CASE Arrive(r) \/ TurnedAway(r) \/ ServeKeys(r) \/ ServePlan(r) \/ PlanFails(r) \/ Limit(r)
  <2>1. ~ (Arrive(r) \/ ServeKeys(r) \/ ServePlan(r))
    BY <1>2 DEF Arrive, ServeKeys, ServePlan
  <2>2. ~ TurnedAway(r)
    BY <1>1 DEF TurnedAway, Reply
  <2>3. ~ PlanFails(r)
    BY <1>1 DEF PlanFails, Reply
  <2>4. ~ Limit(r)
    BY <1>1, <1>2 DEF Limit, Reply
  <2> QED BY <1>3, <2>1, <2>2, <2>3, <2>4
<1>4. CASE NoToken(r)
  BY <1>4 DEF NoToken
<1>5. CASE LookUp(r)
  BY <1>2, <1>5 DEF LookUp, AskKeys
<1>6. CASE StoreKeys(r)
  BY <1>6 DEF StoreKeys
<1>7. CASE ReadRow(r) \/ StorePlan(r)
  BY <1>1, <1>2, <1>7 DEF ReadRow, StorePlan, Decide, AskPlan, Reply
<1>8. CASE Handle(r)
  <2>1. ~ Reply(r, "answered")
    BY <1>1 DEF Reply
  <2>2. PICK call \in Calls : \E code \in Tagged(Answer(call)) : Send(r, code, Truth(call))
    BY <1>8, <2>1 DEF Handle, ModelAnswers, Answer
  <2>3. Truth(call) = "none"
    BY <1>1, <2>2
  <2> QED BY <2>3, AllTold DEF Tells
<1> QED BY <1>3, <1>4, <1>5, <1>6, <1>7, <1>8 DEF Stages, Identify, Entitle

\* Whatever the keys, the requests and the order their documents are stored in,
\* who holds a key Clerk has published all the while is not turned away for
\* want of it.
THEOREM RotationSignsNoOneOut == Spec => PublishedKeyNeverRefused
<1> DEFINE Kept(r) == \/ KeysFail(r)
                      \/ req[r].caller \in req[r].doc
                      \/ req[r].at = "clerk" /\ KeysFresh /\ req[r].caller \in jwks.doc
<1>1. ASSUME GatewayInv, Next, NEW r \in Requests, req[r].known,
             sent' = [to |-> {r}, code |-> "clerk_unauthorized", truth |-> "none"]
      PROVE  Kept(r)
  <2>1. Stages(r)
    BY <1>1, ByItsStage
  <2>2. req[r].caller \in Keys /\ (req[r].at = "keys_back" => req[r].caller \in req[r].doc)
    BY <1>1 DEF GatewayInv, TypeInv, RequestInv
  <2> QED BY <1>1, <2>1, <2>2, RefusedBy
<1>2. GatewayInv /\ [Next]_vars =>
        [\A r \in Requests :
            req[r].known /\ sent' = [to |-> {r}, code |-> "clerk_unauthorized", truth |-> "none"] =>
                Kept(r)]_vars
  BY <1>1
<1> QED BY <1>2, GatewayAlways, PTL DEF Spec, PublishedKeyNeverRefused

\* What lets a request through, or refuses it for its tier: a row that is
\* fresh, or a snapshot that has come.
LEMMA DecidedBy ==
    ASSUME GatewayInv, NEW r \in Requests, Stages(r),
           \/ req[r].at \in Awaits /\ req'[r].at = "allowed"
           \/ sent'.to = {r} /\ sent'.code = "entitlement_forbidden"
    PROVE  \/ req[r].at = "row" /\ Fresh(row, req[r].wait) /\ Decide(r, row.rank)
           \/ req[r].at = "plan_back" /\ Decide(r, req[r].snap.rank)
<1>1. \A code, truth : Send(r, code, truth) => code = "entitlement_forbidden"
  BY NewPlaces
<1>2. \A q : Move(r, q) => req[r].at \in Awaits /\ q.at = "allowed"
  BY NewPlaces
<1>3. req[r] \in States
  BY DEF GatewayInv, TypeInv
<1>4. CASE Arrive(r)
  BY <1>2, <1>4 DEF Arrive, Awaits
<1>5. CASE TurnedAway(r) \/ NoToken(r) \/ KeysFail(r) \/ PlanFails(r)
  BY <1>1, <1>5 DEF TurnedAway, NoToken, KeysFail, PlanFails, Reply
<1>6. CASE LookUp(r)
  BY <1>1, <1>2, <1>6 DEF LookUp, Judge, AskKeys, Awaits, Reply
<1>7. CASE StoreKeys(r)
  <2>1. ~ AskKeys(r, TRUE)
    BY <1>2, Asking DEF AskKeys
  <2>2. ~ Judge(r)
    BY <1>1, <1>2, Judged DEF Judge, Reply
  <2> QED BY <1>1, <1>7, <2>1, <2>2 DEF StoreKeys, Reply
<1>8. CASE ServeKeys(r)
  <2>1. [req[r] EXCEPT !.at = "keys_back", !.doc = published].at = "keys_back"
    BY <1>3 DEF States
  <2> QED BY <1>2, <1>8, <2>1 DEF ServeKeys
<1>9. CASE ReadRow(r)
  <2>1. ~ AskPlan(r)
    BY <1>2, Asking DEF AskPlan
  <2> QED BY <1>9, <2>1 DEF ReadRow
<1>10. CASE ServePlan(r)
  <2>1. \A s : [req[r] EXCEPT !.at = "plan_back", !.snap = s].at = "plan_back"
    BY <1>3 DEF States
  <2> QED BY <1>2, <1>10, <2>1 DEF ServePlan
<1>11. CASE StorePlan(r)
  BY <1>11 DEF StorePlan
<1>12. CASE Limit(r)
  BY <1>1, <1>2, <1>12 DEF Limit, Reply, Awaits
<1>13. CASE Handle(r)
  <2>1. ~ Reply(r, "answered")
    BY <1>1 DEF Reply
  <2>2. PICK call \in Calls : \E code \in Tagged(Answer(call)) : Send(r, code, Truth(call))
    BY <1>13, <2>1 DEF Handle, ModelAnswers, Answer
  <2>3. Answer(call) = "entitlement_forbidden"
    BY <1>1, <2>2 DEF Tagged
  <2> QED BY <2>3, AllTold DEF Tells
<1> QED BY <1>4, <1>5, <1>6, <1>7, <1>8, <1>9, <1>10, <1>11, <1>12, <1>13 DEF Stages, Identify, Entitle

\* Whatever the plans, the validities Convex states and what the requests wait,
\* a plan that decides was the account's less than the longest validity and the
\* request's wait ago.
THEOREM PlansAreRecent == Spec => DecidedByARecentPlan
<1> DEFINE through(r) == req[r].at \in Awaits /\ req'[r].at = "allowed"
           refused(r) == sent'.to = {r} /\ sent'.code = "entitlement_forbidden"
           Recent(r) == \E p \in Plans : /\ (p >= req[r].tier) = through(r)
                                         /\ lapsed[p] < Longest + req[r].wait
<1>1. ASSUME GatewayInv, Next, NEW r \in Requests, through(r) \/ refused(r)
      PROVE  Recent(r)
  <2>1. Stages(r)
    BY <1>1, ByItsStage DEF Awaits
  <2>2. \/ req[r].at = "row" /\ Fresh(row, req[r].wait) /\ Decide(r, row.rank)
        \/ req[r].at = "plan_back" /\ Decide(r, req[r].snap.rank)
    BY <1>1, <2>1, DecidedBy
  <2>3. ASSUME NEW p \in Plans, Decide(r, p), req[r].at \in Awaits
        PROVE  (p >= req[r].tier) = through(r)
    <3>1. CASE p >= req[r].tier
      BY <1>1, <2>3, <3>1, NewPlaces, Over DEF Decide
    <3>2. CASE ~ (p >= req[r].tier)
      BY <1>1, <2>3, <3>2, NewPlaces DEF Decide, Reply
    <3> QED BY <3>1, <3>2
  <2>4. req[r] \in States /\ RequestInv(req[r])
    BY <1>1 DEF GatewayInv, TypeInv
  <2>5. \A p \in Plans : lapsed[p] \in Nat
    BY <1>1, GatewayAssumption, LongestLasts DEF GatewayInv, TypeInv, PlanAges
  <2>6. req[r].wait \in Nat /\ req[r].snap \in Snapshots /\ row \in Snapshots
    BY <1>1, <2>4 DEF States, GatewayInv, TypeInv
  <2> HIDE DEF through
  <2>7. CASE req[r].at = "row" /\ Fresh(row, req[r].wait) /\ Decide(r, row.rank)
    <3>1. row.rank \in Plans /\ row.left \in Int
      BY <2>6 DEF Snapshots
    <3>2. lapsed[row.rank] + row.left <= Longest
      BY <1>1 DEF GatewayInv, RowInv, Dated
    <3>3. lapsed[row.rank] < Longest + req[r].wait
      BY <2>5, <2>6, <2>7, <3>1, <3>2, LongestLasts DEF Fresh
    <3> QED BY <2>3, <2>7, <3>1, <3>3 DEF Awaits
  <2>8. CASE req[r].at = "plan_back" /\ Decide(r, req[r].snap.rank)
    <3>1. req[r].snap.rank \in Plans
      BY <2>6 DEF Snapshots
    <3>2. lapsed[req[r].snap.rank] <= req[r].wait
      BY <2>4, <2>8 DEF RequestInv
    <3>3. lapsed[req[r].snap.rank] < Longest + req[r].wait
      BY <2>5, <2>6, <3>1, <3>2, LongestLasts, GatewayAssumption
    <3> QED BY <2>3, <2>8, <3>1, <3>3 DEF Awaits
  <2> QED BY <2>2, <2>7, <2>8
<1>2. GatewayInv /\ [Next]_vars => [\A r \in Requests : through(r) \/ refused(r) => Recent(r)]_vars
  BY <1>1
<1> QED BY <1>2, GatewayAlways, PTL DEF Spec, DecidedByARecentPlan

\* An answer of a model's endpoint goes out as it is, or as not modified.
LEMMA SentTells ==
    ASSUME NEW s \in Requests, Stages(s)
    PROVE  \/ sent'.truth = "none"
           \/ \E call \in Calls : \E code \in Tagged(Answer(call)) :
                 sent'.code = code /\ sent'.truth = Truth(call)
<1> DEFINE Told == \/ sent'.truth = "none"
                   \/ \E call \in Calls : \E code \in Tagged(Answer(call)) :
                         sent'.code = code /\ sent'.truth = Truth(call)
<1> SUFFICES Told
  OBVIOUS
<1>1. ASSUME NEW q, Move(s, q) PROVE Told
  BY <1>1 DEF Move, NoReply
<1>2. ASSUME NEW code, Reply(s, code) PROVE Told
  BY <1>2 DEF Reply, Send
<1>3. ASSUME NEW call \in Calls, NEW code \in Tagged(Answer(call)), Send(s, code, Truth(call))
      PROVE  Told
  BY <1>3 DEF Send
<1> HIDE DEF Told
<1>4. CASE Arrive(s) \/ TurnedAway(s) \/ NoToken(s) \/ ServeKeys(s) \/ KeysFail(s)
  BY <1>1, <1>2, <1>4 DEF Arrive, TurnedAway, NoToken, ServeKeys, KeysFail
<1>5. CASE LookUp(s) \/ StoreKeys(s)
  BY <1>1, <1>2, <1>5 DEF LookUp, StoreKeys, Judge, AskKeys
<1>6. CASE ReadRow(s) \/ ServePlan(s) \/ StorePlan(s) \/ PlanFails(s)
  BY <1>1, <1>2, <1>6 DEF ReadRow, ServePlan, StorePlan, PlanFails, Decide, AskPlan
<1>7. CASE Limit(s)
  BY <1>1, <1>2, <1>7 DEF Limit
<1>8. CASE Handle(s)
  BY <1>2, <1>3, <1>8 DEF Handle, ModelAnswers, Answer
<1> QED BY <1>4, <1>5, <1>6, <1>7, <1>8 DEF Stages, Identify, Entitle

\* Of any number of requests, every caller of a model's endpoint is told what is
\* the matter.
THEOREM CallersAreTold == Spec => []ModelFaultsAreTold
<1>1. Init => ModelFaultsAreTold
  BY DEF Init, NoReply, ModelFaultsAreTold
<1>2. ModelFaultsAreTold /\ [Next]_vars => ModelFaultsAreTold'
  <2> SUFFICES ASSUME ModelFaultsAreTold, [Next]_vars PROVE ModelFaultsAreTold'
    OBVIOUS
  <2>1. CASE UNCHANGED vars
    BY <2>1 DEF vars, ModelFaultsAreTold
  <2>2. CASE sent'.truth = "none"
    BY <2>2 DEF ModelFaultsAreTold
  <2>3. ASSUME Rotate \/ ChangePlan \/ Tick PROVE sent'.truth = "none"
    <3>1. sent' = NoReply
      BY <2>3 DEF Rotate, ChangePlan, Tick
    <3> QED BY <3>1 DEF NoReply
  <2>4. ASSUME NEW s \in Requests, Stages(s), sent'.truth # "none" PROVE ModelFaultsAreTold'
    <3>1. PICK call \in Calls : \E code \in Tagged(Answer(call)) :
             sent'.code = code /\ sent'.truth = Truth(call)
      BY <2>4, SentTells
    <3>2. Tells(Answer(call), Truth(call))
      BY AllTold
    <3> QED BY <3>1, <3>2 DEF Tells, Tagged, ModelFaultsAreTold
  <2> QED BY <2>1, <2>2, <2>3, <2>4 DEF Next
<1> QED BY <1>1, <1>2, PTL DEF Spec

==============================================================================
