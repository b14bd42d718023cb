-------------------------- MODULE CorrelationProofs --------------------------
(***************************************************************************)
(* Proofs about Proximity, for every number of signals, every map, every   *)
(* notion of nearness and every grid: the forest never joins signals that  *)
(* no chain of near ones links, and joins all near ones whose cells are of *)
(* one breadth. Neither is inductive alone, since Join hangs one cursor    *)
(* under the other: for the first the cursors have to be on the side of    *)
(* the pair they started from, and the pair has to be near; for the second *)
(* they have to be in the trees of the pair, and the first to be a root.   *)
(*                                                                         *)
(* Then the same for Correlate, where requests put one set of signals after*)
(* another on the grid, some of them without a place, and a timeout can end*)
(* the clustering in the middle of a search.                               *)
(*                                                                         *)
(* Then Signals, for every feed, every list of markets and every bound: the*)
(* events of a tick share out its feed, a story is told once, and a world  *)
(* that has not changed is no news.                                        *)
(*                                                                         *)
(* And last for Correlate that a run which sees more finds no less.        *)
(***************************************************************************)
EXTENDS Correlate, Signals, FiniteSetTheorems, SequenceTheorems, WellFoundedInduction, TLAPS

\* The sets of signals that no pair near enough in touching cells straddles.
LinkedRegions ==
    {S \in SUBSET Ids : \A i, j \in Ids :
        Near(place[i], place[j]) /\ Touch(place[i], place[j]) => (i \in S <=> j \in S)}

NoneStray == \A S \in LinkedRegions : \A i \in Ids : i \in S <=> parent[i] \in S

\* A search is on the side of every region where its signal is, and the pair
\* searched for is near and touches, as those to come do.
SearchInRegion ==
    /\ \A p \in todo : Touch(place[p[1]], place[p[2]])
    /\ phase # "scan" =>
        /\ Near(place[pair[1]], place[pair[2]]) /\ Touch(place[pair[1]], place[pair[2]])
        /\ \A S \in LinkedRegions : /\ pair[1] \in S <=> at[1] \in S
                                    /\ pair[2] \in S <=> at[2] \in S

ClusterInv == TypeOK /\ NoneStray /\ SearchInRegion

\* The initial state is well typed.
LEMMA TypeInit == Init => TypeOK
BY DEF Init, TypeOK

\* Every step keeps the types.
LEMMA TypeStep == TypeOK /\ [Next]_vars => TypeOK'
<1> SUFFICES ASSUME TypeOK, [Next]_vars PROVE TypeOK'
  OBVIOUS
<1> USE DEF TypeOK
<1>1. CASE Compare
  <2>1. PICK p \in todo :
           /\ todo' = todo \ {p}
           /\ IF Near(place[p[1]], place[p[2]])
              THEN pair' = p /\ at' = p /\ phase' = "first"
              ELSE UNCHANGED <<pair, at, phase>>
    BY <1>1 DEF Compare
  <2>2. phase = "scan" /\ UNCHANGED <<place, parent>>
    BY <1>1 DEF Compare
  <2>3. p \in Ids \X Ids
    OBVIOUS
  <2> QED BY <2>1, <2>2, <2>3
<1>2. ASSUME NEW k \in {1, 2}, phase \in {"first", "second"}, Halve(k) PROVE TypeOK'
  <2>1. at[k] \in Ids /\ parent[at[k]] \in Ids /\ parent[parent[at[k]]] \in Ids
    BY <1>2
  <2>2. parent' \in [Ids -> Ids]
    BY <1>2, <2>1 DEF Halve
  <2>3. at' \in Ids \X Ids
    BY <1>2, <2>1 DEF Halve
  <2> QED BY <1>2, <2>2, <2>3 DEF Halve
<1>3. CASE FindFirst
  <2>1. CASE Halve(1)
    BY <1>2, <1>3, <2>1 DEF FindFirst
  <2>2. CASE phase' = "second" /\ UNCHANGED <<place, parent, todo, pair, at>>
    BY <1>3, <2>2 DEF FindFirst
  <2> QED BY <1>3, <2>1, <2>2 DEF FindFirst
<1>4. CASE FindSecond
  BY <1>2, <1>4 DEF FindSecond
<1>5. CASE Join
  BY <1>5 DEF Join
<1>6. CASE UNCHANGED vars
  BY <1>6 DEF vars
<1> QED BY <1>1, <1>3, <1>4, <1>5, <1>6 DEF Next

\* Cursors and parents are signals at every moment.
THEOREM TypeCorrect == Spec => []TypeOK
BY TypeInit, TypeStep, PTL DEF Spec

\* The signals do not move, so the regions stay.
LEMMA RegionsConstant == [Next]_vars => LinkedRegions' = LinkedRegions
<1> SUFFICES ASSUME [Next]_vars PROVE place' = place
  BY DEF LinkedRegions
<1> QED BY DEF Next, vars, Compare, FindFirst, FindSecond, Halve, Join

\* In the initial state every signal is its own tree.
LEMMA ClusterInit == Init => ClusterInv
BY TypeInit DEF Init, ClusterInv, NoneStray, SearchInRegion

\* Halving a path keeps every signal on the side of its parent, and the cursor
\* on the side where it was.
LEMMA HalveStep ==
    ASSUME ClusterInv, NEW k \in {1, 2}, phase \in {"first", "second"}, Halve(k)
    PROVE  NoneStray' /\ SearchInRegion'
<1>1. at \in Ids \X Ids /\ at[k] \in Ids /\ parent \in [Ids -> Ids]
  BY DEF ClusterInv, TypeOK
<1>2. parent[at[k]] \in Ids /\ parent[parent[at[k]]] \in Ids
  BY <1>1
<1>3. \A S \in LinkedRegions : at[k] \in S <=> parent[parent[at[k]]] \in S
  BY <1>1, <1>2 DEF ClusterInv, NoneStray
<1>4. LinkedRegions' = LinkedRegions
  BY DEF Halve, LinkedRegions
<1>5. NoneStray'
  BY <1>1, <1>2, <1>3, <1>4 DEF ClusterInv, NoneStray, Halve
<1>6. /\ phase' = phase /\ pair' = pair /\ place' = place /\ todo' = todo
      /\ at' = [at EXCEPT ![k] = parent[parent[at[k]]]]
  BY DEF Halve
<1>7. SearchInRegion'
  <2>1. k = 1 => at'[1] = parent[parent[at[1]]] /\ at'[2] = at[2]
    BY <1>1, <1>6
  <2>2. k = 2 => at'[2] = parent[parent[at[2]]] /\ at'[1] = at[1]
    BY <1>1, <1>6
  <2>3. ASSUME NEW S \in LinkedRegions'
        PROVE  (pair'[1] \in S <=> at'[1] \in S) /\ (pair'[2] \in S <=> at'[2] \in S)
    BY <1>3, <1>4, <1>6, <2>1, <2>2, <2>3 DEF ClusterInv, SearchInRegion
  <2> QED BY <1>6, <2>3 DEF ClusterInv, SearchInRegion
<1> QED BY <1>5, <1>7

\* Every step keeps the invariant.
LEMMA ClusterStep == ClusterInv /\ [Next]_vars => ClusterInv'
<1> SUFFICES ASSUME ClusterInv, [Next]_vars PROVE NoneStray' /\ SearchInRegion'
  BY TypeStep DEF ClusterInv
<1>1. LinkedRegions' = LinkedRegions
  BY RegionsConstant
<1>2. CASE Compare
  <2>1. NoneStray'
    BY <1>1, <1>2 DEF Compare, ClusterInv, NoneStray
  <2>2. PICK p \in todo :
           /\ todo' = todo \ {p}
           /\ IF Near(place[p[1]], place[p[2]])
              THEN pair' = p /\ at' = p /\ phase' = "first"
              ELSE UNCHANGED <<pair, at, phase>>
    BY <1>2 DEF Compare
  <2>3. phase = "scan" /\ place' = place
    BY <1>2 DEF Compare
  <2>4. \A q \in todo : Touch(place[q[1]], place[q[2]])
    BY DEF ClusterInv, SearchInRegion
  <2>5. SearchInRegion'
    BY <2>2, <2>3, <2>4 DEF SearchInRegion
  <2> QED BY <2>1, <2>5
<1>3. CASE FindFirst
  <2>1. CASE Halve(1)
    BY <1>3, <2>1, HalveStep DEF FindFirst
  <2>2. CASE phase' = "second" /\ UNCHANGED <<place, parent, todo, pair, at>>
    BY <1>1, <1>3, <2>2 DEF FindFirst, ClusterInv, NoneStray, SearchInRegion
  <2> QED BY <1>3, <2>1, <2>2 DEF FindFirst
<1>4. CASE FindSecond
  BY <1>4, HalveStep DEF FindSecond
<1>5. CASE Join
  <2>1. /\ phase = "second" /\ pair \in Ids \X Ids /\ at \in Ids \X Ids
        /\ parent \in [Ids -> Ids]
    BY <1>5 DEF Join, ClusterInv, TypeOK
  <2>2. \A S \in LinkedRegions : at[1] \in S <=> at[2] \in S
    BY <2>1 DEF ClusterInv, SearchInRegion, LinkedRegions
  <2>3. NoneStray'
    BY <1>1, <1>5, <2>1, <2>2 DEF Join, ClusterInv, NoneStray
  <2>4. SearchInRegion'
    BY <1>5 DEF Join, ClusterInv, SearchInRegion
  <2> QED BY <2>3, <2>4
<1>6. CASE UNCHANGED vars
  BY <1>1, <1>6 DEF vars, ClusterInv, NoneStray, SearchInRegion
<1> QED BY <1>2, <1>3, <1>4, <1>5, <1>6 DEF Next

\* What no near pair straddles, none in touching cells does.
LEMMA StrayNoStranger == ClusterInv => NoStrangers
<1> SUFFICES ASSUME ClusterInv PROVE NoStrangers
  OBVIOUS
<1>1. Regions \subseteq LinkedRegions
  BY DEF Regions, LinkedRegions
<1> QED BY <1>1 DEF ClusterInv, NoneStray, NoStrangers

\* Two signals of one tree are linked by a chain of near ones, whatever order
\* the hash map hands the pairs out in.
THEOREM ClustersAreLinked == Spec => []NoStrangers
<1>1. Spec => []ClusterInv
  BY ClusterInit, ClusterStep, PTL DEF Spec
<1>2. ClusterInv => NoStrangers
  BY StrayNoStranger
<1> QED BY <1>1, <1>2, PTL


\* A search is in the tree of its signal, and the first ends at a root.
SearchInTree ==
    /\ phase # "scan" =>
          \A S \in Trees : /\ pair[1] \in S <=> at[1] \in S
                           /\ pair[2] \in S <=> at[2] \in S
    /\ phase = "second" => parent[at[1]] = at[1]

Pending(p) == p \in todo \/ (phase # "scan" /\ pair = p)

\* Every near pair of touching cells that has been dealt with is in one tree.
DealtWith ==
    \A S \in Trees : \A i, j \in Ids :
        i < j /\ Near(place[i], place[j]) /\ Touch(place[i], place[j])
              /\ ~ Pending(<<i, j>>) => (i \in S <=> j \in S)

JoinInv == TypeOK /\ SearchInTree /\ DealtWith

\* In the initial state every pair of touching cells is pending.
LEMMA JoinInit == Init => JoinInv
<1> SUFFICES ASSUME Init PROVE JoinInv
  OBVIOUS
<1>1. TypeOK
  BY TypeInit
<1>2. SearchInTree
  BY DEF Init, SearchInTree
<1>3. ASSUME NEW i \in Ids, NEW j \in Ids, i < j, Touch(place[i], place[j])
      PROVE  Pending(<<i, j>>)
  <2>1. <<i, j>> \in Ids \X Ids /\ <<i, j>>[1] = i /\ <<i, j>>[2] = j
    OBVIOUS
  <2> QED BY <1>3, <2>1 DEF Init, Pending
<1>4. DealtWith
  BY <1>3 DEF DealtWith
<1> QED BY <1>1, <1>2, <1>4 DEF JoinInv

\* Halving a path changes no tree.
LEMMA HalveTrees ==
    ASSUME JoinInv, NEW k \in {1, 2}, phase \in {"first", "second"}, Halve(k)
    PROVE  /\ Trees' \subseteq Trees
           /\ \A S \in Trees : at[k] \in S <=> parent[parent[at[k]]] \in S
<1>1. at \in Ids \X Ids /\ at[k] \in Ids /\ parent \in [Ids -> Ids]
  BY DEF JoinInv, TypeOK
<1>2. parent[at[k]] \in Ids /\ parent[parent[at[k]]] \in Ids
  BY <1>1
<1>3. \A S \in Trees : at[k] \in S <=> parent[parent[at[k]]] \in S
  BY <1>1, <1>2 DEF Trees
<1>4. parent[at[k]] # at[k] /\ parent' = [parent EXCEPT ![at[k]] = parent[parent[at[k]]]]
  BY DEF Halve
<1>5. \A i \in Ids : i # at[k] => parent'[i] = parent[i]
  BY <1>1, <1>4
<1>6. parent'[at[k]] = parent[parent[at[k]]]
  BY <1>1, <1>4
<1>7. parent'[parent[at[k]]] = parent[parent[at[k]]]
  BY <1>2, <1>4, <1>5
<1>8. ASSUME NEW S \in Trees' PROVE S \in Trees
  <2>1. S \in SUBSET Ids /\ \A i \in Ids : i \in S <=> parent'[i] \in S
    BY <1>8 DEF Trees
  <2>2. at[k] \in S <=> parent[at[k]] \in S
    BY <1>1, <1>2, <1>6, <1>7, <2>1
  <2>3. ASSUME NEW i \in Ids PROVE i \in S <=> parent[i] \in S
    BY <1>5, <2>1, <2>2
  <2> QED BY <2>1, <2>3 DEF Trees
<1> QED BY <1>3, <1>8

LEMMA HalveJoin ==
    ASSUME JoinInv, NEW k \in {1, 2}, phase = (IF k = 1 THEN "first" ELSE "second"),
           Halve(k)
    PROVE  SearchInTree' /\ DealtWith'
<1>1. /\ phase' = phase /\ pair' = pair /\ place' = place /\ todo' = todo
      /\ at' = [at EXCEPT ![k] = parent[parent[at[k]]]]
      /\ parent[at[k]] # at[k]
      /\ parent' = [parent EXCEPT ![at[k]] = parent[parent[at[k]]]]
  BY DEF Halve
<1>2. /\ at \in Ids \X Ids /\ at[1] \in Ids /\ at[2] \in Ids /\ parent \in [Ids -> Ids]
      /\ phase \in {"first", "second"}
  BY DEF JoinInv, TypeOK
<1>3. Trees' \subseteq Trees
  BY <1>2, HalveTrees
<1>4. \A S \in Trees : at[k] \in S <=> parent[parent[at[k]]] \in S
  BY <1>2, HalveTrees
<1>5. k = 1 => at'[1] = parent[parent[at[1]]] /\ at'[2] = at[2]
  BY <1>1, <1>2
<1>6. k = 2 => at'[2] = parent[parent[at[2]]] /\ at'[1] = at[1]
  BY <1>1, <1>2
<1>7. phase' = "second" => parent'[at'[1]] = at'[1]
  BY <1>1, <1>2, <1>6 DEF JoinInv, SearchInTree
<1>8. ASSUME NEW S \in Trees'
      PROVE  (pair'[1] \in S <=> at'[1] \in S) /\ (pair'[2] \in S <=> at'[2] \in S)
  BY <1>1, <1>2, <1>3, <1>4, <1>5, <1>6 DEF JoinInv, SearchInTree
<1>9. DealtWith'
  BY <1>1, <1>3 DEF JoinInv, DealtWith, Pending
<1> QED BY <1>7, <1>8, <1>9 DEF SearchInTree

\* Every step keeps the second invariant.
LEMMA JoinStep == JoinInv /\ [Next]_vars => JoinInv'
<1> SUFFICES ASSUME JoinInv, [Next]_vars PROVE SearchInTree' /\ DealtWith'
  BY TypeStep DEF JoinInv
<1>1. CASE Compare
  <2>1. PICK p \in todo :
           /\ todo' = todo \ {p}
           /\ IF Near(place[p[1]], place[p[2]])
              THEN pair' = p /\ at' = p /\ phase' = "first"
              ELSE UNCHANGED <<pair, at, phase>>
    BY <1>1 DEF Compare
  <2>2. phase = "scan" /\ place' = place /\ parent' = parent /\ Trees' = Trees
    BY <1>1 DEF Compare, Trees
  <2>3. SearchInTree'
    BY <2>1, <2>2 DEF SearchInTree
  <2>4. ASSUME NEW i \in Ids, NEW j \in Ids, Near(place[i], place[j]),
               ~ Pending(<<i, j>>)'
        PROVE  ~ Pending(<<i, j>>)
    <3>1. <<i, j>>[1] = i /\ <<i, j>>[2] = j
      OBVIOUS
    <3>2. CASE <<i, j>> = p
      BY <2>1, <2>4, <3>1, <3>2 DEF Pending
    <3>3. CASE <<i, j>> # p
      BY <2>1, <2>2, <2>4, <3>3 DEF Pending
    <3> QED BY <3>2, <3>3
  <2>5. DealtWith'
    BY <2>2, <2>4 DEF JoinInv, DealtWith
  <2> QED BY <2>3, <2>5
<1>2. CASE FindFirst
  <2>1. CASE Halve(1)
    BY <1>2, <2>1, HalveJoin DEF FindFirst
  <2>2. CASE parent[at[1]] = at[1] /\ phase' = "second"
             /\ UNCHANGED <<place, parent, todo, pair, at>>
    <3>1. phase = "first" /\ Trees' = Trees
      BY <1>2, <2>2 DEF FindFirst, Trees
    <3> QED BY <2>2, <3>1 DEF JoinInv, SearchInTree, DealtWith, Pending
  <2> QED BY <1>2, <2>1, <2>2 DEF FindFirst
<1>3. CASE FindSecond
  BY <1>3, HalveJoin DEF FindSecond
<1>4. CASE Join
  <2>1. /\ phase = "second" /\ pair \in Ids \X Ids /\ at \in Ids \X Ids
        /\ parent \in [Ids -> Ids] /\ parent[at[1]] = at[1]
    BY <1>4 DEF Join, JoinInv, TypeOK, SearchInTree
  <2>2. /\ parent' = [parent EXCEPT ![at[1]] = at[2]]
        /\ phase' = "scan" /\ place' = place /\ todo' = todo
    BY <1>4 DEF Join
  <2>3. ASSUME NEW S \in Trees' PROVE S \in Trees /\ (at[1] \in S <=> at[2] \in S)
    <3>1. S \in SUBSET Ids /\ \A i \in Ids : i \in S <=> parent'[i] \in S
      BY <2>3 DEF Trees
    <3>2. at[1] \in S <=> at[2] \in S
      BY <2>1, <2>2, <3>1
    <3>3. ASSUME NEW i \in Ids PROVE i \in S <=> parent[i] \in S
      BY <2>1, <2>2, <3>1
    <3> QED BY <3>1, <3>2, <3>3 DEF Trees
  <2>4. ASSUME NEW S \in Trees' PROVE pair[1] \in S <=> pair[2] \in S
    BY <2>1, <2>3 DEF JoinInv, SearchInTree
  <2>5. ASSUME NEW S \in Trees', NEW i \in Ids, NEW j \in Ids, i < j,
               Near(place[i], place[j]), Touch(place[i], place[j]),
               ~ Pending(<<i, j>>)'
        PROVE  i \in S <=> j \in S
    <3>1. CASE pair = <<i, j>>
      BY <2>4, <3>1
    <3>2. CASE pair # <<i, j>>
      BY <2>2, <2>3, <2>5, <3>2 DEF JoinInv, DealtWith, Pending
    <3> QED BY <3>1, <3>2
  <2>6. DealtWith'
    BY <2>2, <2>5 DEF DealtWith
  <2> QED BY <2>2, <2>6 DEF SearchInTree
<1>5. CASE UNCHANGED vars
  BY <1>5 DEF vars, JoinInv, SearchInTree, DealtWith, Pending, Trees
<1> QED BY <1>1, <1>2, <1>3, <1>4, <1>5 DEF Next

\* When all pairs are dealt with, near signals in cells of one breadth are in
\* one tree.
LEMMA DealtWithTogether == JoinInv => LevelTogether
<1> SUFFICES ASSUME JoinInv, Finished, NEW S \in Trees, NEW i \in Ids, NEW j \in Ids,
                    Near(place[i], place[j]), Breadth(place[i]) = Breadth(place[j])
             PROVE  i \in S <=> j \in S
  BY DEF LevelTogether
<1>1. place[i] \in Places /\ place[j] \in Places
  BY DEF JoinInv, TypeOK
<1>2. Near(place[j], place[i])
  BY <1>1, NearAssumption
<1>3. Touch(place[i], place[j]) /\ Touch(place[j], place[i])
  BY <1>1, <1>2, NearAssumption DEF Touch, Adjacent
<1>4. ~ Pending(<<i, j>>) /\ ~ Pending(<<j, i>>)
  BY DEF Finished, Pending
<1>5. i < j \/ j < i \/ i = j
  BY NAssumption DEF Ids
<1> QED BY <1>2, <1>3, <1>4, <1>5 DEF JoinInv, DealtWith

\* The grid loses no pair at latitudes with cells of one breadth.
THEOREM NearOnesJoined == Spec => []LevelTogether
BY JoinInit, JoinStep, DealtWithTogether, PTL DEF Spec

(***************************************************************************)
(* The engine around it                                                    *)
(***************************************************************************)
\* Between two requests nothing is on the grid.
EngineInv == ClusterInv /\ JoinInv /\ (request = Idle => AtRest)

\* A cleared grid satisfies both invariants, whatever places are put on it as
\* long as the pairs that touch are pending.
LEMMA FreshGrid ==
    ASSUME place' \in [Ids -> Places], parent' = [i \in Ids |-> i], todo' \subseteq Ids \X Ids,
           phase' = "scan", pair' = <<0, 0>>, at' = <<0, 0>>,
           \A p \in todo' : Touch(place'[p[1]], place'[p[2]]),
           \A i, j \in Ids : i < j /\ Near(place'[i], place'[j]) /\ Touch(place'[i], place'[j])
                               => <<i, j>> \in todo'
    PROVE  ClusterInv' /\ JoinInv'
<1>1. TypeOK'
  BY DEF TypeOK
<1>2. NoneStray' /\ SearchInRegion'
  BY DEF NoneStray, SearchInRegion
<1>3. SearchInTree' /\ DealtWith'
  BY DEF SearchInTree, DealtWith, Pending
<1> QED BY <1>1, <1>2, <1>3 DEF ClusterInv, JoinInv

\* A request is accepted: a signal without a place is near nothing, so the pairs
\* left out need not be compared.
LEMMA AcceptStep ==
    ASSUME EngineInv, request = Idle, NEW r \in Requests, Accept(r)
    PROVE  ClusterInv' /\ JoinInv'
<1> DEFINE put == [i \in Ids |-> IF i <= Len(r.rows) /\ Mode(r) = "geographic"
                                 THEN r.rows[i].place ELSE Nowhere]
<1>1. put \in [Ids -> Places]
  <2>1. r.rows \in Seq(SignalEvidences)
    BY RequestsAssumption
  <2>2. ASSUME NEW i \in Ids, i <= Len(r.rows) PROVE r.rows[i].place \in Places
    <3>1. r.rows[i] \in SignalEvidences
      BY <2>1, <2>2 DEF Ids
    <3> QED BY <3>1 DEF SignalEvidences
  <2> QED BY <2>2, NowhereAssumption
<1>2. /\ place' = put
      /\ todo' = {p \in Ids \X Ids : p[1] < p[2] /\ Nowhere \notin {put[p[1]], put[p[2]]}
                                     /\ Touch(put[p[1]], put[p[2]])}
      /\ UNCHANGED <<parent, phase, pair, at>>
  BY DEF Accept
<1> HIDE DEF put
<1>3. AtRest
  BY DEF EngineInv
<1>4. ASSUME NEW i \in Ids, NEW j \in Ids, i < j, Near(put[i], put[j]), Touch(put[i], put[j])
      PROVE  <<i, j>> \in todo'
  <2>1. put[i] \in Places /\ put[j] \in Places
    BY <1>1
  <2>2. Nowhere \notin {put[i], put[j]}
    BY <1>4, <2>1, NowhereAssumption
  <2>3. <<i, j>> \in Ids \X Ids /\ <<i, j>>[1] = i /\ <<i, j>>[2] = j
    OBVIOUS
  <2> QED BY <1>2, <1>4, <2>2, <2>3
<1>5. todo' \subseteq Ids \X Ids /\ \A p \in todo' : Touch(place'[p[1]], place'[p[2]])
  BY <1>2
<1>6. /\ parent' = [i \in Ids |-> i] /\ phase' = "scan" /\ pair' = <<0, 0>> /\ at' = <<0, 0>>
      /\ place' \in [Ids -> Places]
  BY <1>1, <1>2, <1>3 DEF AtRest
<1>7. \A i, j \in Ids : i < j /\ Near(place'[i], place'[j]) /\ Touch(place'[i], place'[j])
                          => <<i, j>> \in todo'
  BY <1>2, <1>4
<1> QED BY <1>5, <1>6, <1>7, FreshGrid

\* A run that ends, in time or not, leaves a cleared grid.
LEMMA RestStep ==
    ASSUME Rest
    PROVE  ClusterInv' /\ JoinInv' /\ AtRest'
<1>1. place' \in [Ids -> Places] /\ \A i, j \in Ids : ~ Near(place'[i], place'[j])
  BY NowhereAssumption DEF Rest
<1> QED BY <1>1, FreshGrid DEF Rest, AtRest

LEMMA EngineStep == EngineInv /\ [EngineNext]_allVars => EngineInv'
<1> SUFFICES ASSUME EngineInv, [EngineNext]_allVars PROVE EngineInv'
  OBVIOUS
<1>1. CASE UNCHANGED <<request, vars>>
  <2>1. ClusterInv' /\ JoinInv'
    BY <1>1, ClusterStep, JoinStep DEF EngineInv
  <2>2. AtRest' <=> AtRest
    BY <1>1 DEF AtRest, vars
  <2> QED BY <1>1, <2>1, <2>2 DEF EngineInv
<1>2. ASSUME NEW r \in Requests, request = Idle, Accept(r) PROVE EngineInv'
  <2>1. r # Idle
    <3>1. Len(r.rows) # 0
      BY <1>2, NAssumption DEF Accept
    <3> QED BY <3>1 DEF Idle
  <2>2. request' # Idle
    BY <1>2, <2>1 DEF Accept, Idle
  <2> QED BY <1>2, <2>2, AcceptStep DEF EngineInv
<1>3. CASE Cluster
  <2>1. request' = request /\ request # Idle /\ Next
    BY <1>3 DEF Cluster, engineVars, Next
  <2> QED BY <2>1, ClusterStep, JoinStep DEF EngineInv
<1>4. CASE Report \/ TimeOut
  BY <1>4, RestStep DEF Report, TimeOut, EngineInv
<1>5. ASSUME NEW r \in Requests, Refuse(r) PROVE EngineInv'
  BY <1>1, <1>5 DEF Refuse
<1>6. CASE Renew \/ UNCHANGED allVars
  BY <1>1, <1>6 DEF Renew, allVars, engineVars
<1> QED BY <1>2, <1>3, <1>4, <1>5, <1>6 DEF EngineNext

LEMMA EngineStarts == EngineInit => EngineInv
<1> SUFFICES ASSUME EngineInit PROVE EngineInv
  OBVIOUS
<1>1. /\ place \in [Ids -> Places] /\ AtRest
      /\ \A i, j \in Ids : ~ Near(place[i], place[j])
  BY NowhereAssumption DEF EngineInit
<1>2. TypeOK
  BY <1>1 DEF TypeOK, AtRest
<1>3. NoneStray /\ SearchInRegion
  BY <1>1 DEF NoneStray, SearchInRegion, AtRest
<1>4. SearchInTree /\ DealtWith
  BY <1>1 DEF SearchInTree, DealtWith, AtRest
<1> QED BY <1>1, <1>2, <1>3, <1>4 DEF EngineInv, ClusterInv, JoinInv

LEMMA EngineAlways == EngineSpec => []EngineInv
BY EngineStarts, EngineStep, PTL DEF EngineSpec

\* Through any sequence of requests, resets and timeouts, the clusters of a run
\* hold only signals of that run that a chain of near ones links.
THEOREM RunsAreLinked == EngineSpec => []NoStrangers
<1>1. EngineInv => NoStrangers
  BY StrayNoStranger DEF EngineInv
<1> QED BY <1>1, EngineAlways, PTL

\* And when the pairs of a run have all been compared, near signals in cells of
\* one breadth are together.
THEOREM RunsAreJoined == EngineSpec => []LevelTogether
<1>1. EngineInv => LevelTogether
  BY DealtWithTogether DEF EngineInv
<1> QED BY <1>1, EngineAlways, PTL

(***************************************************************************)
(* Signals: sums. SumFunction folds over a set in an order the fold        *)
(* chooses; whatever it is, one more adds what it is worth.                *)
(***************************************************************************)
\* A set of naturals that has a member has a least one.
LEMMA MinExists ==
    ASSUME NEW T, T \subseteq Nat, T # {}
    PROVE  Min(T) \in T /\ \A y \in T : Min(T) <= y
<1> DEFINE less == {p \in Nat \X Nat : p[1] < p[2]}
<1>1. IsWellFoundedOn(less, Nat)
  BY NatLessThanWellFounded DEF OpToRel
<1>2. PICK x \in T : \A y \in T : <<y, x>> \notin less
  BY <1>1, WFMin
<1>3. ASSUME NEW y \in T PROVE x <= y
  <2>1. x \in Nat /\ y \in Nat /\ <<y, x>> \in Nat \X Nat
    OBVIOUS
  <2>2. ~ (y < x)
    BY <1>2, <2>1
  <2> QED BY <2>1, <2>2
<1> QED BY <1>2, <1>3 DEF Min

\* T gives the sum of f over each part of D.
Sums(T, f, D) ==
    /\ T \in [SUBSET D -> Nat] /\ T[{}] = 0
    /\ \A s \in SUBSET D : \A x \in s : T[s] = f[x] + T[s \ {x}]

\* A set less one of its members.
LEMMA OneLess ==
    ASSUME NEW s, IsFiniteSet(s), NEW x \in s
    PROVE  /\ IsFiniteSet(s \ {x}) /\ Cardinality(s \ {x}) = Cardinality(s) - 1
           /\ Cardinality(s) \in Nat \ {0} /\ Cardinality(s \ {x}) \in Nat
<1>1. IsFiniteSet(s \ {x}) /\ Cardinality(s \ {x}) = Cardinality(s) - 1
  BY FS_RemoveElement
<1>2. Cardinality(s) \in Nat /\ Cardinality(s \ {x}) \in Nat
  BY <1>1, FS_CardinalityType
<1> QED BY <1>1, <1>2

LEMMA SumsExist ==
    ASSUME NEW D, IsFiniteSet(D), NEW f \in [D -> Nat]
    PROVE  \E T : Sums(T, f, D)
<1> DEFINE upTo(T, n) == /\ T \in [SUBSET D -> Nat] /\ T[{}] = 0
                         /\ \A s \in SUBSET D : Cardinality(s) <= n =>
                               \A x \in s : T[s] = f[x] + T[s \ {x}]
           bad == {n \in Nat : ~ \E T : upTo(T, n)}
<1>1. \A s \in SUBSET D : IsFiniteSet(s) /\ Cardinality(s) \in Nat /\ Cardinality(s) <= Cardinality(D)
  BY FS_Subset, FS_CardinalityType
<1>2. \A s \in SUBSET D : \A x \in s :
         /\ s \ {x} \in SUBSET D /\ Cardinality(s \ {x}) = Cardinality(s) - 1
         /\ Cardinality(s) \in Nat \ {0}
  BY <1>1, OneLess
<1>3. \E T : upTo(T, 0)
  <2> DEFINE T == [s \in SUBSET D |-> 0]
  <2>1. ASSUME NEW s \in SUBSET D, Cardinality(s) <= 0, NEW x \in s PROVE FALSE
    <3>1. Cardinality(s) \in Nat \ {0}
      BY <1>2
    <3> QED BY <2>1, <3>1
  <2>2. T \in [SUBSET D -> Nat] /\ T[{}] = 0
    OBVIOUS
  <2> HIDE DEF T
  <2>3. upTo(T, 0)
    BY <2>1, <2>2
  <2> HIDE DEF upTo
  <2> QED BY <2>3
<1>4. ASSUME NEW n \in Nat, NEW T, upTo(T, n) PROVE \E U : upTo(U, n + 1)
  <2> DEFINE c(s) == CHOOSE x \in s : TRUE
             U == [s \in SUBSET D |-> IF Cardinality(s) <= n \/ s = {} THEN T[s]
                                      ELSE f[c(s)] + T[s \ {c(s)}]]
  <2>1. \A s \in SUBSET D : s # {} => c(s) \in s
    OBVIOUS
  <2> HIDE DEF c
  <2>2. U \in [SUBSET D -> Nat] /\ U[{}] = 0
    <3>1. \A s \in SUBSET D : s # {} => f[c(s)] + T[s \ {c(s)}] \in Nat
      BY <1>4, <2>1
    <3> QED BY <3>1, <1>4
  <2>3. ASSUME NEW s \in SUBSET D, Cardinality(s) <= n + 1, NEW x \in s
        PROVE  U[s] = f[x] + U[s \ {x}]
    <3>1. /\ s \ {x} \in SUBSET D /\ Cardinality(s \ {x}) = Cardinality(s) - 1
          /\ Cardinality(s) \in Nat \ {0}
      BY <1>2
    <3>2. U[s \ {x}] = T[s \ {x}]
      BY <2>3, <3>1
    <3>3. CASE Cardinality(s) <= n
      BY <1>4, <3>1, <3>2, <3>3
    <3>4. CASE ~ (Cardinality(s) <= n)
      <4>1. U[s] = f[c(s)] + T[s \ {c(s)}] /\ c(s) \in s
        BY <2>1, <3>4
      <4>2. CASE c(s) = x
        BY <3>2, <4>1, <4>2
      <4>3. CASE c(s) # x
        <5>1. /\ s \ {c(s)} \in SUBSET D /\ Cardinality(s \ {c(s)}) = Cardinality(s) - 1
          BY <1>2, <4>1
        <5>2. T[s \ {c(s)}] = f[x] + T[(s \ {c(s)}) \ {x}]
          BY <1>4, <2>3, <3>1, <4>3, <5>1
        <5>6. c(s) \in s \ {x} /\ Cardinality(s \ {x}) <= n
          BY <2>3, <3>1, <4>1, <4>3
        <5>3. T[s \ {x}] = f[c(s)] + T[(s \ {x}) \ {c(s)}]
          BY <1>4, <3>1, <5>6
        <5>4. (s \ {x}) \ {c(s)} = (s \ {c(s)}) \ {x} /\ (s \ {x}) \ {c(s)} \in SUBSET D
          OBVIOUS
        <5>5. f[x] \in Nat /\ f[c(s)] \in Nat /\ T[(s \ {x}) \ {c(s)}] \in Nat
          BY <1>4, <4>1, <5>4
        <5>7. U[s] = f[c(s)] + (f[x] + T[(s \ {x}) \ {c(s)}])
          BY <4>1, <5>2, <5>4
        <5>8. U[s \ {x}] = f[c(s)] + T[(s \ {x}) \ {c(s)}]
          BY <3>2, <5>3
        <5> HIDE DEF U
        <5> QED BY <5>5, <5>7, <5>8
      <4> QED BY <4>2, <4>3
    <3> QED BY <3>3, <3>4
  <2>4. upTo(U, n + 1)
    BY <2>2, <2>3
  <2> HIDE DEF U, upTo
  <2> QED BY <2>4
<1> HIDE DEF upTo
<1>5. bad = {}
  <2>1. SUFFICES ASSUME bad # {} PROVE FALSE
    OBVIOUS
  <2> DEFINE n == Min(bad)
  <2>2. n \in bad /\ \A m \in bad : n <= m
    BY <2>1, MinExists
  <2> HIDE DEF n
  <2>3. n \in Nat /\ n # 0
    BY <1>3, <2>2
  <2>4. n - 1 \in Nat /\ n - 1 \notin bad
    BY <2>2, <2>3
  <2>5. PICK T : upTo(T, n - 1)
    BY <2>4
  <2>6. \E U : upTo(U, (n - 1) + 1)
    BY <1>4, <2>4, <2>5
  <2>7. (n - 1) + 1 = n
    BY <2>3
  <2> QED BY <2>2, <2>6, <2>7
<1>6. Cardinality(D) \in Nat
  BY FS_CardinalityType
<1>7. PICK T : upTo(T, Cardinality(D))
  BY <1>5, <1>6
<1>8. Sums(T, f, D)
  BY <1>1, <1>7 DEF upTo, Sums
<1> QED BY <1>8

\* There is one such function, and it says what SumFunction gives.
LEMMA SumIs ==
    ASSUME NEW D, IsFiniteSet(D), NEW f, DOMAIN f = D, NEW T, Sums(T, f, D)
    PROVE  SumFunction(f) = T[D]
<1> DEFINE c(s) == CHOOSE x \in s : TRUE
           step(g) == [s \in SUBSET D |-> IF s = {} THEN 0 ELSE f[c(s)] + g[s \ {c(s)}]]
           iter == CHOOSE g : g = step(g)
<1>1. T = step(T)
  <2>1. \A s \in SUBSET D : s # {} => c(s) \in s
    OBVIOUS
  <2>2. \A s \in SUBSET D : T[s] = IF s = {} THEN 0 ELSE f[c(s)] + T[s \ {c(s)}]
    BY <2>1 DEF Sums
  <2>3. T = [s \in SUBSET D |-> T[s]]
    BY DEF Sums
  <2> QED BY <2>2, <2>3
<1>2. iter = step(iter)
  <2> HIDE DEF step
  <2> QED BY <1>1
<1>3. SumFunction(f) = iter[D]
  BY DEF SumFunction, SumFunctionOnSet, FoldFunctionOnSet, MapThenFoldSet
<1> HIDE DEF iter
<1>4. \A s \in SUBSET D : IsFiniteSet(s) /\ Cardinality(s) \in Nat
  BY FS_Subset, FS_CardinalityType
<1> DEFINE bad == {n \in Nat : \E s \in SUBSET D : Cardinality(s) = n /\ iter[s] # T[s]}
<1>5. bad = {}
  <2>1. SUFFICES ASSUME bad # {} PROVE FALSE
    OBVIOUS
  <2> DEFINE n == Min(bad)
  <2>2. n \in bad /\ \A m \in bad : n <= m
    BY <2>1, MinExists
  <2> HIDE DEF n
  <2>3. PICK s \in SUBSET D : Cardinality(s) = n /\ iter[s] # T[s]
    BY <2>2
  <2>4. s # {} /\ c(s) \in s
    BY <1>2, <2>3 DEF Sums
  <2>5. Cardinality(s \ {c(s)}) = n - 1 /\ n - 1 \in Nat /\ s \ {c(s)} \in SUBSET D
    BY <1>4, <2>3, <2>4, OneLess
  <2>6. iter[s \ {c(s)}] = T[s \ {c(s)}]
    BY <2>2, <2>5
  <2> QED BY <1>1, <1>2, <2>3, <2>4, <2>6
<1>6. iter[D] = T[D]
  BY <1>4, <1>5
<1> QED BY <1>3, <1>6

LEMMA SumOfNone == ASSUME NEW f, DOMAIN f = {} PROVE SumFunction(f) = 0
<1> DEFINE T == [s \in SUBSET {} |-> 0]
<1>1. Sums(T, f, {}) /\ T[{}] = 0
  BY DEF Sums
<1> HIDE DEF T
<1> QED BY <1>1, SumIs, FS_EmptySet

LEMMA SumType ==
    ASSUME NEW D, IsFiniteSet(D), NEW f \in [D -> Nat]
    PROVE  SumFunction(f) \in Nat
<1>1. PICK T : Sums(T, f, D)
  BY SumsExist
<1>2. T[D] \in Nat
  BY <1>1 DEF Sums
<1> QED BY <1>1, <1>2, SumIs

\* One more adds to the sum what it is worth.
LEMMA SumAdds ==
    ASSUME NEW D, IsFiniteSet(D), NEW x, x \notin D, NEW g \in [D \cup {x} -> Nat],
           NEW f, f = [y \in D |-> g[y]]
    PROVE  SumFunction(g) = g[x] + SumFunction(f) /\ SumFunction(f) \in Nat
<1>1. IsFiniteSet(D \cup {x})
  BY FS_AddElement
<1>2. PICK T : Sums(T, g, D \cup {x})
  BY <1>1, SumsExist
<1> DEFINE U == [s \in SUBSET D |-> T[s]]
<1>3. Sums(U, f, D)
  BY <1>2 DEF Sums
<1>4. SumFunction(f) = T[D]
  BY <1>3, SumIs
<1>5. SumFunction(g) = T[D \cup {x}]
  BY <1>1, <1>2, SumIs
<1>6. (D \cup {x}) \ {x} = D
  OBVIOUS
<1>7. T[D \cup {x}] = g[x] + T[D] /\ T[D] \in Nat
  BY <1>2, <1>6 DEF Sums
<1> QED BY <1>4, <1>5, <1>7

(***************************************************************************)
(* Signals: clustering. Leader is a recursion over positions, solved up to  *)
(* each of them by the least counterexample, as sums are over subsets.     *)
(***************************************************************************)

\* The leaders before a position that it resembles.
Like(feed, lead, n) == {m \in 1 .. n - 1 : lead[m] = m /\ Similar(feed[m], feed[n])}

Joins(feed, lead, n) == IF Like(feed, lead, n) = {} THEN n ELSE Min(Like(feed, lead, n))

\* The recursion of Leader has a solution: position by position.
LEMMA LeaderFound ==
    ASSUME NEW feed, NEW len \in Nat
    PROVE  \E g : g = [n \in 1..len |-> Joins(feed, g, n)]
<1> DEFINE led(g, k) == g = [n \in 1..k |-> Joins(feed, g, n)]
           bad == {k \in Nat : ~ \E g : led(g, k)}
<1>1. \E g : led(g, 0)
  <2> DEFINE g == [n \in 1..0 |-> 0]
  <2>1. g = [n \in 1..0 |-> Joins(feed, g, n)]
    OBVIOUS
  <2> HIDE DEF g
  <2> QED BY <2>1
<1>2. ASSUME NEW k \in Nat, NEW g, led(g, k) PROVE \E h : led(h, k + 1)
  <2> DEFINE h == [n \in 1..k + 1 |-> Joins(feed, g, n)]
  <2>1. \A n \in 1..k : h[n] = g[n]
    <3>1. \A n \in 1..k : g[n] = Joins(feed, g, n) /\ n \in 1..k + 1
      BY <1>2
    <3> QED BY <3>1
  <2> HIDE DEF h
  <2>2. \A n \in 1..k + 1 : \A m \in 1..n - 1 : h[m] = g[m]
    <3>1. \A n \in 1..k + 1 : \A m \in 1..n - 1 : m \in 1..k
      OBVIOUS
    <3> QED BY <2>1, <3>1
  <2>3. \A n \in 1..k + 1 : Like(feed, h, n) = Like(feed, g, n)
    BY <2>2 DEF Like
  <2>4. \A n \in 1..k + 1 : Joins(feed, h, n) = Joins(feed, g, n)
    BY <2>3 DEF Joins
  <2>5. led(h, k + 1)
    BY <2>4 DEF h
  <2> HIDE DEF led
  <2> QED BY <2>5
<1> HIDE DEF led
<1>3. bad = {}
  <2>1. SUFFICES ASSUME bad # {} PROVE FALSE
    OBVIOUS
  <2> DEFINE k == Min(bad)
  <2>2. k \in bad /\ \A m \in bad : k <= m
    BY <2>1, MinExists
  <2> HIDE DEF k
  <2>3. k \in Nat /\ k # 0
    BY <1>1, <2>2
  <2>4. k - 1 \in Nat /\ k - 1 \notin bad
    BY <2>2, <2>3
  <2>5. PICK g : led(g, k - 1)
    BY <2>4
  <2>6. \E h : led(h, (k - 1) + 1)
    BY <1>2, <2>4, <2>5
  <2>7. (k - 1) + 1 = k
    BY <2>3
  <2> QED BY <2>2, <2>6, <2>7
<1>4. \E g : led(g, len)
  BY <1>3
<1> QED BY <1>4 DEF led

\* A position's leader is at or before it, leads itself, and resembles it.
LEMMA LeadersLead ==
    ASSUME NEW feed \in Seq(Items), NEW n \in DOMAIN feed
    PROVE  LET l == Leader(feed)[n]
           IN  /\ l \in DOMAIN feed /\ Leader(feed)[l] = l
               /\ l # n => Similar(feed[l], feed[n])
<1> DEFINE lead == Leader(feed)
           step(g) == [k \in DOMAIN feed |-> Joins(feed, g, k)]
<1>1. DOMAIN feed = 1..Len(feed) /\ Len(feed) \in Nat
  BY LenProperties
<1>2. \E g : g = step(g)
  <2>1. \E g : g = [k \in 1..Len(feed) |-> Joins(feed, g, k)]
    BY <1>1, LeaderFound
  <2> QED BY <1>1, <2>1, Zenon
<1>3. lead = CHOOSE g : g = step(g)
  BY DEF Leader, Joins, Like
<1>4. lead = step(lead)
  <2> HIDE DEF lead, step
  <2> QED BY <1>2, <1>3
<1> HIDE DEF lead
<1>5. \A k \in DOMAIN feed : lead[k] = Joins(feed, lead, k)
  BY <1>4
<1>6. CASE Like(feed, lead, n) = {}
  BY <1>5, <1>6 DEF Joins, lead
<1>7. CASE Like(feed, lead, n) # {}
  <2>1. Like(feed, lead, n) \subseteq Nat
    BY <1>1 DEF Like
  <2>2. lead[n] \in Like(feed, lead, n)
    BY <1>5, <1>7, <2>1, MinExists DEF Joins
  <2>3. lead[n] \in 1..n - 1 /\ lead[lead[n]] = lead[n] /\ Similar(feed[lead[n]], feed[n])
    BY <2>2 DEF Like
  <2> QED BY <1>1, <2>3 DEF lead
<1> QED BY <1>6, <1>7

\* Of the items at some positions one is first by time, the feed's own order
\* deciding between equals.
LEMMA EarliestExists ==
    ASSUME NEW feed \in Seq(Items), NEW P, P \subseteq DOMAIN feed, P # {}
    PROVE  \E n \in P : \A m \in P \ {n} :
               feed[n].at < feed[m].at \/ (~ (feed[m].at < feed[n].at) /\ n < m)
<1> DEFINE ats == {feed[n].at : n \in P}
           least == Min(ats)
           Q == {n \in P : feed[n].at = least}
           n == Min(Q)
<1>1. DOMAIN feed = 1..Len(feed) /\ Len(feed) \in Nat /\ P \subseteq Nat
  BY LenProperties
<1>2. \A k \in P : feed[k] \in Items /\ feed[k].at \in Nat
  BY <1>1, ElementOfSeq, FeedsAssumption
<1>3. least \in ats /\ \A b \in ats : least <= b
  <2>1. ats \subseteq Nat /\ ats # {}
    BY <1>2
  <2> HIDE DEF ats
  <2> QED BY <2>1, MinExists
<1> HIDE DEF least
<1>4. n \in Q /\ \A m \in Q : n <= m
  BY <1>1, <1>3, MinExists
<1> HIDE DEF n
<1>5. n \in P /\ feed[n].at = least
  BY <1>4
<1>6. ASSUME NEW m \in P \ {n}
      PROVE  feed[n].at < feed[m].at \/ (~ (feed[m].at < feed[n].at) /\ n < m)
  <2>1. least <= feed[m].at /\ least \in Nat /\ feed[m].at \in Nat
    BY <1>2, <1>3
  <2>2. CASE least = feed[m].at
    BY <1>1, <1>4, <1>5, <2>2
  <2>3. CASE least # feed[m].at
    BY <1>5, <2>1, <2>3
  <2> QED BY <2>2, <2>3
<1> QED BY <1>5, <1>6

\* An event is named for the earliest of its items.
LEMMA NamedForEarliest ==
    ASSUME NEW feed \in Seq(Items), NEW P, P \subseteq DOMAIN feed, P # {}
    PROVE  LET e == BuildCluster(feed, P)
           IN  /\ e.items = {feed[n] : n \in P} /\ e.count = Cardinality(P)
               /\ \E i \in e.items : /\ e.id = <<i.at, i.slug>>
                                     /\ \A j \in e.items : i.at <= j.at
<1> DEFINE first(n) == \A m \in P \ {n} :
               feed[n].at < feed[m].at \/ (~ (feed[m].at < feed[n].at) /\ n < m)
           n == CHOOSE n \in P : first(n)
<1>1. n \in P /\ first(n)
  <2> HIDE DEF first
  <2>1. \E m \in P : first(m)
    BY EarliestExists DEF first
  <2> QED BY <2>1
<1>2. /\ BuildCluster(feed, P).id = <<feed[n].at, feed[n].slug>>
      /\ BuildCluster(feed, P).items = {feed[m] : m \in P}
      /\ BuildCluster(feed, P).count = Cardinality(P)
  BY DEF BuildCluster, FirstBy
<1> HIDE DEF n
<1>3. \A m \in P : feed[m] \in Items /\ feed[m].at \in Nat
  BY ElementOfSeq, LenProperties, FeedsAssumption
<1>4. \A m \in P : feed[n].at <= feed[m].at
  BY <1>1, <1>3
<1> QED BY <1>1, <1>2, <1>4

\* What an event is: the items led by the position it is known by.
LEMMA EventsAre ==
    ASSUME NEW feed \in Seq(Items)
    PROVE  LET events == ClusterNews(feed)
           IN  /\ DOMAIN events = {n \in DOMAIN feed : Leader(feed)[n] = n}
               /\ \A l \in DOMAIN events :
                     LET led == {n \in DOMAIN feed : Leader(feed)[n] = l}
                     IN  /\ l \in led /\ IsFiniteSet(led)
                         /\ events[l].items = {feed[n] : n \in led}
                         /\ events[l].count = Cardinality(led)
                         /\ events[l].count \in Nat
                         /\ IsFiniteSet(events[l].items)
                         /\ \E i \in events[l].items :
                               /\ events[l].id = <<i.at, i.slug>>
                               /\ \A j \in events[l].items : i.at <= j.at
<1> DEFINE events == ClusterNews(feed)
<1>1. /\ DOMAIN events = {n \in DOMAIN feed : Leader(feed)[n] = n}
      /\ \A l \in DOMAIN events :
            events[l] = BuildCluster(feed, {n \in DOMAIN feed : Leader(feed)[n] = l})
  BY DEF ClusterNews
<1> HIDE DEF events
<1>2. ASSUME NEW l \in DOMAIN events
      PROVE  LET led == {n \in DOMAIN feed : Leader(feed)[n] = l}
             IN  /\ l \in led /\ IsFiniteSet(led)
                 /\ events[l].items = {feed[n] : n \in led}
                 /\ events[l].count = Cardinality(led)
                 /\ events[l].count \in Nat
                 /\ IsFiniteSet(events[l].items)
                 /\ \E i \in events[l].items :
                       /\ events[l].id = <<i.at, i.slug>>
                       /\ \A j \in events[l].items : i.at <= j.at
  <2> DEFINE led == {n \in DOMAIN feed : Leader(feed)[n] = l}
  <2>1. l \in led /\ led # {} /\ led \subseteq DOMAIN feed
    BY <1>1
  <2>2. IsFiniteSet(DOMAIN feed)
    BY LenProperties, FS_Interval
  <2>3. IsFiniteSet(led) /\ Cardinality(led) \in Nat
    BY <2>1, <2>2, FS_Subset, FS_CardinalityType
  <2>4. events[l] = BuildCluster(feed, led)
    BY <1>1
  <2> HIDE DEF led
  <2>5. /\ events[l].items = {feed[n] : n \in led} /\ events[l].count = Cardinality(led)
        /\ \E i \in events[l].items : /\ events[l].id = <<i.at, i.slug>>
                                      /\ \A j \in events[l].items : i.at <= j.at
    BY <2>1, <2>4, NamedForEarliest
  <2>6. IsFiniteSet({feed[n] : n \in led})
    <3> DEFINE item == [n \in led |-> feed[n]]
               items == {feed[n] : n \in led}
    <3>1. item \in Surjection(led, items)
      BY DEF Surjection
    <3> HIDE DEF item, items
    <3>2. IsFiniteSet(items)
      BY <2>3, <3>1, FS_Surjection
    <3> QED BY <3>2 DEF items
  <2> QED BY <2>1, <2>3, <2>5, <2>6 DEF led
<1> QED BY <1>1, <1>2 DEF events

\* The counts of the events sum up to the items of the feed.
LEMMA CountsSumUp ==
    ASSUME NEW feed \in Seq(Items)
    PROVE  LET events == ClusterNews(feed)
           IN  SumFunction([l \in DOMAIN events |-> events[l].count]) = Len(feed)
<1> DEFINE events == ClusterNews(feed)
           L == DOMAIN events
           led(S) == {n \in DOMAIN feed : Leader(feed)[n] \in S}
           T == [S \in SUBSET L |-> Cardinality(led(S))]
           count == [l \in L |-> events[l].count]
<1>1. DOMAIN feed = 1..Len(feed) /\ Len(feed) \in Nat /\ IsFiniteSet(DOMAIN feed)
  BY LenProperties, FS_Interval
<1>2. L \subseteq DOMAIN feed /\ IsFiniteSet(L)
  BY <1>1, EventsAre, FS_Subset
<1>3. \A S : IsFiniteSet(led(S)) /\ Cardinality(led(S)) \in Nat
  BY <1>1, FS_Subset, FS_CardinalityType
<1>4. T[{}] = 0
  <2>1. led({}) = {}
    OBVIOUS
  <2> QED BY <2>1, FS_EmptySet
<1>5. ASSUME NEW S \in SUBSET L, NEW l \in S PROVE T[S] = count[l] + T[S \ {l}]
  <2> DEFINE a == {n \in DOMAIN feed : Leader(feed)[n] = l}
             b == led(S \ {l})
  <2>1. led(S) = a \cup b /\ a \cap b = {}
    OBVIOUS
  <2>2. IsFiniteSet(a) /\ Cardinality(a) \in Nat
    BY <1>1, FS_Subset, FS_CardinalityType
  <2>3. IsFiniteSet(b) /\ Cardinality(b) \in Nat
    BY <1>3
  <2>4. Cardinality(led(S)) = Cardinality(a) + Cardinality(b)
    <3> HIDE DEF a, b, led
    <3>1. Cardinality(a \cup b) = Cardinality(a) + Cardinality(b) - Cardinality({})
      BY <2>1, <2>2, <2>3, FS_Union
    <3> QED BY <2>1, <2>2, <2>3, <3>1, FS_EmptySet
  <2>5. count[l] = Cardinality(a)
    BY EventsAre
  <2> HIDE DEF led, a, count
  <2> QED BY <2>4, <2>5
<1>6. Sums(T, count, L)
  BY <1>3, <1>4, <1>5 DEF Sums
<1>7. led(L) = DOMAIN feed
  <2>1. L = {n \in DOMAIN feed : Leader(feed)[n] = n}
    BY EventsAre
  <2>2. \A n \in DOMAIN feed : /\ Leader(feed)[n] \in DOMAIN feed
                             /\ Leader(feed)[Leader(feed)[n]] = Leader(feed)[n]
    BY LeadersLead
  <2> HIDE DEF L
  <2> QED BY <2>1, <2>2
<1>8. Cardinality(DOMAIN feed) = Len(feed)
  BY <1>1, FS_Interval
<1>9. SumFunction(count) = T[L]
  BY <1>2, <1>6, SumIs
<1> QED BY <1>7, <1>8, <1>9

(***************************************************************************)
(* Signals: the ticks. What is announced depends on what has been marked,  *)
(* so the invariant says what has: everything the last tick found by       *)
(* itself, and every topic that was a spike against its baseline, as far   *)
(* as that has not been cut.                                               *)
(***************************************************************************)

Topics == TopicWords \ SuppressedWords
News == ExtractTopics(world.events)

\* The world a tick leaves is one the code can have seen.
WorldSeen ==
    /\ now \in Nat /\ world.nth \in Nat
    /\ world.feed \in Seq(Items) /\ world.events = ClusterNews(world.feed)
    /\ IF world.nth = 0 THEN told = {} ELSE world.prices \in Prices

\* What was announced was marked; a triangulation is named for its earliest item.
NamedWhenTold ==
    \A t \in told :
        /\ t.key \in seen
        /\ t.key[1] = "triangulation" =>
              /\ IsFiniteSet(t.items) /\ t.items \subseteq Items
              /\ \E i \in t.items : /\ t.key = <<"triangulation", <<i.at, i.slug>>, 3>>
                                    /\ \A j \in t.items : i.at <= j.at

\* What the last tick found without comparing it to anything was marked.
FindsMarked ==
    world.nth > 1 =>
        /\ Keys(FlowDrops(world.events)) \subseteq seen
        /\ Keys(Convergences(world.events, now)) \subseteq seen
        /\ Keys(Triangulations(world.events)) \subseteq seen
        /\ Keys(Explained(world.events, world.changes)) \subseteq seen
        /\ Keys(Silent(world.events, News, world.changes)) \subseteq seen

\* A topic has one point of a moment.
PointsInTime(points, moment) ==
    /\ IsFiniteSet(points)
    /\ \A p \in points : p.at \in Nat /\ p.velocity \in Nat /\ p.at <= moment
    /\ \A p, q \in points : p.at = q.at => p = q

HistoryKept ==
    /\ DOMAIN history = Topics
    /\ \A t \in Topics : PointsInTime(history[t], now)

Velocity(points) == SumFunction([p \in points |-> p.velocity])
NewPoint(moment, v) == [at |-> moment, velocity |-> v]
Extended(points, moment, v) == Pruned(points, moment) \cup {NewPoint(moment, v)}

\* A topic that was no spike at the last tick, and whose baseline has not been
\* cut, was no more than three times what it was before.
NoSpikeUnmarked(t, moment, v, points, marked) ==
    /\ points = {} => v = 0
    /\ points # {} => NewPoint(moment, v) \in points
    /\ points # {} /\ Cardinality(points) < MaxPoints =>
          LET before == points \ {NewPoint(moment, v)}
          IN  \/ <<"velocity_spike", t, v>> \in marked
              \/ v <= 2 * NewsVelocity
              \/ Velocity(before) > 0 /\ v * Cardinality(before) <= 3 * Velocity(before)

SpikesMarked ==
    world.nth > 1 => \A t \in Topics : NoSpikeUnmarked(t, now, News[t], history[t], seen)

SignalsInv == WorldSeen /\ NamedWhenTold /\ FindsMarked /\ HistoryKept /\ SpikesMarked

\* How much the news is about a topic is a number.
LEMMA TopicsType ==
    ASSUME NEW feed \in Seq(Items)
    PROVE  ExtractTopics(ClusterNews(feed)) \in [Topics -> Nat]
<1> DEFINE events == ClusterNews(feed)
<1>1. IsFiniteSet(DOMAIN feed)
  BY LenProperties, FS_Interval
<1>2. DOMAIN events \subseteq DOMAIN feed /\ \A l \in DOMAIN events : events[l].count \in Nat
  BY EventsAre
<1> HIDE DEF events
<1>3. ASSUME NEW t \in Topics
      PROVE  SumFunction([l \in {l \in DOMAIN events : t \in events[l].title} |-> events[l].count]) \in Nat
  <2> DEFINE D == {l \in DOMAIN events : t \in events[l].title}
  <2>1. IsFiniteSet(D)
    BY <1>1, <1>2, FS_Subset
  <2>2. [l \in D |-> events[l].count] \in [D -> Nat]
    BY <1>2
  <2> QED BY <2>1, <2>2, SumType
<1>4. ExtractTopics(events) \in [Topics -> Nat]
  BY <1>3 DEF ExtractTopics, Topics
<1> QED BY <1>4 DEF events

\* What the detectors but that of spikes find in a tick.
Finds(events, topics, drops, moment, prices, changes) ==
    {Convergences(events, moment), Triangulations(events), drops,
     Shifts(prices, topics), Explained(events, changes), Silent(events, topics, changes),
     Divergences(topics, changes, Keys(drops) \ seen)}

\* Everything a tick announces is new and comes from a detector.
LEMMA OutFromDetectors ==
    ASSUME NEW moment, NEW feed, NEW prices, NEW changes, Tick(moment, feed, prices, changes),
           NEW s \in out', NEW events, events = ClusterNews(feed),
           NEW topics, topics = ExtractTopics(events), NEW drops, drops = FlowDrops(events)
    PROVE  /\ s.key \notin seen
           /\ \/ s \in Spikes(topics, moment)
              \/ \E F \in Finds(events, topics, drops, moment, prices, changes) :
                    \E k \in DOMAIN F : s = F[k]
<1> DEFINE stories == {Convergences(events, moment), Triangulations(events), drops}
           others == {Shifts(prices, topics), Explained(events, changes),
                      Silent(events, topics, changes),
                      Divergences(topics, changes, Keys(drops) \ seen)}
           spikes == {x \in Spikes(topics, moment) : x.key \notin seen}
<1>1. Conclude(events, stories, others, spikes)
  BY DEF Tick
<1> HIDE DEF stories, others, spikes
<1>2. PICK chosen \in IF spikes = {} THEN {{}} ELSE {{x} : x \in spikes} :
         out' = chosen \cup Announced(events, stories, others)
  BY <1>1 DEF Conclude
<1>3. CASE s \in chosen
  <2>1. s \in spikes
    BY <1>2, <1>3
  <2> QED BY <2>1 DEF spikes
<1>4. CASE s \notin chosen
  <2>1. s \in Announced(events, stories, others)
    BY <1>2, <1>4
  <2>2. \/ \E f \in stories : s \in Chosen(f, [l \in DOMAIN events |-> events[l].updated])
        \/ \E f \in others : s \in Chosen(f, [k \in DOMAIN f |-> now])
    BY <2>1 DEF Announced
  <2>3. PICK f \in stories \cup others : \E updated : s \in Chosen(f, updated)
    BY <2>2
  <2>4. s.key \notin seen /\ \E k \in DOMAIN f : s = f[k]
    BY <2>3 DEF Chosen
  <2> QED BY <2>4 DEF stories, others, Finds
<1> QED BY <1>3, <1>4

\* What has been found before is not announced.
LEMMA OutIsNew ==
    ASSUME NEW moment, NEW feed, NEW prices, NEW changes, Tick(moment, feed, prices, changes)
    PROVE  \A s \in out' : s.key \notin seen
<1> SUFFICES ASSUME NEW s \in out' PROVE s.key \notin seen
  OBVIOUS
<1> QED BY OutFromDetectors, Zenon

\* What the detectors find is marked, announced or not.
LEMMA FindsGetMarked ==
    ASSUME NEW moment, NEW feed, NEW prices, NEW changes, Tick(moment, feed, prices, changes)
    PROVE  LET events == ClusterNews(feed)
               topics == ExtractTopics(events)
           IN  /\ seen \subseteq seen' /\ told' = told \cup out'
               /\ {s.key : s \in out'} \subseteq seen'
               /\ {s.key : s \in Spikes(topics, moment)} \subseteq seen'
               /\ Keys(FlowDrops(events)) \subseteq seen'
               /\ Keys(Convergences(events, moment)) \subseteq seen'
               /\ Keys(Triangulations(events)) \subseteq seen'
               /\ Keys(Explained(events, changes)) \subseteq seen'
               /\ Keys(Silent(events, topics, changes)) \subseteq seen'
<1> DEFINE events == ClusterNews(feed)
           topics == ExtractTopics(events)
           drops  == FlowDrops(events)
           stories == {Convergences(events, moment), Triangulations(events), drops}
           others == {Shifts(prices, topics), Explained(events, changes),
                      Silent(events, topics, changes),
                      Divergences(topics, changes, Keys(drops) \ seen)}
           spikes == {x \in Spikes(topics, moment) : x.key \notin seen}
<1>1. Conclude(events, stories, others, spikes)
  BY DEF Tick
<1> HIDE DEF events, topics, stories, others, spikes
<1>2. /\ seen' = seen \cup {s.key : s \in spikes} \cup UNION {Keys(f) : f \in stories \cup others}
      /\ told' = told \cup out'
  BY <1>1 DEF Conclude
<1>3. \A f \in stories \cup others : Keys(f) \subseteq seen'
  BY <1>2
<1>4. {s.key : s \in Spikes(topics, moment)} \subseteq seen'
  BY <1>2 DEF spikes
<1>5. /\ FlowDrops(events) \in stories /\ Convergences(events, moment) \in stories
      /\ Triangulations(events) \in stories /\ Explained(events, changes) \in others
      /\ Silent(events, topics, changes) \in others
  BY DEF stories, others
<1>6. ASSUME NEW s \in out' PROVE s.key \in seen'
  <2>1. \/ s \in Spikes(topics, moment)
        \/ \E F \in stories \cup others : \E k \in DOMAIN F : s = F[k]
    <3>1. stories \cup others = Finds(events, topics, drops, moment, prices, changes)
      BY DEF stories, others, Finds
    <3> HIDE DEF drops
    <3>2. events = ClusterNews(feed) /\ topics = ExtractTopics(events) /\ drops = FlowDrops(events)
      BY DEF events, topics, drops
    <3> QED BY <3>1, <3>2, OutFromDetectors
  <2>2. CASE s \in Spikes(topics, moment)
    BY <1>4, <2>2
  <2>3. CASE \E F \in stories \cup others : \E k \in DOMAIN F : s = F[k]
    BY <1>3, <2>3 DEF Keys
  <2> QED BY <2>1, <2>2, <2>3
<1> QED BY <1>2, <1>3, <1>4, <1>5, <1>6 DEF topics, events

\* Keys tell the detectors apart.
LEMMA KeysByType ==
    /\ \A topics, moment : \A s \in Spikes(topics, moment) : s.key[1] = "velocity_spike"
    /\ \A events : \A k \in DOMAIN FlowDrops(events) : FlowDrops(events)[k].key[1] = "flow_drop"
    /\ \A events, moment : \A k \in DOMAIN Convergences(events, moment) :
          Convergences(events, moment)[k].key[1] = "convergence"
    /\ \A prices, topics : \A k \in DOMAIN Shifts(prices, topics) :
          /\ Shifts(prices, topics)[k].key[1] = "prediction_leads_news"
          /\ Shifts(prices, topics)[k].key[2] = Predictions[k].key
    /\ \A events, changes : \A k \in DOMAIN Explained(events, changes) :
          Explained(events, changes)[k].key[1] = "explained_market_move"
    /\ \A events, topics, changes : \A k \in DOMAIN Silent(events, topics, changes) :
          Silent(events, topics, changes)[k].key[1] = "silent_divergence"
    /\ \A topics, changes, news : \A k \in DOMAIN Divergences(topics, changes, news) :
          Divergences(topics, changes, news)[k].key[1] = "flow_price_divergence"
<1> USE DEF Where, Signal, Plain
<1>1. ASSUME NEW topics, NEW moment, NEW s \in Spikes(topics, moment)
      PROVE  s.key[1] = "velocity_spike"
  <2>1. PICK t \in DOMAIN topics : s = Plain("velocity_spike", t, topics[t], TRUE)
    BY DEF Spikes
  <2> QED BY <2>1
<1>2. \A events : \A k \in DOMAIN FlowDrops(events) : FlowDrops(events)[k].key[1] = "flow_drop"
  BY DEF FlowDrops
<1>3. \A events, moment : \A k \in DOMAIN Convergences(events, moment) :
         Convergences(events, moment)[k].key[1] = "convergence"
  BY DEF Convergences
<1>4. \A prices, topics : \A k \in DOMAIN Shifts(prices, topics) :
         /\ Shifts(prices, topics)[k].key[1] = "prediction_leads_news"
         /\ Shifts(prices, topics)[k].key[2] = Predictions[k].key
  BY DEF Shifts
<1>5. \A events, changes : \A k \in DOMAIN Explained(events, changes) :
         Explained(events, changes)[k].key[1] = "explained_market_move"
  BY DEF Explained
<1>6. \A events, topics, changes : \A k \in DOMAIN Silent(events, topics, changes) :
         Silent(events, topics, changes)[k].key[1] = "silent_divergence"
  BY DEF Silent
<1>7. \A topics, changes, news : \A k \in DOMAIN Divergences(topics, changes, news) :
         Divergences(topics, changes, news)[k].key[1] = "flow_price_divergence"
  BY DEF Divergences
<1> QED BY <1>1, <1>2, <1>3, <1>4, <1>5, <1>6, <1>7

\* A triangulation is a story's, with its items, and named for the earliest.
LEMMA TriangulationsNamed ==
    ASSUME NEW feed \in Seq(Items), NEW k \in DOMAIN Triangulations(ClusterNews(feed))
    PROVE  LET s == Triangulations(ClusterNews(feed))[k]
           IN  /\ s.key[1] = "triangulation" /\ IsFiniteSet(s.items) /\ s.items \subseteq Items
               /\ \E i \in s.items : /\ s.key = <<"triangulation", <<i.at, i.slug>>, 3>>
                                     /\ \A j \in s.items : i.at <= j.at
<1> DEFINE events == ClusterNews(feed)
           s == Triangulations(events)[k]
<1> HIDE DEF events
<1>1. k \in DOMAIN events /\ s = Signal("triangulation", events[k].id, 3, TRUE, events[k].items)
  BY DEF Triangulations, Where, events
<1>2. s.key = <<"triangulation", events[k].id, 3>> /\ s.items = events[k].items
  BY <1>1 DEF Signal
<1> HIDE DEF s
<1>3. /\ events[k].items \subseteq Items /\ IsFiniteSet(events[k].items)
      /\ \E i \in events[k].items : /\ events[k].id = <<i.at, i.slug>>
                                    /\ \A j \in events[k].items : i.at <= j.at
  <2> DEFINE led == {n \in DOMAIN feed : Leader(feed)[n] = k}
  <2>1. /\ events[k].items = {feed[n] : n \in led} /\ IsFiniteSet(events[k].items)
        /\ \E i \in events[k].items : /\ events[k].id = <<i.at, i.slug>>
                                      /\ \A j \in events[k].items : i.at <= j.at
    BY <1>1, EventsAre DEF events
  <2>2. \A n \in DOMAIN feed : feed[n] \in Items
    BY ElementOfSeq, LenProperties
  <2>3. led \subseteq DOMAIN feed
    OBVIOUS
  <2> HIDE DEF led
  <2> QED BY <2>1, <2>2, <2>3
<1>4. s.key[1] = "triangulation"
  BY <1>2
<1> QED BY <1>2, <1>3, <1>4 DEF s, events

\* Of the points that are kept there are at most MaxPoints.
LEMMA LatestAreFew ==
    ASSUME NEW points, NEW moment \in Nat, PointsInTime(points, moment)
    PROVE  /\ Latest(points) \subseteq points /\ IsFiniteSet(Latest(points))
           /\ Cardinality(Latest(points)) \in Nat /\ Cardinality(Latest(points)) <= MaxPoints
<1> DEFINE kept == Latest(points)
<1>1. kept \subseteq points /\ IsFiniteSet(kept) /\ Cardinality(kept) \in Nat /\ MaxPoints \in Nat \ {0}
  BY FS_Subset, FS_CardinalityType, ThresholdsAssumption DEF Latest, PointsInTime
<1>2. CASE kept = {}
  BY <1>1, <1>2, FS_EmptySet
<1>3. CASE kept # {}
  <2> DEFINE ats == {p.at : p \in kept}
  <2>1. ats \subseteq Nat /\ ats # {}
    BY <1>1, <1>3 DEF PointsInTime
  <2>2. Min(ats) \in ats /\ \A a \in ats : Min(ats) <= a
    <3> HIDE DEF ats
    <3> QED BY <2>1, MinExists
  <2>3. PICK o \in kept : \A p \in kept : o.at <= p.at
    BY <2>2
  <2> DEFINE later == {q \in points : q.at > o.at}
  <2>4. Cardinality(later) < MaxPoints
    BY <2>3 DEF Latest
  <2>5. IsFiniteSet(later) /\ Cardinality(later) \in Nat
    BY FS_Subset, FS_CardinalityType DEF PointsInTime
  <2>6. kept \ {o} \subseteq later
    BY <1>1, <2>3 DEF PointsInTime
  <2>7. Cardinality(kept \ {o}) <= Cardinality(later)
    BY <2>5, <2>6, FS_Subset
  <2>8. Cardinality(kept \ {o}) = Cardinality(kept) - 1
    BY <1>1, <2>3, OneLess
  <2> HIDE DEF kept, later
  <2> QED BY <1>1, <2>4, <2>5, <2>7, <2>8 DEF kept
<1> QED BY <1>2, <1>3

\* Fewer than MaxPoints are left only where none has been cut.
LEMMA FewAreUncut ==
    ASSUME NEW points, NEW moment \in Nat, PointsInTime(points, moment),
           Cardinality(Latest(points)) < MaxPoints
    PROVE  Latest(points) = points
<1>1. SUFFICES ASSUME points \ Latest(points) # {} PROVE FALSE
  BY DEF Latest
<1> DEFINE gaps == {moment - p.at : p \in points \ Latest(points)}
<1>2. gaps \subseteq Nat /\ gaps # {}
  BY <1>1 DEF PointsInTime
<1>3. Min(gaps) \in gaps /\ \A g \in gaps : Min(gaps) <= g
  <2> HIDE DEF gaps
  <2> QED BY <1>2, MinExists
<1>4. PICK q \in points \ Latest(points) :
         \A p \in points \ Latest(points) : moment - q.at <= moment - p.at
  BY <1>3
<1> DEFINE later == {p \in points : p.at > q.at}
<1>5. later \subseteq Latest(points)
  <2>1. \A p \in points \ Latest(points) : p.at <= q.at
    BY <1>4 DEF PointsInTime
  <2>2. \A p \in points : p.at \in Nat
    BY DEF PointsInTime
  <2> QED BY <1>4, <2>1, <2>2
<1>6. ~ (Cardinality(later) < MaxPoints)
  BY <1>4 DEF Latest
<1>7. IsFiniteSet(Latest(points)) /\ Cardinality(Latest(points)) \in Nat /\ MaxPoints \in Nat
  BY LatestAreFew, ThresholdsAssumption
<1>8. Cardinality(later) <= Cardinality(Latest(points)) /\ Cardinality(later) \in Nat
  BY <1>5, <1>7, FS_Subset, FS_CardinalityType
<1> HIDE DEF later
<1> QED BY <1>6, <1>7, <1>8

\* A topic's points with the one of a new moment.
LEMMA NewPointIsKept ==
    ASSUME NEW points, NEW before \in Nat, PointsInTime(points, before),
           NEW moment \in Nat, before < moment, NEW v \in Nat
    PROVE  /\ PointsInTime(Pruned(points, moment), before) /\ Pruned(points, moment) \subseteq points
           /\ NewPoint(moment, v) \notin points
           /\ PointsInTime(Extended(points, moment, v), moment)
           /\ PointsInTime(Latest(Extended(points, moment, v)), moment)
           /\ NewPoint(moment, v) \in Latest(Extended(points, moment, v))
<1> DEFINE new  == NewPoint(moment, v)
           old  == Pruned(points, moment)
           both == old \cup {new}
<1>1. new.at = moment /\ new.velocity = v
  BY DEF NewPoint
<1>2. old \subseteq points
  BY DEF Pruned
<1> HIDE DEF new, old
<1>3. PointsInTime(old, before) /\ new \notin points
  BY <1>1, <1>2, FS_Subset DEF PointsInTime
<1>4. IsFiniteSet(both)
  BY <1>3, FS_AddElement DEF PointsInTime
<1>5. PointsInTime(both, moment)
  <2>1. \A p \in both : p.at \in Nat /\ p.velocity \in Nat /\ p.at <= moment
    BY <1>1, <1>3 DEF PointsInTime
  <2>2. \A p \in old : p.at # new.at
    BY <1>1, <1>3 DEF PointsInTime
  <2>3. \A p, q \in both : p.at = q.at => p = q
    BY <1>3, <2>2 DEF PointsInTime
  <2> QED BY <1>4, <2>1, <2>3 DEF PointsInTime
<1>6. PointsInTime(Latest(both), moment)
  BY <1>5, LatestAreFew DEF PointsInTime
<1>7. new \in Latest(both)
  <2>1. {q \in both : q.at > new.at} = {}
    BY <1>1, <1>5 DEF PointsInTime
  <2>2. Cardinality({q \in both : q.at > new.at}) < MaxPoints
    BY <2>1, FS_EmptySet, ThresholdsAssumption
  <2> QED BY <2>2 DEF Latest
<1> QED BY <1>2, <1>3, <1>5, <1>6, <1>7 DEF new, old, Extended

\* What makes a topic a spike.
Surges(t, v, points) ==
    /\ v > 2 * NewsVelocity
    /\ Velocity(points) > 0 => v * Cardinality(points) > 3 * Velocity(points)

LEMMA SpikesSurge ==
    ASSUME NEW topics, NEW moment
    PROVE  /\ \A t \in DOMAIN topics : Surges(t, topics[t], Pruned(history[t], moment)) =>
                 <<"velocity_spike", t, topics[t]>> \in {s.key : s \in Spikes(topics, moment)}
           /\ \A s \in Spikes(topics, moment) : \E t \in DOMAIN topics :
                 /\ s.key = <<"velocity_spike", t, topics[t]>>
                 /\ Surges(t, topics[t], Pruned(history[t], moment))
<1> DEFINE Surging == {t \in DOMAIN topics : Surges(t, topics[t], Pruned(history[t], moment))}
<1>1. Spikes(topics, moment) = {Plain("velocity_spike", t, topics[t], TRUE) : t \in Surging}
  BY DEF Spikes, Surges, Velocity
<1>2. \A t : Plain("velocity_spike", t, topics[t], TRUE).key = <<"velocity_spike", t, topics[t]>>
  BY DEF Plain, Signal
<1>3. ASSUME NEW t \in Surging
      PROVE  <<"velocity_spike", t, topics[t]>> \in {s.key : s \in Spikes(topics, moment)}
  <2>1. Plain("velocity_spike", t, topics[t], TRUE) \in Spikes(topics, moment)
    BY <1>1
  <2> QED BY <1>2, <2>1
<1>4. ASSUME NEW s \in Spikes(topics, moment)
      PROVE  \E t \in Surging : s.key = <<"velocity_spike", t, topics[t]>>
  <2>1. PICK t \in Surging : s = Plain("velocity_spike", t, topics[t], TRUE)
    BY <1>1
  <2> QED BY <1>2, <2>1
<1> QED BY <1>3, <1>4

\* Every tick, the first included, keeps the types of what it remembers.
LEMMA SnapshotKeeps ==
    ASSUME SignalsInv, NEW moment \in now + 1 .. MaxNow, NEW feed \in Feeds, NEW prices \in Prices,
           NEW changes, Snapshot(moment, feed, prices, changes, ClusterNews(feed))
    PROVE  LET topics == ExtractTopics(ClusterNews(feed))
           IN  /\ WorldSeen' /\ HistoryKept'
               /\ moment \in Nat /\ now < moment
               /\ now' = moment /\ world'.nth = world.nth + 1 /\ world'.feed = feed
               /\ world'.events = ClusterNews(feed) /\ world'.prices = prices
               /\ world'.changes = changes /\ News' = topics
               /\ topics \in [Topics -> Nat]
               /\ \A t \in Topics :
                     history'[t] = IF history[t] = {} /\ topics[t] = 0 THEN {}
                                   ELSE Latest(Extended(history[t], moment, topics[t]))
<1> DEFINE events == ClusterNews(feed)
           topics == ExtractTopics(events)
<1> HIDE DEF events
<1>1. feed \in Seq(Items)
  BY FeedsAssumption
<1>2. topics \in [Topics -> Nat]
  BY <1>1, TopicsType DEF events
<1>3. MaxNow \in Nat /\ now \in Nat /\ world.nth \in Nat
  BY ThresholdsAssumption DEF SignalsInv, WorldSeen
<1>4. moment \in Nat /\ now < moment
  BY <1>3
<1>5. /\ now' = moment
      /\ world' = [nth |-> world.nth + 1, feed |-> feed, prices |-> prices,
                   changes |-> changes, events |-> events]
      /\ history' = Remember(topics, moment)
  BY DEF Snapshot, events
<1>6. /\ world'.nth = world.nth + 1 /\ world'.feed = feed /\ world'.prices = prices
      /\ world'.changes = changes /\ world'.events = events
  BY <1>5
<1>7. News' = topics
  BY <1>6 DEF News
<1>8. WorldSeen'
  BY <1>1, <1>3, <1>4, <1>5, <1>6 DEF WorldSeen, events
<1> HIDE DEF topics
<1>9. /\ DOMAIN history' = Topics
      /\ \A t \in Topics :
            history'[t] = IF history[t] = {} /\ topics[t] = 0 THEN {}
                          ELSE Latest(Extended(history[t], moment, topics[t]))
  BY <1>2, <1>5 DEF Remember, NewPoint, Extended
<1>10. ASSUME NEW t \in Topics PROVE PointsInTime(history'[t], moment)
  <2>1. PointsInTime(history[t], now) /\ topics[t] \in Nat
    BY <1>2 DEF SignalsInv, HistoryKept
  <2>2. CASE history[t] = {} /\ topics[t] = 0
    <3>1. history'[t] = {}
      BY <1>9, <2>2
    <3> QED BY <3>1, FS_EmptySet DEF PointsInTime
  <2>3. CASE ~ (history[t] = {} /\ topics[t] = 0)
    <3>1. history'[t] = Latest(Extended(history[t], moment, topics[t]))
      BY <1>9, <2>3
    <3>2. PointsInTime(Latest(Extended(history[t], moment, topics[t])), moment)
      BY <1>3, <1>4, <2>1, NewPointIsKept
    <3> QED BY <3>1, <3>2
  <2> QED BY <2>2, <2>3
<1>11. HistoryKept'
  BY <1>5, <1>9, <1>10 DEF HistoryKept
<1> QED BY <1>2, <1>4, <1>5, <1>6, <1>7, <1>8, <1>9, <1>11 DEF topics, events

\* The invariant holds at the start, every step keeps it.
LEMMA SignalsStart == SignalsInit => SignalsInv
<1> SUFFICES ASSUME SignalsInit PROVE SignalsInv
  OBVIOUS
<1>1. world.feed = <<>> /\ world.events = <<>> /\ world.nth = 0 /\ now = 0
  BY DEF SignalsInit, NoWorld
<1>2. <<>> \in Seq(Items) /\ DOMAIN <<>> = {}
  BY EmptySeq
<1>3. ClusterNews(<<>>) = <<>>
  <2>1. DOMAIN ClusterNews(<<>>) = {}
    BY <1>2, EventsAre
  <2>2. ClusterNews(<<>>) = [l \in DOMAIN ClusterNews(<<>>) |-> ClusterNews(<<>>)[l]]
    BY DEF ClusterNews
  <2>3. <<>> = [l \in {} |-> ClusterNews(<<>>)[l]]
    OBVIOUS
  <2> QED BY <2>1, <2>2, <2>3
<1>4. WorldSeen
  BY <1>1, <1>2, <1>3 DEF WorldSeen, SignalsInit
<1>5. HistoryKept
  <2>1. \A t \in Topics : history[t] = {}
    BY DEF SignalsInit, Topics
  <2> QED BY <2>1, FS_EmptySet DEF HistoryKept, PointsInTime, SignalsInit, Topics
<1>6. NamedWhenTold /\ FindsMarked /\ SpikesMarked
  BY <1>1 DEF NamedWhenTold, FindsMarked, SpikesMarked, SignalsInit
<1> QED BY <1>4, <1>5, <1>6 DEF SignalsInv

\* What a tick announces as triangulated is named for its earliest item.
LEMMA TriangulatedIsNamed ==
    ASSUME NEW moment, NEW feed \in Seq(Items), NEW prices, NEW changes,
           Tick(moment, feed, prices, changes), NEW s \in out', s.key[1] = "triangulation"
    PROVE  /\ s.key \notin seen /\ IsFiniteSet(s.items) /\ s.items \subseteq Items
           /\ \E i \in s.items : /\ s.key = <<"triangulation", <<i.at, i.slug>>, 3>>
                                 /\ \A j \in s.items : i.at <= j.at
<1> DEFINE events == ClusterNews(feed)
           topics == ExtractTopics(events)
           drops  == FlowDrops(events)
           stories == {Convergences(events, moment), Triangulations(events), drops}
           others == {Shifts(prices, topics), Explained(events, changes),
                      Silent(events, topics, changes),
                      Divergences(topics, changes, Keys(drops) \ seen)}
<1>0. s.key \notin seen
  BY OutIsNew
<1>1. \/ s \in Spikes(topics, moment)
      \/ \E F \in stories \cup others : \E k \in DOMAIN F : s = F[k]
  <2>1. stories \cup others = Finds(events, topics, drops, moment, prices, changes)
    BY DEF Finds
  <2> HIDE DEF events, topics, drops, stories, others
  <2>2. events = ClusterNews(feed) /\ topics = ExtractTopics(events) /\ drops = FlowDrops(events)
    BY DEF events, topics, drops
  <2> QED BY <2>1, <2>2, OutFromDetectors
<1> HIDE DEF events, topics, drops, stories, others
<1> DEFINE news == Keys(drops) \ seen
<1>2. s \notin Spikes(topics, moment)
  BY KeysByType
<1>3. ASSUME NEW F, NEW type, type # "triangulation", \A k \in DOMAIN F : F[k].key[1] = type
      PROVE  \A k \in DOMAIN F : s # F[k]
  BY <1>3
<1>4. \A F \in (stories \ {Triangulations(events)}) \cup others : \A k \in DOMAIN F : s # F[k]
  <2>1. \A k \in DOMAIN Convergences(events, moment) :
           Convergences(events, moment)[k].key[1] = "convergence"
    BY KeysByType
  <2>2. \A k \in DOMAIN FlowDrops(events) : FlowDrops(events)[k].key[1] = "flow_drop"
    BY KeysByType
  <2>3. \A k \in DOMAIN Shifts(prices, topics) :
           Shifts(prices, topics)[k].key[1] = "prediction_leads_news"
    BY KeysByType
  <2>4. \A k \in DOMAIN Explained(events, changes) :
           Explained(events, changes)[k].key[1] = "explained_market_move"
    BY KeysByType
  <2>5. \A k \in DOMAIN Silent(events, topics, changes) :
           Silent(events, topics, changes)[k].key[1] = "silent_divergence"
    BY KeysByType
  <2>6. \A k \in DOMAIN Divergences(topics, changes, news) :
           Divergences(topics, changes, news)[k].key[1] = "flow_price_divergence"
    BY KeysByType
  <2>7. /\ \A k \in DOMAIN Convergences(events, moment) : s # Convergences(events, moment)[k]
        /\ \A k \in DOMAIN FlowDrops(events) : s # FlowDrops(events)[k]
        /\ \A k \in DOMAIN Shifts(prices, topics) : s # Shifts(prices, topics)[k]
    BY <1>3, <2>1, <2>2, <2>3
  <2>8. /\ \A k \in DOMAIN Explained(events, changes) : s # Explained(events, changes)[k]
        /\ \A k \in DOMAIN Silent(events, topics, changes) : s # Silent(events, topics, changes)[k]
        /\ \A k \in DOMAIN Divergences(topics, changes, news) : s # Divergences(topics, changes, news)[k]
    BY <1>3, <2>4, <2>5, <2>6
  <2> QED BY <2>7, <2>8 DEF stories, others, drops
<1>5. PICK k \in DOMAIN Triangulations(events) : s = Triangulations(events)[k]
  BY <1>1, <1>2, <1>4
<1> QED BY <1>0, <1>5, TriangulationsNamed DEF events

\* A tick leaves of a topic that it has not marked as a spike a baseline that says
\* why.
LEMMA PointIsBounded ==
    ASSUME NEW t, NEW marked, NEW points, NEW before \in Nat, PointsInTime(points, before),
           NEW moment \in Nat, before < moment, NEW v \in Nat,
           Surges(t, v, Pruned(points, moment)) => <<"velocity_spike", t, v>> \in marked
    PROVE  NoSpikeUnmarked(t, moment, v, Latest(Extended(points, moment, v)), marked)
<1> DEFINE new == NewPoint(moment, v)
           old == Pruned(points, moment)
           both == Extended(points, moment, v)
           kept == Latest(both)
<1>1. /\ PointsInTime(old, before) /\ new \notin old
      /\ PointsInTime(both, moment) /\ new \in kept /\ both = old \cup {new}
  BY NewPointIsKept DEF Extended
<1>2. ~ Surges(t, v, old) \/ <<"velocity_spike", t, v>> \in marked
  OBVIOUS
<1> HIDE DEF new, old, both
<1>3. ASSUME Cardinality(kept) < MaxPoints, <<"velocity_spike", t, v>> \notin marked,
             v > 2 * NewsVelocity
      PROVE  Velocity(kept \ {new}) > 0 /\ v * Cardinality(kept \ {new}) <= 3 * Velocity(kept \ {new})
  <2>1. kept \ {new} = old
    <3>1. kept = both
      BY <1>1, <1>3, FewAreUncut
    <3> HIDE DEF kept
    <3> QED BY <1>1, <3>1
  <2>2. Velocity(old) > 0 /\ ~ (v * Cardinality(old) > 3 * Velocity(old))
    <3>1. Velocity(old) \in Nat
      <4>1. IsFiniteSet(old) /\ [p \in old |-> p.velocity] \in [old -> Nat]
        BY <1>1 DEF PointsInTime
      <4> QED BY <4>1, SumType DEF Velocity
    <3> QED BY <1>2, <1>3, <3>1 DEF Surges
  <2>3. v * Cardinality(old) \in Nat /\ 3 * Velocity(old) \in Nat
    <3>1. IsFiniteSet(old) /\ [p \in old |-> p.velocity] \in [old -> Nat]
      BY <1>1 DEF PointsInTime
    <3>2. Cardinality(old) \in Nat /\ Velocity(old) \in Nat
      BY <3>1, SumType, FS_CardinalityType DEF Velocity
    <3> QED BY <3>2
  <2>4. ASSUME NEW a \in Nat, NEW b \in Nat, ~ (a > b) PROVE a <= b
    BY <2>4
  <2>5. v * Cardinality(old) <= 3 * Velocity(old)
    BY <2>2, <2>3, <2>4
  <2> HIDE DEF kept
  <2> QED BY <2>1, <2>2, <2>5, Zenon
<1> HIDE DEF kept
<1>4. v <= 2 * NewsVelocity \/ v > 2 * NewsVelocity
  BY ThresholdsAssumption
<1>5. kept # {}
  BY <1>1 DEF kept
<1>6. new \in kept
  BY <1>1 DEF kept
<1>7. Cardinality(kept) < MaxPoints =>
         \/ <<"velocity_spike", t, v>> \in marked
         \/ v <= 2 * NewsVelocity
         \/ Velocity(kept \ {new}) > 0 /\ v * Cardinality(kept \ {new}) <= 3 * Velocity(kept \ {new})
  BY <1>3, <1>4
<1> QED BY <1>5, <1>6, <1>7 DEF NoSpikeUnmarked, kept, both, new

\* Every later tick keeps the invariant.
LEMMA TickKeeps ==
    ASSUME SignalsInv, NEW moment \in now + 1 .. MaxNow, NEW feed \in Feeds, NEW prices \in Prices,
           NEW changes, Tick(moment, feed, prices, changes)
    PROVE  SignalsInv'
<1> DEFINE events == ClusterNews(feed)
           topics == ExtractTopics(events)
<1>1. Snapshot(moment, feed, prices, changes, events)
  BY DEF Tick
<1>2. /\ WorldSeen' /\ HistoryKept' /\ moment \in Nat /\ now < moment
      /\ now' = moment /\ world'.events = events /\ world'.changes = changes /\ News' = topics
      /\ topics \in [Topics -> Nat]
      /\ \A t \in Topics :
            history'[t] = IF history[t] = {} /\ topics[t] = 0 THEN {}
                          ELSE Latest(Extended(history[t], moment, topics[t]))
  BY <1>1, SnapshotKeeps
<1>3. /\ seen \subseteq seen' /\ told' = told \cup out'
      /\ {s.key : s \in out'} \subseteq seen'
      /\ {s.key : s \in Spikes(topics, moment)} \subseteq seen'
      /\ Keys(FlowDrops(events)) \subseteq seen'
      /\ Keys(Convergences(events, moment)) \subseteq seen'
      /\ Keys(Triangulations(events)) \subseteq seen'
      /\ Keys(Explained(events, changes)) \subseteq seen'
      /\ Keys(Silent(events, topics, changes)) \subseteq seen'
  BY FindsGetMarked
<1>4. feed \in Seq(Items)
  BY FeedsAssumption
<1>5. NamedWhenTold'
  <2>1. ASSUME NEW s \in out', s.key[1] = "triangulation"
        PROVE  /\ IsFiniteSet(s.items) /\ s.items \subseteq Items
               /\ \E i \in s.items : /\ s.key = <<"triangulation", <<i.at, i.slug>>, 3>>
                                     /\ \A j \in s.items : i.at <= j.at
    BY <1>4, <2>1, TriangulatedIsNamed
  <2>2. \A s \in out' : s.key \in seen'
    BY <1>3
  <2>3. \A t \in told : t.key \in seen'
    BY <1>3 DEF SignalsInv, NamedWhenTold
  <2> QED BY <1>3, <2>1, <2>2, <2>3 DEF SignalsInv, NamedWhenTold
<1> HIDE DEF events, topics
<1>6. FindsMarked'
  BY <1>2, <1>3 DEF FindsMarked
<1>7. ASSUME NEW t \in Topics PROVE NoSpikeUnmarked(t, moment, topics[t], history'[t], seen')
  <2>1. PointsInTime(history[t], now) /\ topics[t] \in Nat /\ now \in Nat
    BY <1>2 DEF SignalsInv, HistoryKept, WorldSeen
  <2>2. CASE history[t] = {} /\ topics[t] = 0
    <3>1. history'[t] = {}
      BY <1>2, <2>2
    <3> QED BY <2>2, <3>1 DEF NoSpikeUnmarked
  <2>3. CASE ~ (history[t] = {} /\ topics[t] = 0)
    <3>1. history'[t] = Latest(Extended(history[t], moment, topics[t]))
      BY <1>2, <2>3
    <3>2. Surges(t, topics[t], Pruned(history[t], moment)) =>
              <<"velocity_spike", t, topics[t]>> \in seen'
      BY <1>2, <1>3, SpikesSurge
    <3> QED BY <1>2, <2>1, <3>1, <3>2, PointIsBounded
  <2> QED BY <2>2, <2>3
<1>8. SpikesMarked'
  BY <1>2, <1>7 DEF SpikesMarked
<1> QED BY <1>2, <1>5, <1>6, <1>8 DEF SignalsInv

LEMMA SignalsStep == SignalsInv /\ [SignalsNext]_signalsVars => SignalsInv'
<1> SUFFICES ASSUME SignalsInv, [SignalsNext]_signalsVars PROVE SignalsInv'
  OBVIOUS
<1>1. CASE UNCHANGED signalsVars
  <2>1. now' = now /\ world' = world /\ history' = history /\ seen' = seen /\ told' = told
    BY <1>1 DEF signalsVars
  <2>2. WorldSeen'
    BY <2>1 DEF SignalsInv, WorldSeen
  <2>3. NamedWhenTold'
    BY <2>1 DEF SignalsInv, NamedWhenTold
  <2>4. FindsMarked'
    BY <2>1 DEF SignalsInv, FindsMarked, News
  <2>5. HistoryKept'
    BY <2>1 DEF SignalsInv, HistoryKept
  <2>6. SpikesMarked'
    BY <2>1 DEF SignalsInv, SpikesMarked, News
  <2> QED BY <2>2, <2>3, <2>4, <2>5, <2>6 DEF SignalsInv
<1>2. CASE SignalsNext
  <2>1. PICK moment \in now + 1 .. MaxNow, feed \in Feeds, prices \in Prices, changes \in Changes :
           ColdStart(moment, feed, prices, changes) \/ Tick(moment, feed, prices, changes)
    BY <1>2 DEF SignalsNext
  <2>2. CASE Tick(moment, feed, prices, changes)
    BY <2>2, TickKeeps
  <2>3. CASE ColdStart(moment, feed, prices, changes)
    <3>1. Snapshot(moment, feed, prices, changes, ClusterNews(feed)) /\ world.nth = 0
      BY <2>3 DEF ColdStart
    <3>2. WorldSeen' /\ HistoryKept' /\ world'.nth = 1
      BY <3>1, SnapshotKeeps
    <3>3. seen \subseteq seen' /\ told' = told
      BY <2>3 DEF ColdStart
    <3>4. NamedWhenTold'
      BY <3>3 DEF SignalsInv, NamedWhenTold
    <3> QED BY <3>2, <3>4 DEF SignalsInv, FindsMarked, SpikesMarked
  <2> QED BY <2>1, <2>2, <2>3
<1> QED BY <1>1, <1>2

LEMMA SignalsInvariant == SignalsSpec => []SignalsInv
BY SignalsStart, SignalsStep, PTL DEF SignalsSpec

\* EventsShareFeed: the clusters of a tick are a partition of its feed, each led
\* by its first item, and nothing is announced that is not marked.
THEOREM EventsShare == SignalsSpec => []EventsShareFeed
<1>1. SignalsInv => EventsShareFeed
  <2> SUFFICES ASSUME SignalsInv PROVE EventsShareFeed
    OBVIOUS
  <2> DEFINE feed == world.feed
             events == ClusterNews(feed)
  <2>1. feed \in Seq(Items) /\ world.events = events
    BY DEF SignalsInv, WorldSeen
  <2> HIDE DEF feed, events
  <2>2. /\ DOMAIN events = {n \in DOMAIN feed : Leader(feed)[n] = n}
        /\ \A l \in DOMAIN events :
              events[l].items = {feed[n] : n \in {n \in DOMAIN feed : Leader(feed)[n] = l}}
    BY <2>1, EventsAre DEF events
  <2>3. \A n \in DOMAIN feed : LET l == Leader(feed)[n]
                               IN  /\ l \in DOMAIN feed /\ Leader(feed)[l] = l
                                   /\ l # n => Similar(feed[l], feed[n])
    BY <2>1, LeadersLead
  <2>4. UNION {events[l].items : l \in DOMAIN events} = ToSet(feed)
    <3>1. ASSUME NEW l \in DOMAIN events PROVE events[l].items \subseteq ToSet(feed)
      BY <2>2 DEF ToSet
    <3>2. ASSUME NEW i \in ToSet(feed) PROVE \E l \in DOMAIN events : i \in events[l].items
      <4>1. PICK n \in DOMAIN feed : i = feed[n]
        BY DEF ToSet
      <4>2. Leader(feed)[n] \in DOMAIN events
        BY <2>2, <2>3
      <4> QED BY <2>2, <4>1, <4>2
    <3> QED BY <3>1, <3>2
  <2>5. SumFunction([l \in DOMAIN events |-> events[l].count]) = Len(feed)
    BY <2>1, CountsSumUp DEF events
  <2>6. ASSUME NEW l \in DOMAIN events, NEW i \in events[l].items \ {feed[l]}
        PROVE  Similar(feed[l], i)
    <3>1. PICK n \in DOMAIN feed : Leader(feed)[n] = l /\ i = feed[n]
      BY <2>2
    <3> QED BY <2>3, <3>1
  <2>7. {s.key : s \in told} \subseteq seen
    BY DEF SignalsInv, NamedWhenTold
  <2> QED BY <2>1, <2>4, <2>5, <2>6, <2>7 DEF EventsShareFeed, feed
<1> QED BY <1>1, SignalsInvariant, PTL

\* A set with two members has more than one.
LEMMA TwoAreMore ==
    ASSUME NEW S, IsFiniteSet(S), NEW x \in S, NEW y \in S, x # y
    PROVE  Cardinality(S) > 1
<1>1. /\ IsFiniteSet(S \ {x}) /\ Cardinality(S \ {x}) = Cardinality(S) - 1
      /\ Cardinality(S) \in Nat
  BY OneLess
<1>2. Cardinality(S \ {x}) \in Nat \ {0}
  BY <1>1, OneLess
<1> QED BY <1>1, <1>2

\* A triangulation whose story holds one told before has another key, and its
\* earliest item is as old.
LEMMA ToldOnceStep ==
    ASSUME SignalsInv, SignalsNext, NEW s \in out', NEW t \in told,
           s.key[1] = "triangulation", t.key[1] = "triangulation", t.items \subseteq s.items
    PROVE  LET began == Min({i.at : i \in t.items})
           IN  \/ \E i \in s.items \ t.items : i.at <= began
               \/ Cardinality({i \in t.items : i.at = began}) > 1
<1>1. PICK moment \in now + 1 .. MaxNow, feed \in Feeds, prices \in Prices, changes \in Changes :
         ColdStart(moment, feed, prices, changes) \/ Tick(moment, feed, prices, changes)
  BY DEF SignalsNext
<1>2. Tick(moment, feed, prices, changes)
  BY <1>1 DEF ColdStart, SignalsInv, WorldSeen
<1>3. feed \in Seq(Items)
  BY FeedsAssumption
<1>4. s.key \notin seen /\ s.items \subseteq Items
  BY <1>2, <1>3, TriangulatedIsNamed
<1>5. PICK a \in s.items : /\ s.key = <<"triangulation", <<a.at, a.slug>>, 3>>
                           /\ \A j \in s.items : a.at <= j.at
  BY <1>2, <1>3, TriangulatedIsNamed
<1>6. t.key \in seen /\ IsFiniteSet(t.items)
  BY DEF SignalsInv, NamedWhenTold
<1>7. PICK b \in t.items : /\ t.key = <<"triangulation", <<b.at, b.slug>>, 3>>
                           /\ \A j \in t.items : b.at <= j.at
  BY DEF SignalsInv, NamedWhenTold
<1> DEFINE ats == {i.at : i \in t.items}
           began == Min(ats)
<1>8. \A i \in s.items : i.at \in Nat
  BY <1>4, FeedsAssumption
<1>9. began = b.at
  <2>1. ats \subseteq Nat /\ b.at \in ats /\ \A x \in ats : b.at <= x
    BY <1>7, <1>8
  <2> HIDE DEF ats
  <2>2. began \in ats /\ \A x \in ats : began <= x
    BY <2>1, MinExists
  <2>3. began \in Nat /\ b.at \in Nat /\ began <= b.at /\ b.at <= began
    BY <2>1, <2>2
  <2> HIDE DEF began
  <2> QED BY <2>3
<1> HIDE DEF began
<1>10. a # b /\ a.at <= b.at
  BY <1>4, <1>5, <1>6, <1>7
<1>11. CASE a \notin t.items
  BY <1>5, <1>9, <1>10, <1>11 DEF began
<1>12. CASE a \in t.items
  <2> DEFINE first == {i \in t.items : i.at = began}
  <2>1. a.at = began
    BY <1>7, <1>8, <1>9, <1>10, <1>12
  <2>2. a \in first /\ b \in first
    BY <1>9, <1>12, <2>1
  <2>3. IsFiniteSet(first)
    BY <1>6, FS_Subset
  <2> HIDE DEF first
  <2>4. Cardinality(first) > 1
    BY <1>10, <2>2, <2>3, TwoAreMore
  <2> QED BY <2>4 DEF first, began
<1> QED BY <1>11, <1>12

\* ToldOnce: a story that grows keeps the key of its earliest item, so that it is
\* announced once unless what it began with changes.
THEOREM StoriesToldOnce == SignalsSpec => ToldOnce
<1>1. SignalsInv /\ [SignalsNext]_signalsVars =>
         [\A s \in out', t \in told :
            /\ s.key[1] = "triangulation" /\ t.key[1] = "triangulation"
            /\ t.items \subseteq s.items
            => LET began == Min({i.at : i \in t.items})
               IN  \/ \E i \in s.items \ t.items : i.at <= began
                   \/ Cardinality({i \in t.items : i.at = began}) > 1]_signalsVars
  <2> SUFFICES ASSUME SignalsInv, SignalsNext, NEW s \in out', NEW t \in told,
                      s.key[1] = "triangulation", t.key[1] = "triangulation", t.items \subseteq s.items
               PROVE  LET began == Min({i.at : i \in t.items})
                      IN  \/ \E i \in s.items \ t.items : i.at <= began
                          \/ Cardinality({i \in t.items : i.at = began}) > 1
    OBVIOUS
  <2> QED BY ToldOnceStep
<1> QED BY <1>1, SignalsInvariant, PTL DEF SignalsSpec, ToldOnce

\* A topic that was no spike is none either where nothing of its baseline has
\* left and the news is as much about it as before.
LEMMA SpikesStayMarked ==
    ASSUME NEW t, NEW marked, NEW points, NEW before \in Nat, PointsInTime(points, before),
           NEW moment \in Nat, before < moment, NEW v \in Nat,
           NoSpikeUnmarked(t, before, v, points, marked),
           LET next == IF points = {} /\ v = 0 THEN {} ELSE Latest(Extended(points, moment, v))
           IN  next = {} \/ Cardinality(next) > Cardinality(points),
           Surges(t, v, Pruned(points, moment))
    PROVE  <<"velocity_spike", t, v>> \in marked
<1>1. SUFFICES ASSUME <<"velocity_spike", t, v>> \notin marked PROVE FALSE
  OBVIOUS
<1>2. v > 2 * NewsVelocity /\ NewsVelocity \in Nat \ {0} /\ MaxPoints \in Nat
  BY ThresholdsAssumption DEF Surges
<1>3. points # {}
  BY <1>2 DEF NoSpikeUnmarked
<1> DEFINE old == Pruned(points, moment)
           new == NewPoint(moment, v)
           both == Extended(points, moment, v)
           next == Latest(both)
           latest == NewPoint(before, v)
           rest == points \ {latest}
<1>4. /\ PointsInTime(old, before) /\ old \subseteq points /\ new \notin points
      /\ PointsInTime(both, moment) /\ new \in next /\ both = old \cup {new}
  BY NewPointIsKept DEF Extended
<1>5. Cardinality(next) > Cardinality(points)
  BY <1>3, <1>4
<1> HIDE DEF old, new, both
<1>6. /\ next \subseteq both /\ Cardinality(next) \in Nat /\ Cardinality(next) <= MaxPoints
  BY <1>4, LatestAreFew
<1> HIDE DEF next
<1>7. IsFiniteSet(points) /\ Cardinality(points) \in Nat
  BY FS_CardinalityType DEF PointsInTime
<1>8. Cardinality(points) < MaxPoints
  BY <1>2, <1>5, <1>6, <1>7
<1>9. old = points
  <2>1. IsFiniteSet(old) /\ Cardinality(old) \in Nat
    BY <1>4, FS_CardinalityType DEF PointsInTime
  <2>2. IsFiniteSet(both) /\ Cardinality(both) = Cardinality(old) + 1
    BY <1>4, <2>1, FS_AddElement
  <2>3. Cardinality(next) <= Cardinality(both)
    BY <1>6, <2>2, FS_Subset
  <2>4. ~ (Cardinality(old) < Cardinality(points))
    BY <1>5, <1>6, <1>7, <2>1, <2>2, <2>3
  <2>5. SUFFICES ASSUME NEW x \in points, x \notin old PROVE FALSE
    BY <1>4
  <2>6. IsFiniteSet(points \ {x}) /\ Cardinality(points \ {x}) = Cardinality(points) - 1
    BY <1>7, OneLess
  <2>7. old \subseteq points \ {x}
    BY <1>4, <2>5
  <2>8. Cardinality(old) <= Cardinality(points \ {x})
    BY <2>6, <2>7, FS_Subset
  <2> QED BY <1>7, <2>1, <2>4, <2>6, <2>8
<1>10. /\ latest \in points
       /\ Velocity(rest) > 0 /\ v * Cardinality(rest) <= 3 * Velocity(rest)
  BY <1>1, <1>2, <1>3, <1>8 DEF NoSpikeUnmarked
<1>11. latest.velocity = v
  BY DEF NewPoint
<1> HIDE DEF latest
<1>12. Velocity(points) = v + Velocity(rest) /\ Velocity(rest) \in Nat
  <2> DEFINE g == [p \in points |-> p.velocity]
             f == [p \in rest |-> p.velocity]
  <2>1. IsFiniteSet(rest)
    BY <1>7, FS_Subset
  <2>2. g \in [rest \cup {latest} -> Nat] /\ latest \notin rest
    <3>1. points = rest \cup {latest} /\ latest \notin rest
      BY <1>10
    <3>2. g \in [points -> Nat]
      BY DEF PointsInTime
    <3> QED BY <3>1, <3>2
  <2>3. f = [p \in rest |-> g[p]] /\ g[latest] = v
    BY <1>10, <1>11
  <2> HIDE DEF g, f, rest
  <2>4. SumFunction(g) = g[latest] + SumFunction(f) /\ SumFunction(f) \in Nat
    BY <2>1, <2>2, <2>3, SumAdds
  <2> QED BY <2>3, <2>4 DEF Velocity, g, f
<1>13. /\ Cardinality(rest) = Cardinality(points) - 1 /\ Cardinality(rest) \in Nat
  BY <1>7, <1>10, OneLess
<1> DEFINE n == Cardinality(rest)
           w == Velocity(rest)
<1>14. v * (n + 1) > 3 * (v + w)
  <2>1. Velocity(points) > 0 => v * Cardinality(points) > 3 * Velocity(points)
    BY <1>9 DEF Surges, old
  <2>2. Velocity(points) > 0 /\ Velocity(points) = v + w /\ Cardinality(points) = n + 1
    BY <1>2, <1>7, <1>12, <1>13
  <2> QED BY <2>1, <2>2
<1>15. v * n <= 3 * w /\ n \in Nat /\ w \in Nat
  BY <1>10, <1>12, <1>13
<1> HIDE DEF n, w
<1>16. v * (n + 1) = v * n + v /\ v * n \in Nat
  BY <1>15
<1> DEFINE m == v * n
<1>17. m + v > 3 * (v + w) /\ m <= 3 * w /\ m \in Nat
  BY <1>14, <1>15, <1>16
<1> HIDE DEF m
<1> QED BY <1>15, <1>17

\* A convergence of the last tick whose items have not left the hour is one now.
LEMMA ConvergencesStay ==
    ASSUME NEW feed \in Seq(Items), NEW before, NEW moment,
           \A i \in ToSet(feed) : before - i.at < 2 <=> moment - i.at < 2
    PROVE  Convergences(ClusterNews(feed), before) = Convergences(ClusterNews(feed), moment)
<1> DEFINE events == ClusterNews(feed)
           recent(l, m) == {i \in events[l].items : m - i.at < 2}
           types(l, m) == {SourceType(i.source) : i \in recent(l, m)}
           found(m) == {l \in DOMAIN events : /\ Cardinality(recent(l, m)) >= 3
                                              /\ Cardinality(types(l, m) \ {"other"}) >= 3}
<1>1. \A m : Convergences(events, m) =
         [l \in found(m) |-> Signal("convergence", events[l].id, Cardinality(types(l, m)), TRUE,
                                    events[l].items)]
  BY DEF Convergences, Where
<1>2. \A l \in DOMAIN events : events[l].items \subseteq ToSet(feed)
  <2>1. \A l \in DOMAIN events :
           events[l].items = {feed[n] : n \in {n \in DOMAIN feed : Leader(feed)[n] = l}}
    BY EventsAre
  <2> HIDE DEF events
  <2> QED BY <2>1 DEF ToSet
<1>3. \A l \in DOMAIN events : recent(l, before) = recent(l, moment)
  <2> HIDE DEF events
  <2> QED BY <1>2
<1> HIDE DEF events, recent
<1>4. \A l \in DOMAIN events : types(l, before) = types(l, moment)
  BY <1>3
<1>5. found(before) = found(moment)
  BY <1>3, <1>4
<1>6. found(before) \subseteq DOMAIN events
  OBVIOUS
<1> HIDE DEF types, found
<1>7. [l \in found(before) |-> Signal("convergence", events[l].id, Cardinality(types(l, before)), TRUE,
                                      events[l].items)]
    = [l \in found(moment) |-> Signal("convergence", events[l].id, Cardinality(types(l, moment)), TRUE,
                                      events[l].items)]
  BY <1>4, <1>5, <1>6
<1> QED BY <1>1, <1>7 DEF events

\* A market that shares its key with none is compared with itself.
LEMMA SharedOnly ==
    ASSUME NEW prices \in Prices, world.prices = prices, NEW topics,
           NEW k \in DOMAIN Shifts(prices, topics)
    PROVE  Shared(Predictions[k].key)
<1> DEFINE same == {n \in DOMAIN Predictions : Predictions[n].key = Predictions[k].key}
<1>1. k \in DOMAIN Predictions /\ Abs(prices[k] - Remembered(prices, Predictions[k].key)) >= 5
  BY DEF Shifts, Where
<1>2. DOMAIN Predictions = 1 .. Len(Predictions) /\ Len(Predictions) \in Nat
  BY PricesAssumption, LenProperties
<1>3. IsFiniteSet(same) /\ k \in same /\ same \subseteq Nat
  <2>1. IsFiniteSet(DOMAIN Predictions) /\ DOMAIN Predictions \subseteq Nat
    BY <1>2, FS_Interval
  <2>2. IsFiniteSet(same)
    BY <2>1, FS_Subset
  <2> QED BY <1>1, <2>1, <2>2
<1>4. SUFFICES ASSUME same = {k} PROVE FALSE
  <2>1. CASE same = {k}
    BY <1>4, <2>1
  <2>2. CASE same # {k}
    <3>1. PICK n \in same : n # k
      BY <1>3, <2>2
    <3>2. Cardinality(same) > 1
      <4> HIDE DEF same
      <4> QED BY <1>3, <3>1, TwoAreMore
    <3> QED BY <3>2 DEF Shared
  <2> QED BY <2>1, <2>2
<1>5. Max({k}) = k
  BY <1>3 DEF Max
<1>6. Remembered(prices, Predictions[k].key) = prices[k]
  BY <1>4, <1>5 DEF Remembered
<1>7. prices[k] \in Int
  BY <1>1, PricesAssumption
<1> QED BY <1>1, <1>6, <1>7 DEF Abs

\* What a tick that finds the world unchanged announces.
LEMMA QuietStep ==
    ASSUME SignalsInv, SignalsNext, world'.feed = world.feed, world'.prices = world.prices,
           world'.changes = world.changes, world.nth > 1, NothingAged, NEW s \in out',
           s.key[1] # "flow_price_divergence"
    PROVE  s.key[1] = "prediction_leads_news" /\ Shared(s.key[2])
<1>1. PICK moment \in now + 1 .. MaxNow, feed \in Feeds, prices \in Prices, changes \in Changes :
         ColdStart(moment, feed, prices, changes) \/ Tick(moment, feed, prices, changes)
  BY DEF SignalsNext
<1>2. Tick(moment, feed, prices, changes) /\ world.nth \in Nat
  BY <1>1 DEF ColdStart, SignalsInv, WorldSeen
<1> DEFINE events == ClusterNews(feed)
           topics == ExtractTopics(events)
           drops  == FlowDrops(events)
           stories == {Convergences(events, moment), Triangulations(events), drops}
           others == {Shifts(prices, topics), Explained(events, changes),
                      Silent(events, topics, changes),
                      Divergences(topics, changes, Keys(drops) \ seen)}
<1>3. Snapshot(moment, feed, prices, changes, events)
  BY <1>2 DEF Tick
<1>4. /\ moment \in Nat /\ now < moment /\ now' = moment
      /\ world'.feed = feed /\ world'.events = events /\ world'.prices = prices
      /\ world'.changes = changes
      /\ topics \in [Topics -> Nat]
      /\ \A t \in Topics :
            history'[t] = IF history[t] = {} /\ topics[t] = 0 THEN {}
                          ELSE Latest(Extended(history[t], moment, topics[t]))
  BY <1>3, SnapshotKeeps
<1>5. /\ world.feed = feed /\ world.events = events /\ world.prices = prices
      /\ world.changes = changes /\ News = topics /\ feed \in Seq(Items)
  BY <1>4 DEF SignalsInv, WorldSeen, News
<1> HIDE DEF events, topics, drops, stories, others
<1>6. s.key \notin seen
  BY <1>2, OutIsNew
<1>7. \/ s \in Spikes(topics, moment)
      \/ \E F \in stories \cup others : \E k \in DOMAIN F : s = F[k]
  <2>1. stories \cup others = Finds(events, topics, drops, moment, prices, changes)
    BY DEF stories, others, Finds
  <2>2. events = ClusterNews(feed) /\ topics = ExtractTopics(events) /\ drops = FlowDrops(events)
    BY DEF events, topics, drops
  <2> QED BY <1>2, <2>1, <2>2, OutFromDetectors
<1>8. ASSUME NEW F, Keys(F) \subseteq seen PROVE \A k \in DOMAIN F : s # F[k]
  BY <1>6, <1>8 DEF Keys
<1>9. s \notin Spikes(topics, moment)
  <2>1. SUFFICES ASSUME s \in Spikes(topics, moment) PROVE FALSE
    OBVIOUS
  <2>2. PICK t \in Topics : /\ s.key = <<"velocity_spike", t, topics[t]>>
                            /\ Surges(t, topics[t], Pruned(history[t], moment))
    BY <1>4, <2>1, SpikesSurge
  <2>3. PointsInTime(history[t], now) /\ now \in Nat /\ topics[t] \in Nat
    BY <1>4 DEF SignalsInv, HistoryKept, WorldSeen
  <2>4. NoSpikeUnmarked(t, now, topics[t], history[t], seen)
    BY <1>5 DEF SignalsInv, SpikesMarked
  <2>5. history'[t] = {} \/ Cardinality(history'[t]) > Cardinality(history[t])
    BY DEF NothingAged, SignalsInv, HistoryKept
  <2>6. history'[t] = IF history[t] = {} /\ topics[t] = 0 THEN {}
                      ELSE Latest(Extended(history[t], moment, topics[t]))
    BY <1>4
  <2>7. <<"velocity_spike", t, topics[t]>> \in seen
    BY <1>4, <2>2, <2>3, <2>4, <2>5, <2>6, SpikesStayMarked
  <2> QED BY <1>6, <2>2, <2>7
<1>10. /\ Keys(drops) \subseteq seen /\ Keys(Triangulations(events)) \subseteq seen
       /\ Keys(Convergences(events, now)) \subseteq seen
       /\ Keys(Explained(events, changes)) \subseteq seen
       /\ Keys(Silent(events, topics, changes)) \subseteq seen
  BY <1>5 DEF SignalsInv, FindsMarked, drops
<1>11. Keys(Convergences(events, moment)) \subseteq seen
  <2>1. \A i \in ToSet(feed) : now - i.at < 2 <=> moment - i.at < 2
    BY <1>4, <1>5 DEF NothingAged
  <2>2. Convergences(events, now) = Convergences(events, moment)
    BY <1>5, <2>1, ConvergencesStay DEF events
  <2> QED BY <1>10, <2>2
<1>12. \/ \E k \in DOMAIN Shifts(prices, topics) : s = Shifts(prices, topics)[k]
       \/ LET found == Divergences(topics, changes, Keys(drops) \ seen)
          IN  \E k \in DOMAIN found : s = found[k]
  BY <1>7, <1>8, <1>9, <1>10, <1>11 DEF stories, others
<1>13. PICK k \in DOMAIN Shifts(prices, topics) : s = Shifts(prices, topics)[k]
  BY <1>12, KeysByType
<1>14. s.key[1] = "prediction_leads_news" /\ s.key[2] = Predictions[k].key
  BY <1>13, KeysByType
<1> QED BY <1>5, <1>14, SharedOnly

\* QuietWhenUnchanged: every detector's finds are marked at the tick that makes
\* them, and those that compare with the tick before find nothing in one that is
\* the same, but for the two exceptions.
THEOREM UnchangedIsQuiet == SignalsSpec => QuietWhenUnchanged
<1>1. SignalsInv /\ [SignalsNext]_signalsVars =>
         [/\ world'.feed = world.feed /\ world'.prices = world.prices
          /\ world'.changes = world.changes /\ world.nth > 1 /\ NothingAged
          => \A s \in out' :
               \/ s.key[1] = "flow_price_divergence"
               \/ s.key[1] = "prediction_leads_news" /\ Shared(s.key[2])]_signalsVars
  <2> SUFFICES ASSUME SignalsInv, SignalsNext, world'.feed = world.feed,
                      world'.prices = world.prices, world'.changes = world.changes,
                      world.nth > 1, NothingAged, NEW s \in out', s.key[1] # "flow_price_divergence"
               PROVE  s.key[1] = "prediction_leads_news" /\ Shared(s.key[2])
    OBVIOUS
  <2> QED BY QuietStep
<1> QED BY <1>1, SignalsInvariant, PTL DEF SignalsSpec, QuietWhenUnchanged

(***************************************************************************)
(* Correlate again: more is never less. The forest has no cycle, so RootOf *)
(* finds roots and a cluster is a whole tree; a score is a sum that only   *)
(* grows; and the last report is held to be what its run found.            *)
(***************************************************************************)
\* Whoever follows the parents comes to a root: no set of signals is closed under
\* them without one.
Forest ==
    \A S \in SUBSET Ids : S # {} /\ (\A i \in S : parent[i] \in S) => \E i \in S : parent[i] = i

\* Clustering keeps the forest: halving skips one that is not a root, and a join
\* hangs a root under a root.
LEMMA ForestStep == JoinInv /\ Forest /\ Next => Forest'
<1> SUFFICES ASSUME JoinInv, Forest, Next, NEW S \in SUBSET Ids, S # {},
                    \A i \in S : parent'[i] \in S
             PROVE  \E i \in S : parent'[i] = i
  BY DEF Forest, Ids
<1>1. parent \in [Ids -> Ids]
  BY DEF JoinInv, TypeOK
<1>2. CASE UNCHANGED parent
  BY <1>2 DEF Forest
<1>3. ASSUME NEW k \in {1, 2}, phase \in {"first", "second"}, Halve(k)
      PROVE  \E i \in S : parent'[i] = i
  <2> DEFINE a == at[k]
             T == S \cup {j \in {parent[a]} : a \in S}
  <2>1. a \in Ids /\ parent[a] \in Ids /\ parent[a] # a
    BY <1>1, <1>3 DEF Halve, JoinInv, TypeOK
  <2>2. parent' = [parent EXCEPT ![a] = parent[parent[a]]]
    BY <1>3 DEF Halve
  <2> HIDE DEF a
  <2>3. \A i \in Ids : parent'[i] = IF i = a THEN parent[parent[a]] ELSE parent[i]
    BY <1>1, <2>1, <2>2
  <2>4. T \in SUBSET Ids /\ T # {}
    BY <2>1
  <2>5. ASSUME NEW i \in T PROVE parent[i] \in T
    <3>1. CASE i \in S /\ i # a
      BY <2>3, <3>1
    <3>2. CASE i = a
      BY <2>1, <2>5, <3>2
    <3>3. CASE i = parent[a] /\ a \in S
      BY <2>3, <3>3
    <3> QED BY <3>1, <3>2, <3>3
  <2>6. PICK i \in T : parent[i] = i
    BY <2>4, <2>5 DEF Forest
  <2>7. CASE i \in S
    BY <2>1, <2>3, <2>6, <2>7
  <2>8. CASE i = parent[a] /\ a \in S
    BY <2>1, <2>3, <2>6, <2>8
  <2> QED BY <2>7, <2>8
<1>4. CASE Join
  <2>1. /\ phase = "second" /\ at \in Ids \X Ids /\ parent[at[2]] = at[2]
        /\ parent' = [parent EXCEPT ![at[1]] = at[2]]
    BY <1>4 DEF Join, JoinInv, TypeOK
  <2>2. parent[at[1]] = at[1]
    BY <2>1 DEF JoinInv, SearchInTree
  <2>3. \A i \in Ids : parent'[i] = IF i = at[1] THEN at[2] ELSE parent[i]
    BY <1>1, <2>1
  <2>4. CASE at[1] \in S
    <3>1. at[2] \in S
      BY <2>3, <2>4
    <3>2. parent'[at[2]] = at[2]
      BY <2>1, <2>3
    <3> QED BY <3>1, <3>2
  <2>5. CASE at[1] \notin S
    <3>1. \A i \in S : parent'[i] = parent[i]
      BY <2>3, <2>5
    <3> QED BY <3>1 DEF Forest
  <2> QED BY <2>4, <2>5
<1> QED BY <1>2, <1>3, <1>4 DEF Next, Compare, FindFirst, FindSecond, vars

(***************************************************************************)
(* RootOf is a recursion over hops, solved up to each of them.             *)
(***************************************************************************)
\* up[n] is where n hops from i lead.
HopsFrom(i, up, k) == up = [n \in 0 .. k |-> IF n = 0 THEN i ELSE parent[up[n - 1]]]

LEMMA HopsExist == ASSUME NEW i, NEW len \in Nat PROVE \E up : HopsFrom(i, up, len)
<1> DEFINE bad == {k \in Nat : ~ \E up : HopsFrom(i, up, k)}
<1>1. \E up : HopsFrom(i, up, 0)
  <2> DEFINE up == [n \in 0 .. 0 |-> i]
  <2>1. \A n \in 0 .. 0 : n = 0
    OBVIOUS
  <2>2. up = [n \in 0 .. 0 |-> IF n = 0 THEN i ELSE parent[up[n - 1]]]
    BY <2>1
  <2> HIDE DEF up
  <2> QED BY <2>2 DEF HopsFrom
<1>2. ASSUME NEW k \in Nat, NEW up, HopsFrom(i, up, k) PROVE \E h : HopsFrom(i, h, k + 1)
  <2> DEFINE h == [n \in 0 .. k + 1 |-> IF n = 0 THEN i ELSE parent[up[n - 1]]]
  <2>1. ASSUME NEW n \in 0 .. k PROVE h[n] = up[n]
    <3>1. up = [m \in 0 .. k |-> IF m = 0 THEN i ELSE parent[up[m - 1]]]
      BY <1>2 DEF HopsFrom
    <3>2. up[n] = IF n = 0 THEN i ELSE parent[up[n - 1]]
      BY <3>1, Zenon
    <3>3. n \in 0 .. k + 1
      OBVIOUS
    <3> QED BY <3>2, <3>3
  <2>2. \A n \in 0 .. k + 1 : n # 0 => n - 1 \in 0 .. k
    OBVIOUS
  <2>3. h = [n \in 0 .. k + 1 |-> IF n = 0 THEN i ELSE parent[h[n - 1]]]
    BY <2>1, <2>2
  <2> HIDE DEF h
  <2> QED BY <2>3 DEF HopsFrom
<1>3. bad = {}
  <2>1. SUFFICES ASSUME bad # {} PROVE FALSE
    OBVIOUS
  <2> DEFINE k == Min(bad)
  <2>2. k \in bad /\ \A m \in bad : k <= m
    BY <2>1, MinExists
  <2> HIDE DEF k
  <2>3. k \in Nat /\ k # 0
    BY <1>1, <2>2
  <2>4. k - 1 \in Nat /\ k - 1 \notin bad /\ (k - 1) + 1 = k
    BY <2>2, <2>3
  <2>5. PICK up : HopsFrom(i, up, k - 1)
    BY <2>4
  <2>6. \E h : HopsFrom(i, h, (k - 1) + 1)
    BY <1>2, <2>4, <2>5
  <2> QED BY <2>2, <2>4, <2>6
<1> QED BY <1>3

\* Each hop, and RootOf is where N of them lead.
LEMMA HopsLead ==
    ASSUME TypeOK, NEW i \in Ids
    PROVE  \E up \in [0 .. N -> Ids] :
              /\ up[0] = i /\ \A n \in 1 .. N : up[n] = parent[up[n - 1]]
              /\ RootOf(i) = up[N]
<1> DEFINE up == CHOOSE up : HopsFrom(i, up, N)
<1>1. HopsFrom(i, up, N)
  BY NAssumption, HopsExist
<1>2. RootOf(i) = up[N]
  BY DEF RootOf, HopsFrom
<1> HIDE DEF up
<1>3. up = [n \in 0 .. N |-> IF n = 0 THEN i ELSE parent[up[n - 1]]]
  BY <1>1 DEF HopsFrom
<1>4. up[0] = i /\ \A n \in 1 .. N : up[n] = parent[up[n - 1]]
  <2>1. \A n \in 0 .. N : up[n] = IF n = 0 THEN i ELSE parent[up[n - 1]]
    BY <1>3, Zenon
  <2>2. 0 \in 0 .. N /\ \A n \in 1 .. N : n \in 0 .. N /\ n # 0
    BY NAssumption
  <2> QED BY <2>1, <2>2
<1> DEFINE bad == {n \in 0 .. N : up[n] \notin Ids}
<1>5. bad = {}
  <2>1. SUFFICES ASSUME bad # {} PROVE FALSE
    OBVIOUS
  <2> DEFINE k == Min(bad)
  <2>2. k \in bad /\ \A m \in bad : k <= m
    BY <2>1, MinExists, NAssumption
  <2> HIDE DEF k
  <2>3. k \in 1 .. N /\ k - 1 \in 0 .. N
    BY <1>4, <2>2, NAssumption
  <2>4. up[k - 1] \in Ids
    BY <2>2, <2>3, NAssumption
  <2> QED BY <1>4, <2>2, <2>3, <2>4 DEF TypeOK
<1>6. up \in [0 .. N -> Ids]
  <2>1. DOMAIN up = 0 .. N /\ up = [n \in 0 .. N |-> up[n]]
    BY <1>3, Zenon
  <2> QED BY <1>5, <2>1
<1> QED BY <1>2, <1>4, <1>6

\* RootOf finds the root of the tree a signal is in: of N + 1 hops two lead to the
\* same signal, and the hops between them pass a root.
LEMMA Rooted ==
    ASSUME TypeOK, Forest, NEW i \in Ids
    PROVE  /\ RootOf(i) \in Ids /\ parent[RootOf(i)] = RootOf(i)
           /\ \A S \in Trees : i \in S <=> RootOf(i) \in S
<1>1. PICK up \in [0 .. N -> Ids] :
         /\ up[0] = i /\ \A n \in 1 .. N : up[n] = parent[up[n - 1]]
         /\ RootOf(i) = up[N]
  BY HopsLead
<1>2. PICK a \in 0 .. N, b \in 0 .. N : a < b /\ up[a] = up[b]
  <2>1. IsFiniteSet(0 .. N) /\ Cardinality(0 .. N) = N + 1
    BY FS_Interval, NAssumption
  <2>2. IsFiniteSet(Ids) /\ Cardinality(Ids) = N
    BY FS_Interval, NAssumption DEF Ids
  <2>3. \E x, y \in 0 .. N : x # y /\ up[x] = up[y]
    <3>1. Cardinality(Ids) < Cardinality(0 .. N)
      BY <2>1, <2>2, NAssumption
    <3> QED BY <2>1, <2>2, <3>1, FS_PigeonHole, Zenon
  <2>4. PICK x \in 0 .. N, y \in 0 .. N : x # y /\ up[x] = up[y]
    BY <2>3
  <2>5. x < y \/ y < x
    BY <2>4
  <2> QED BY <2>4, <2>5
<1>3. PICK n0 \in 0 .. N : parent[up[n0]] = up[n0]
  <2> DEFINE S == {up[n] : n \in a .. b}
  <2>1. S \in SUBSET Ids /\ S # {}
    <3>1. a \in a .. b /\ \A n \in a .. b : n \in 0 .. N
      BY <1>2, NAssumption
    <3> QED BY <3>1
  <2>2. ASSUME NEW n \in a .. b PROVE parent[up[n]] \in S
    <3>1. CASE n < b
      <4>1. n + 1 \in a .. b /\ n + 1 \in 1 .. N /\ (n + 1) - 1 = n
        BY <1>2, <3>1, NAssumption
      <4>2. up[n + 1] = parent[up[n]]
        BY <1>1, <4>1
      <4> QED BY <4>1, <4>2
    <3>2. CASE n = b
      <4>1. a + 1 \in a .. b /\ a + 1 \in 1 .. N /\ (a + 1) - 1 = a
        BY <1>2, NAssumption
      <4>2. up[a + 1] = parent[up[n]]
        BY <1>1, <1>2, <3>2, <4>1
      <4> QED BY <4>1, <4>2
    <3> QED BY <1>2, <3>1, <3>2
  <2>3. \E s \in S : parent[s] = s
    BY <2>1, <2>2 DEF Forest
  <2>4. \A n \in a .. b : n \in 0 .. N
    BY <1>2, NAssumption
  <2> QED BY <2>3, <2>4
<1>4. up[N] = up[n0]
  <2> DEFINE bad == {n \in n0 .. N : up[n] # up[n0]}
  <2>1. SUFFICES ASSUME bad # {} PROVE FALSE
    BY NAssumption
  <2> DEFINE k == Min(bad)
  <2>2. k \in bad /\ \A m \in bad : k <= m
    <3>1. bad \subseteq Nat
      BY NAssumption
    <3> HIDE DEF bad
    <3> QED BY <2>1, <3>1, MinExists
  <2> HIDE DEF k
  <2>3. k \in 1 .. N /\ k - 1 \in n0 .. N
    BY <2>2, NAssumption
  <2>4. up[k - 1] = up[n0]
    BY <2>2, <2>3, NAssumption
  <2> QED BY <1>1, <1>3, <2>2, <2>3, <2>4
<1>5. ASSUME NEW S \in Trees PROVE i \in S <=> up[N] \in S
  <2> DEFINE bad == {n \in 0 .. N : ~ (i \in S <=> up[n] \in S)}
  <2>1. SUFFICES ASSUME bad # {} PROVE FALSE
    BY NAssumption
  <2> DEFINE k == Min(bad)
  <2>2. k \in bad /\ \A m \in bad : k <= m
    <3>1. bad \subseteq Nat
      BY NAssumption
    <3> HIDE DEF bad
    <3> QED BY <2>1, <3>1, MinExists
  <2> HIDE DEF k
  <2>3. k \in 1 .. N /\ k - 1 \in 0 .. N
    BY <1>1, <2>2, NAssumption
  <2>4. i \in S <=> up[k - 1] \in S
    BY <2>2, <2>3, NAssumption
  <2>5. up[k - 1] \in S <=> parent[up[k - 1]] \in S
    BY <2>3 DEF Trees
  <2> QED BY <1>1, <2>2, <2>3, <2>4, <2>5
<1>6. N \in 0 .. N
  BY NAssumption
<1> QED BY <1>1, <1>3, <1>4, <1>5, <1>6

\* A signal and its parent have one root.
LEMMA OneRoot ==
    ASSUME TypeOK, Forest, NEW i \in Ids
    PROVE  RootOf(parent[i]) = RootOf(i)
<1>1. parent[i] \in Ids
  BY DEF TypeOK
<1>2. PICK up \in [0 .. N -> Ids] :
         /\ up[0] = i /\ \A n \in 1 .. N : up[n] = parent[up[n - 1]]
         /\ RootOf(i) = up[N]
  BY HopsLead
<1>3. PICK on \in [0 .. N -> Ids] :
         /\ on[0] = parent[i] /\ \A n \in 1 .. N : on[n] = parent[on[n - 1]]
         /\ RootOf(parent[i]) = on[N]
  BY <1>1, HopsLead
<1> DEFINE bad == {n \in 0 .. N : on[n] # parent[up[n]]}
<1>4. bad = {}
  <2>1. SUFFICES ASSUME bad # {} PROVE FALSE
    OBVIOUS
  <2> DEFINE k == Min(bad)
  <2>2. k \in bad /\ \A m \in bad : k <= m
    <3>1. bad \subseteq Nat
      BY NAssumption
    <3> HIDE DEF bad
    <3> QED BY <2>1, <3>1, MinExists
  <2> HIDE DEF k
  <2>3. k \in 1 .. N /\ k - 1 \in 0 .. N
    BY <1>2, <1>3, <2>2, NAssumption
  <2>4. on[k - 1] = parent[up[k - 1]]
    BY <2>2, <2>3, NAssumption
  <2> QED BY <1>2, <1>3, <2>2, <2>3, <2>4
<1>5. on[N] = parent[up[N]]
  BY <1>4, NAssumption
<1> QED BY <1>2, <1>3, <1>5, Rooted

\* The signals of one root are a whole tree, on one side of every line that no
\* near pair in touching cells crosses.
LEMMA MembersTree ==
    ASSUME TypeOK, Forest, NEW r
    PROVE  Members(r) \in Trees
<1>1. ASSUME NEW i \in Ids PROVE i \in Members(r) <=> parent[i] \in Members(r)
  <2>1. parent[i] \in Ids
    BY DEF TypeOK
  <2> QED BY <2>1, OneRoot DEF Members
<1> QED BY <1>1 DEF Trees, Members

LEMMA MembersWithin ==
    ASSUME ClusterInv, Forest, NEW r, NEW S \in LinkedRegions, NEW i \in Members(r), i \in S
    PROVE  Members(r) \subseteq S
<1>1. S \in Trees
  BY DEF ClusterInv, NoneStray, Trees, LinkedRegions
<1>2. \A j \in Members(r) : j \in S <=> r \in S
  BY <1>1, Rooted DEF Members, ClusterInv
<1> QED BY <1>2

\* A finite set counts more than one exactly when it has two members.
LEMMA TwoAreMany ==
    ASSUME NEW S, IsFiniteSet(S)
    PROVE  Cardinality(S) > 1 <=> \E a, b \in S : a # b
<1>1. Cardinality(S) \in Nat
  BY FS_CardinalityType
<1>2. ASSUME Cardinality(S) > 1 PROVE \E a, b \in S : a # b
  <2>1. PICK a : a \in S
    BY <1>2, FS_EmptySet
  <2>2. S # {a}
    BY <1>2, FS_Singleton
  <2> QED BY <2>1, <2>2
<1>3. ASSUME NEW a \in S, NEW b \in S, a # b PROVE Cardinality(S) > 1
  <2>1. Cardinality(S) # 0
    BY FS_EmptySet
  <2>2. Cardinality(S) # 1
    <3>1. \A x : S # {x}
      BY <1>3
    <3> QED BY <3>1, FS_Singleton
  <2> QED BY <1>1, <2>1, <2>2
<1> QED BY <1>2, <1>3

(***************************************************************************)
(* Scores                                                                  *)
(***************************************************************************)
LEMMA ExtremesOfTwo ==
    ASSUME NEW a \in Int, NEW b \in Int
    PROVE  /\ Max({a, b}) = IF a >= b THEN a ELSE b
           /\ Min({a, b}) = IF a <= b THEN a ELSE b
BY DEF Max, Min

\* Where there are more terms, none of them smaller, the sum is no smaller.
LEMMA SumGrows ==
    ASSUME NEW E, IsFiniteSet(E), NEW D \in SUBSET E, NEW f \in [D -> Nat], NEW g \in [E -> Nat],
           \A x \in D : f[x] <= g[x]
    PROVE  /\ SumFunction(f) \in Nat /\ SumFunction(g) \in Nat
           /\ SumFunction(f) <= SumFunction(g)
<1>1. IsFiniteSet(D)
  BY FS_Subset
<1>2. PICK T : Sums(T, f, D)
  BY <1>1, SumsExist
<1>3. PICK U : Sums(U, g, E)
  BY SumsExist
<1> DEFINE bad == {n \in Nat : \E s \in SUBSET E : Cardinality(s) = n /\ ~ (T[s \cap D] <= U[s])}
<1>4. bad = {}
  <2>1. SUFFICES ASSUME bad # {} PROVE FALSE
    OBVIOUS
  <2> DEFINE n == Min(bad)
  <2>2. n \in bad /\ \A m \in bad : n <= m
    BY <2>1, MinExists
  <2> HIDE DEF n
  <2>3. PICK s \in SUBSET E : Cardinality(s) = n /\ ~ (T[s \cap D] <= U[s])
    BY <2>2
  <2>4. s # {}
    <3>1. {} \cap D = {} /\ T[{}] = 0 /\ U[{}] = 0
      BY <1>2, <1>3 DEF Sums
    <3> QED BY <2>3, <3>1
  <2>5. PICK x : x \in s
    BY <2>4
  <2>6. Cardinality(s \ {x}) = n - 1 /\ n - 1 \in Nat /\ s \ {x} \in SUBSET E
    BY <2>2, <2>3, <2>5, OneLess, FS_Subset
  <2>7. T[(s \ {x}) \cap D] <= U[s \ {x}]
    <3>1. n - 1 \notin bad
      <4>1. \A m \in bad : n <= m
        BY <2>2
      <4>2. n \in Nat
        BY <2>2
      <4>3. ~ (n <= n - 1)
        BY <4>2
      <4> HIDE DEF bad
      <4> QED BY <4>1, <4>3
    <3> QED BY <2>6, <3>1
  <2>8. U[s] = g[x] + U[s \ {x}] /\ g[x] \in Nat /\ U[s \ {x}] \in Nat
    BY <1>3, <2>5 DEF Sums
  <2>9. CASE x \in D
    <3>1. (s \cap D) \ {x} = (s \ {x}) \cap D
      OBVIOUS
    <3>2. T[s \cap D] = f[x] + T[(s \ {x}) \cap D] /\ T[(s \ {x}) \cap D] \in Nat
      BY <1>2, <2>5, <2>9, <3>1 DEF Sums
    <3>3. f[x] \in Nat /\ f[x] <= g[x]
      BY <2>9
    <3> QED BY <2>3, <2>7, <2>8, <3>2, <3>3
  <2>10. CASE x \notin D
    <3>1. s \cap D = (s \ {x}) \cap D
      BY <2>10
    <3>2. T[s \cap D] \in Nat
      BY <1>2 DEF Sums
    <3> QED BY <2>3, <2>7, <2>8, <3>1, <3>2
  <2> QED BY <2>9, <2>10
<1>5. Cardinality(E) \in Nat /\ E \cap D = D
  BY FS_CardinalityType
<1>6. T[D] <= U[E] /\ T[D] \in Nat /\ U[E] \in Nat
  <2>1. T[E \cap D] <= U[E]
    BY <1>4, <1>5
  <2> QED BY <1>2, <1>3, <1>5, <2>1 DEF Sums
<1> QED BY <1>1, <1>2, <1>3, <1>6, SumIs

\* A finite set of naturals that has a member has a greatest one: its sum bounds it.
LEMMA MaxExists ==
    ASSUME NEW T, IsFiniteSet(T), T \subseteq Nat, T # {}
    PROVE  Max(T) \in T /\ \A y \in T : Max(T) >= y
<1> DEFINE id == [x \in T |-> x]
           bounds == {b \in Nat : \A y \in T : y <= b}
           m == Min(bounds)
<1>1. PICK U : Sums(U, id, T)
  BY SumsExist
<1>2. U[T] \in bounds
  <2>1. U[T] \in Nat
    BY <1>1 DEF Sums
  <2>2. ASSUME NEW y \in T PROVE y <= U[T]
    <3>1. U[T] = y + U[T \ {y}] /\ U[T \ {y}] \in Nat
      BY <1>1 DEF Sums
    <3>2. y \in Nat
      OBVIOUS
    <3> QED BY <3>1, <3>2
  <2> QED BY <2>1, <2>2
<1>3. m \in bounds /\ \A b \in bounds : m <= b
  BY <1>2, MinExists
<1> HIDE DEF m
<1>4. m \in T
  <2>1. SUFFICES ASSUME m \notin T PROVE FALSE
    OBVIOUS
  <2>2. PICK y : y \in T
    OBVIOUS
  <2>3. m - 1 \in Nat
    BY <1>3, <2>1, <2>2
  <2>4. \A z \in T : z <= m - 1
    BY <1>3, <2>1
  <2> QED BY <1>3, <2>3, <2>4
<1> QED BY <1>3, <1>4 DEF Max

\* A group of signals, by position.
Groups == UNION {[P -> SignalEvidences] : P \in {P \in SUBSET Nat : IsFiniteSet(P)}}

LEMMA SeverityGrows ==
    ASSUME NEW c \in Groups, NEW d \in Groups, ToSet(c) \subseteq ToSet(d), NEW k \in Kinds(c)
    PROVE  /\ Severity(c, k) \in Nat /\ Severity(d, k) \in Nat
           /\ Severity(c, k) <= Severity(d, k)
<1> DEFINE severities(g) == {s.severity : s \in {s \in ToSet(g) : s.kind = k}}
<1>1. ASSUME NEW g \in Groups PROVE IsFiniteSet(severities(g)) /\ severities(g) \subseteq Nat
  <2>1. PICK P \in SUBSET Nat : IsFiniteSet(P) /\ g \in [P -> SignalEvidences]
    BY DEF Groups
  <2> DEFINE of == [n \in P |-> g[n].severity]
             all == {of[n] : n \in P}
  <2>2. IsFiniteSet(all)
    <3>1. of \in Surjection(P, all)
      BY DEF Surjection
    <3> HIDE DEF all, of
    <3> QED BY <2>1, <3>1, FS_Surjection
  <2>3. severities(g) \subseteq all
    BY <2>1 DEF ToSet
  <2>4. all \subseteq Nat
    BY <2>1 DEF SignalEvidences
  <2> HIDE DEF all, severities
  <2> QED BY <2>2, <2>3, <2>4, FS_Subset
<1>2. severities(c) # {} /\ severities(c) \subseteq severities(d)
  BY DEF Kinds
<1>3. Severity(c, k) = Max(severities(c)) /\ Severity(d, k) = Max(severities(d))
  BY DEF Severity
<1> HIDE DEF severities
<1>4. /\ Max(severities(c)) \in severities(d) /\ Max(severities(d)) \in severities(d)
      /\ \A y \in severities(d) : Max(severities(d)) >= y
  BY <1>1, <1>2, MaxExists
<1>5. severities(d) \subseteq Nat
  BY <1>1
<1> QED BY <1>3, <1>4, <1>5

LEMMA WeightsAreNumbers ==
    ASSUME NEW domain \in Domains
    PROVE  \A k \in DOMAIN Adapter[domain].weights : Adapter[domain].weights[k] \in Nat
BY DEF Domains, Adapter, MilitaryAdapter, EscalationAdapter, EconomicAdapter, DisasterAdapter

LEMMA KindsFinite == ASSUME NEW g \in Groups PROVE IsFiniteSet(Kinds(g))
<1>1. PICK P \in SUBSET Nat : IsFiniteSet(P) /\ g \in [P -> SignalEvidences]
  BY DEF Groups
<1> DEFINE of == [n \in P |-> g[n].kind]
           all == {of[n] : n \in P}
<1>2. of \in Surjection(P, all)
  BY DEF Surjection
<1>3. Kinds(g) = all
  BY <1>1 DEF Kinds, ToSet
<1> HIDE DEF all, of
<1> QED BY <1>1, <1>2, <1>3, FS_Surjection

LEMMA CappedGrows ==
    ASSUME NEW cap \in Nat, NEW a \in Nat, NEW b \in Nat, a <= b
    PROVE  /\ Min({cap, a}) \in Nat /\ Min({cap, b}) \in Nat
           /\ Min({cap, a}) <= Min({cap, b})
<1>1. cap \in Int /\ a \in Int /\ b \in Int
  OBVIOUS
<1>2. /\ Min({cap, a}) = IF cap <= a THEN cap ELSE a
      /\ Min({cap, b}) = IF cap <= b THEN cap ELSE b
  BY <1>1, ExtremesOfTwo, Zenon
<1> QED BY <1>2

LEMMA PercentGrows ==
    ASSUME NEW a \in Nat, NEW b \in Nat, a <= b
    PROVE  a \div 100 \in Nat /\ b \div 100 \in Nat /\ a \div 100 <= b \div 100
OBVIOUS

\* More of the same product.
LEMMA ProductGrows ==
    ASSUME NEW w \in Nat, NEW a \in Nat, NEW b \in Nat, a <= b
    PROVE  w * a \in Nat /\ w * b \in Nat /\ w * a <= w * b
OBVIOUS

\* A group that holds another's signals scores no less.
LEMMA ScoreGrows ==
    ASSUME NEW domain \in Domains, NEW c \in Groups, NEW d \in Groups, ToSet(c) \subseteq ToSet(d)
    PROVE  /\ Score(domain, c) \in Nat /\ Score(domain, d) \in Nat
           /\ Score(domain, c) <= Score(domain, d)
<1> DEFINE weights == Adapter[domain].weights
           terms(g) == [k \in Kinds(g) \cap DOMAIN weights |-> weights[k] * Severity(g, k)]
           diversity(g) == Min({30, 12 * Max({0, Cardinality(Kinds(g)) - 2})})
           C == Kinds(c) \cap DOMAIN weights
           D == Kinds(d) \cap DOMAIN weights
<1>1. Kinds(c) \subseteq Kinds(d)
  BY DEF Kinds
<1>2. /\ IsFiniteSet(Kinds(c)) /\ IsFiniteSet(Kinds(d)) /\ IsFiniteSet(D)
      /\ Cardinality(Kinds(c)) \in Nat /\ Cardinality(Kinds(d)) \in Nat
      /\ Cardinality(Kinds(c)) <= Cardinality(Kinds(d))
  BY <1>1, KindsFinite, FS_Subset, FS_CardinalityType
<1>3. \A k \in DOMAIN weights : weights[k] \in Nat
  BY WeightsAreNumbers
<1>4. ASSUME NEW k \in C
      PROVE  weights[k] * Severity(c, k) \in Nat /\ weights[k] * Severity(d, k) \in Nat
             /\ weights[k] * Severity(c, k) <= weights[k] * Severity(d, k)
  <2>1. /\ Severity(c, k) \in Nat /\ Severity(d, k) \in Nat
        /\ Severity(c, k) <= Severity(d, k)
    BY SeverityGrows
  <2> HIDE DEF weights
  <2> QED BY <1>3, <2>1, ProductGrows
<1>5. ASSUME NEW k \in D PROVE weights[k] * Severity(d, k) \in Nat
  <2>1. Severity(d, k) \in Nat
    BY SeverityGrows
  <2> HIDE DEF weights
  <2> QED BY <1>3, <2>1, ProductGrows
<1>6. /\ SumFunction(terms(c)) \in Nat /\ SumFunction(terms(d)) \in Nat
      /\ SumFunction(terms(c)) <= SumFunction(terms(d))
  <2>1. terms(c) \in [C -> Nat] /\ terms(d) \in [D -> Nat] /\ C \in SUBSET D
    BY <1>1, <1>4, <1>5
  <2>2. \A k \in C : terms(c)[k] <= terms(d)[k]
    BY <1>1, <1>4
  <2> HIDE DEF terms, C, D
  <2> QED BY <1>2, <2>1, <2>2, SumGrows
<1>7. diversity(c) \in Nat /\ diversity(d) \in Nat /\ diversity(c) <= diversity(d)
  <2> DEFINE beyond(g) == Cardinality(Kinds(g)) - 2
  <2>1. /\ Max({0, beyond(c)}) = IF 0 >= beyond(c) THEN 0 ELSE beyond(c)
        /\ Max({0, beyond(d)}) = IF 0 >= beyond(d) THEN 0 ELSE beyond(d)
    BY <1>2, ExtremesOfTwo
  <2> DEFINE m(g) == Max({0, beyond(g)})
  <2>2. m(c) \in Nat /\ m(d) \in Nat /\ m(c) <= m(d)
    BY <1>2, <2>1
  <2> HIDE DEF m
  <2>3. diversity(c) = Min({30, 12 * m(c)}) /\ diversity(d) = Min({30, 12 * m(d)})
    BY DEF m
  <2> DEFINE x == 12 * m(c)
             y == 12 * m(d)
  <2>4. 30 \in Nat /\ x \in Nat /\ y \in Nat /\ x <= y
    BY <2>2
  <2> HIDE DEF diversity, x, y
  <2>5. Min({30, x}) \in Nat /\ Min({30, y}) \in Nat /\ Min({30, x}) <= Min({30, y})
    BY <2>4, CappedGrows, Zenon
  <2>6. diversity(c) = Min({30, x}) /\ diversity(d) = Min({30, y})
    BY <2>3 DEF x, y
  <2> QED BY <2>5, <2>6
<1> DEFINE total(g) == (SumFunction(terms(g)) + 100 * diversity(g) + 50) \div 100
<1>8. Score(domain, c) = Min({100, total(c)}) /\ Score(domain, d) = Min({100, total(d)})
  BY DEF Score
<1>9. total(c) \in Nat /\ total(d) \in Nat /\ total(c) <= total(d)
  <2> DEFINE s(g) == SumFunction(terms(g))
             v(g) == diversity(g)
  <2>1. s(c) \in Nat /\ s(d) \in Nat /\ s(c) <= s(d)
        /\ v(c) \in Nat /\ v(d) \in Nat /\ v(c) <= v(d)
    BY <1>6, <1>7
  <2> HIDE DEF s, v
  <2>2. total(c) = (s(c) + 100 * v(c) + 50) \div 100 /\ total(d) = (s(d) + 100 * v(d) + 50) \div 100
    BY DEF s, v
  <2> DEFINE x == s(c) + 100 * v(c) + 50
             y == s(d) + 100 * v(d) + 50
  <2>3. x \in Nat /\ y \in Nat /\ x <= y
    BY <2>1
  <2>4. total(c) = x \div 100 /\ total(d) = y \div 100
    BY <2>2
  <2> HIDE DEF total, x, y
  <2>5. x \div 100 \in Nat /\ y \div 100 \in Nat /\ x \div 100 <= y \div 100
    BY <2>3, PercentGrows, Zenon
  <2> QED BY <2>4, <2>5, Zenon
<1> HIDE DEF total
<1>10. 100 \in Nat
  OBVIOUS
<1>11. /\ Min({100, total(c)}) \in Nat /\ Min({100, total(d)}) \in Nat
       /\ Min({100, total(c)}) <= Min({100, total(d)})
  BY <1>9, <1>10, CappedGrows, Zenon
<1> QED BY <1>8, <1>11, Zenon

(***************************************************************************)
(* Reports                                                                 *)
(***************************************************************************)
Geographic(domain) == Adapter[domain].mode = "geographic"

KeyOf(domain, s) == IF Adapter[domain].mode = "country" THEN s.country ELSE EntityKey(s)

\* The positions of one cluster: a tree of the grid, or the rows with a key.
Group(r, n) ==
    IF Geographic(r.domain) THEN Members(n)
    ELSE {m \in DOMAIN r.rows : KeyOf(r.domain, r.rows[m]) = n}

\* What can name a cluster: a root, or a key.
Names(r) ==
    IF Geographic(r.domain) THEN Ids ELSE {KeyOf(r.domain, s) : s \in ToSet(r.rows)} \ {NoKey}

\* The three ways of clustering are one: the groups of more than one, by name.
LEMMA ClustersAre ==
    ASSUME NEW r \in Requests
    PROVE  Clusters(r) =
              [n \in {n \in Names(r) : Cardinality(Group(r, n)) > 1} |->
                  [key |-> IF Geographic(r.domain) THEN NoKey ELSE n,
                   signals |-> [m \in Group(r, n) |-> r.rows[m]]]]
<1>1. r.domain \in Domains
  BY RequestsAssumption
<1>2. Adapter[r.domain].mode \in {"geographic", "country", "entity"}
  BY <1>1 DEF Domains, Adapter, MilitaryAdapter, EscalationAdapter, EconomicAdapter, DisasterAdapter
<1>3. CASE Adapter[r.domain].mode = "geographic"
  <2>1. Clusters(r) = ByProximity(r.rows)
    BY <1>3 DEF Clusters, Mode
  <2>2. Names(r) = Ids /\ \A n : Group(r, n) = Members(n)
    BY <1>3 DEF Names, Group, Geographic
  <2>3. /\ DOMAIN Output = {n \in Ids : Cardinality(Members(n)) > 1}
        /\ \A n \in DOMAIN Output : Output[n] = Members(n)
    BY DEF Output
  <2>4. Geographic(r.domain)
    BY <1>3 DEF Geographic
  <2>5. {n \in Names(r) : Cardinality(Group(r, n)) > 1} = DOMAIN Output
    BY <2>2, <2>3
  <2>6. ByProximity(r.rows) =
           [n \in DOMAIN Output |-> [key |-> NoKey, signals |-> [m \in Members(n) |-> r.rows[m]]]]
    BY <2>3 DEF ByProximity
  <2> HIDE DEF Output
  <2> QED BY <2>1, <2>2, <2>4, <2>5, <2>6
<1>4. CASE Adapter[r.domain].mode = "country"
  <2>1. Clusters(r) = ByCountry(r.rows)
    BY <1>4 DEF Clusters, Mode
  <2>2. \A s : KeyOf(r.domain, s) = s.country
    BY <1>4 DEF KeyOf
  <2> QED BY <1>4, <2>1, <2>2 DEF ByCountry, Grouped, Names, Group, Geographic
<1>5. CASE Adapter[r.domain].mode = "entity"
  <2>1. Clusters(r) = ByEntity(r.rows)
    BY <1>5 DEF Clusters, Mode
  <2>2. \A s : KeyOf(r.domain, s) = EntityKey(s)
    BY <1>5 DEF KeyOf
  <2> DEFINE of(k) == {n \in DOMAIN r.rows : EntityKey(r.rows[n]) = k}
  <2>3. ByEntity(r.rows) =
           [k \in {k \in {EntityKey(s) : s \in ToSet(r.rows)} \ {NoKey} : Cardinality(of(k)) > 1} |->
               [key |-> k, signals |-> [n \in of(k) |-> r.rows[n]]]]
    BY DEF ByEntity, Grouped
  <2>4. ~ Geographic(r.domain)
    BY <1>5 DEF Geographic
  <2>5. \A k : Group(r, k) = of(k)
    BY <2>2, <2>4 DEF Group
  <2>6. Names(r) = {EntityKey(s) : s \in ToSet(r.rows)} \ {NoKey}
    BY <2>2, <2>4 DEF Names
  <2> HIDE DEF of
  <2> QED BY <2>1, <2>3, <2>4, <2>5, <2>6
<1> QED BY <1>2, <1>3, <1>4, <1>5

LEMMA FoundAre ==
    ASSUME NEW r \in Requests
    PROVE  /\ DOMAIN Clusters(r) = {n \in Names(r) : Cardinality(Group(r, n)) > 1}
           /\ \A n \in DOMAIN Clusters(r) :
                 /\ Geographic(r.domain) => Clusters(r)[n].key = NoKey
                 /\ ~ Geographic(r.domain) => Clusters(r)[n].key = n
                 /\ Clusters(r)[n].signals = [m \in Group(r, n) |-> r.rows[m]]
<1> DEFINE found == Clusters(r)
<1>1. found = [n \in {n \in Names(r) : Cardinality(Group(r, n)) > 1} |->
                  [key |-> IF Geographic(r.domain) THEN NoKey ELSE n,
                   signals |-> [m \in Group(r, n) |-> r.rows[m]]]]
  BY ClustersAre
<1> HIDE DEF found
<1>2. DOMAIN found = {n \in Names(r) : Cardinality(Group(r, n)) > 1}
  BY <1>1
<1>3. ASSUME NEW n \in DOMAIN found
      PROVE  /\ Geographic(r.domain) => found[n].key = NoKey
             /\ ~ Geographic(r.domain) => found[n].key = n
             /\ found[n].signals = [m \in Group(r, n) |-> r.rows[m]]
  <2>1. found[n] = [key |-> IF Geographic(r.domain) THEN NoKey ELSE n,
                    signals |-> [m \in Group(r, n) |-> r.rows[m]]]
    BY <1>1, <1>3
  <2>2. /\ found[n].key = IF Geographic(r.domain) THEN NoKey ELSE n
        /\ found[n].signals = [m \in Group(r, n) |-> r.rows[m]]
    BY <2>1
  <2> QED BY <2>2
<1> QED BY <1>2, <1>3 DEF found

(***************************************************************************)
(* What is known of the last report when the next is made                  *)
(***************************************************************************)
\* What is computed has been posted, and its signals are where they say.
Placed ==
    request # Idle =>
        /\ request \in Requests /\ Len(request.rows) \in 1 .. N
        /\ place = [i \in Ids |-> IF i <= Len(request.rows) /\ Mode(request) = "geographic"
                                  THEN request.rows[i].place ELSE Nowhere]

\* The sets of rows that no pair near enough in touching cells straddles.
Parts(rows) ==
    {W \in SUBSET DOMAIN rows : \A n, m \in DOMAIN rows :
        LET p == rows[n].place
            q == rows[m].place
        IN  Near(p, q) /\ Touch(p, q) => (n \in W <=> m \in W)}

\* A card holds some of the rows, scored as they are. Those of a place are on one
\* side of every line; those of a key have that key, and the engine remembers
\* their score.
CardHeld(c, domain, rows, states) ==
    LET P == DOMAIN c.signals
    IN  /\ P \subseteq DOMAIN rows /\ c.signals = [n \in P |-> rows[n]]
        /\ \E a, b \in P : a # b
        /\ c.score = Score(domain, c.signals) /\ c.score >= Threshold
        /\ Geographic(domain) =>
              c.key = NoKey /\ \A W \in Parts(rows) : P \subseteq W \/ P \cap W = {}
        /\ ~ Geographic(domain) =>
              /\ c.key # NoKey /\ \A n \in P : KeyOf(domain, rows[n]) = c.key
              /\ \A m \in DOMAIN states : states[m].key = c.key => states[m].score = c.score

LastHeld ==
    /\ DOMAIN previous = Domains
    /\ \/ last = NoReport
       \/ /\ last.domain \in Domains /\ last.rows \in Seq(SignalEvidences)
          /\ \A c \in last.cards : CardHeld(c, last.domain, last.rows, previous[last.domain])

FindingInv == EngineInv /\ Forest /\ Placed /\ LastHeld

\* Some of a sequence of signals are a group.
LEMMA RowsAreGroups ==
    ASSUME NEW rows \in Seq(SignalEvidences), NEW P \in SUBSET DOMAIN rows
    PROVE  /\ [n \in P |-> rows[n]] \in Groups /\ IsFiniteSet(P)
           /\ P \subseteq Nat
<1>1. DOMAIN rows = 1 .. Len(rows) /\ Len(rows) \in Nat
  BY LenProperties
<1>2. \A n \in DOMAIN rows : rows[n] \in SignalEvidences
  BY <1>1
<1>3. IsFiniteSet(P)
  <2>1. IsFiniteSet(1 .. Len(rows))
    BY <1>1, FS_Interval
  <2> QED BY <1>1, <2>1, FS_Subset
<1>4. P \in SUBSET Nat
  BY <1>1
<1>5. [n \in P |-> rows[n]] \in [P -> SignalEvidences]
  BY <1>2
<1> QED BY <1>3, <1>4, <1>5 DEF Groups

\* The rows of a request are signals, at the first of the positions.
LEMMA RequestRows ==
    ASSUME Placed, request # Idle
    PROVE  /\ request \in Requests /\ request.domain \in Domains
           /\ request.rows \in Seq(SignalEvidences)
           /\ DOMAIN request.rows = 1 .. Len(request.rows) /\ DOMAIN request.rows \subseteq Ids
<1>1. request \in Requests /\ Len(request.rows) \in 1 .. N
  BY DEF Placed
<1>2. request.domain \in Domains /\ request.rows \in Seq(SignalEvidences)
  BY <1>1, RequestsAssumption
<1>3. DOMAIN request.rows = 1 .. Len(request.rows)
  BY <1>2, LenProperties
<1> QED BY <1>1, <1>2, <1>3, NAssumption DEF Ids

\* Rows are near and touching as the signals on the grid are; a signal that is no
\* row is near nothing.
LEMMA RowsOnGrid ==
    ASSUME Placed, request # Idle, Geographic(request.domain)
    PROVE  /\ \A n \in DOMAIN request.rows : place[n] = request.rows[n].place
           /\ \A i \in Ids \ DOMAIN request.rows : place[i] = Nowhere
<1>1. place = [i \in Ids |-> IF i <= Len(request.rows) /\ Mode(request) = "geographic"
                             THEN request.rows[i].place ELSE Nowhere]
  BY DEF Placed
<1>2. Mode(request) = "geographic"
  BY DEF Geographic, Mode
<1>3. /\ DOMAIN request.rows = 1 .. Len(request.rows) /\ Len(request.rows) \in Nat
      /\ DOMAIN request.rows \subseteq Ids
  BY RequestRows, LenProperties
<1>4. \A i \in Ids : i <= Len(request.rows) <=> i \in DOMAIN request.rows
  BY <1>3, NAssumption DEF Ids
<1> QED BY <1>1, <1>2, <1>3, <1>4

LEMMA PartsAreRegions ==
    ASSUME TypeOK, Placed, request # Idle, Geographic(request.domain),
           NEW W \in Parts(request.rows)
    PROVE  W \in LinkedRegions
<1>1. DOMAIN request.rows \subseteq Ids
  BY RequestRows
<1>2. ASSUME NEW i \in Ids, NEW j \in Ids, Near(place[i], place[j]), Touch(place[i], place[j])
      PROVE  i \in W <=> j \in W
  <2>1. place[i] \in Places /\ place[j] \in Places
    BY DEF TypeOK
  <2>2. place[i] # Nowhere /\ place[j] # Nowhere
    BY <1>2, <2>1, NowhereAssumption
  <2>3. i \in DOMAIN request.rows /\ j \in DOMAIN request.rows
    BY <2>2, RowsOnGrid
  <2>4. place[i] = request.rows[i].place /\ place[j] = request.rows[j].place
    BY <2>3, RowsOnGrid
  <2> QED BY <1>2, <2>3, <2>4 DEF Parts
<1>3. W \in SUBSET Ids
  BY <1>1 DEF Parts
<1> QED BY <1>2, <1>3 DEF LinkedRegions

\* A cluster is of two rows at least, and one of places on one side of every line.
LEMMA GroupHeld ==
    ASSUME FindingInv, request # Idle, NEW n, Cardinality(Group(request, n)) > 1
    PROVE  LET P == Group(request, n)
           IN  /\ P \in SUBSET DOMAIN request.rows /\ \E a, b \in P : a # b
               /\ Geographic(request.domain) =>
                     \A W \in Parts(request.rows) : P \subseteq W \/ P \cap W = {}
<1> DEFINE P == Group(request, n)
<1>1. ClusterInv /\ TypeOK /\ Forest /\ Placed
  BY DEF FindingInv, EngineInv, ClusterInv
<1>2. IsFiniteSet(Ids) /\ DOMAIN request.rows \subseteq Ids
  BY <1>1, RequestRows, FS_Interval, NAssumption DEF Ids
<1>3. P \subseteq Ids
  BY <1>2 DEF Group, Members
<1>4. \E a, b \in P : a # b
  <2>1. IsFiniteSet(P)
    BY <1>2, <1>3, FS_Subset
  <2> HIDE DEF P
  <2>2. Cardinality(P) > 1
    BY DEF P
  <2> QED BY <2>1, <2>2, TwoAreMany
<1>5. CASE ~ Geographic(request.domain)
  BY <1>4, <1>5 DEF Group
<1>6. CASE Geographic(request.domain)
  <2>1. P = Members(n)
    BY <1>6 DEF Group
  <2>2. ASSUME NEW S \in LinkedRegions PROVE P \subseteq S \/ P \cap S = {}
    BY <1>1, <2>1, MembersWithin
  <2>3. ASSUME NEW W \in Parts(request.rows) PROVE P \subseteq W \/ P \cap W = {}
    BY <1>1, <1>6, <2>2, PartsAreRegions
  <2>4. ASSUME NEW i \in P PROVE i \in DOMAIN request.rows
    <3>1. SUFFICES ASSUME i \notin DOMAIN request.rows PROVE FALSE
      OBVIOUS
    <3>2. i \in Ids /\ place[i] = Nowhere
      BY <1>1, <1>3, <1>6, <2>4, <3>1, RowsOnGrid
    <3>3. ASSUME NEW j \in Ids PROVE ~ Near(place[i], place[j]) /\ ~ Near(place[j], place[i])
      BY <1>1, <3>2, NowhereAssumption DEF TypeOK
    <3>4. {i} \in LinkedRegions
      BY <3>2, <3>3 DEF LinkedRegions
    <3>5. P \subseteq {i} \/ P \cap {i} = {}
      BY <2>2, <3>4
    <3> QED BY <1>4, <2>4, <3>5
  <2> QED BY <1>4, <2>3, <2>4
<1> QED BY <1>5, <1>6

\* A report is held to be what it is.
LEMMA ReportHeld == FindingInv /\ Report => LastHeld'
<1> SUFFICES ASSUME FindingInv, Report PROVE LastHeld'
  OBVIOUS
<1> DEFINE found == Clusters(request)
           domain == request.domain
           rows == request.rows
           reached == {n \in DOMAIN found : Score(domain, found[n].signals) >= Threshold}
           states == [n \in reached |-> State(domain, found[n])]
<1>1. /\ request # Idle /\ DOMAIN previous = Domains /\ Placed
      /\ previous' = [previous EXCEPT ![domain] = states]
      /\ last' = [domain |-> domain, rows |-> rows,
                  cards |-> {Card(domain, found[n]) : n \in reached}]
  BY DEF Report, FindingInv, LastHeld
<1>2. /\ request \in Requests /\ domain \in Domains /\ rows \in Seq(SignalEvidences)
  BY <1>1, RequestRows
<1>3. ASSUME NEW n \in reached
      PROVE  /\ Cardinality(Group(request, n)) > 1 /\ n \in Names(request)
             /\ Geographic(domain) => found[n].key = NoKey
             /\ ~ Geographic(domain) => found[n].key = n
             /\ found[n].signals = [m \in Group(request, n) |-> rows[m]]
             /\ Score(domain, found[n].signals) >= Threshold
  BY <1>2, FoundAre
<1> HIDE DEF found, reached
<1>4. ASSUME NEW n \in reached PROVE CardHeld(Card(domain, found[n]), domain, rows, states)
  <2> DEFINE P == Group(request, n)
             c == Card(domain, found[n])
  <2>1. /\ P \in SUBSET DOMAIN rows /\ \E a, b \in P : a # b
        /\ Geographic(domain) => \A W \in Parts(rows) : P \subseteq W \/ P \cap W = {}
    BY <1>1, <1>3, GroupHeld
  <2>2. /\ c.key = found[n].key /\ c.signals = found[n].signals
        /\ c.score = Score(domain, found[n].signals)
    BY DEF Card
  <2>3. /\ c.signals = [m \in P |-> rows[m]] /\ DOMAIN c.signals = P
        /\ c.score >= Threshold /\ c.score = Score(domain, c.signals)
    BY <1>3, <2>2
  <2>4. ASSUME ~ Geographic(domain)
        PROVE  /\ c.key # NoKey /\ \A m \in P : KeyOf(domain, rows[m]) = c.key
               /\ \A m \in DOMAIN states : states[m].key = c.key => states[m].score = c.score
    <3>1. n # NoKey /\ \A m \in P : KeyOf(domain, rows[m]) = n
      BY <1>3, <2>4 DEF Names, Group
    <3>2. ASSUME NEW m \in reached
          PROVE  states[m].key = m /\ states[m].score = Score(domain, found[m].signals)
      <4>1. found[m].key = m
        BY <1>3, <2>4
      <4>2. states[m] = State(domain, found[m])
        OBVIOUS
      <4> QED BY <4>1, <4>2 DEF State
    <3>3. c.key = n
      BY <1>3, <2>2, <2>4
    <3>4. DOMAIN states = reached
      OBVIOUS
    <3> HIDE DEF c, P, states
    <3> QED BY <2>2, <3>1, <3>2, <3>3, <3>4
  <2> HIDE DEF P, c, states
  <2>5. Geographic(domain) => c.key = NoKey
    BY <1>3, <2>2
  <2>6. CardHeld(c, domain, rows, states)
    BY <2>1, <2>3, <2>4, <2>5 DEF CardHeld
  <2> QED BY <2>6 DEF c
<1>5. previous'[domain] = states /\ DOMAIN previous' = Domains
  BY <1>1, <1>2
<1> HIDE DEF states
<1>6. \A c \in last'.cards : CardHeld(c, last'.domain, last'.rows, previous'[last'.domain])
  BY <1>1, <1>4, <1>5
<1> QED BY <1>1, <1>2, <1>5, <1>6 DEF LastHeld

LEMMA FindingStep == FindingInv /\ [EngineNext]_allVars => FindingInv'
<1> SUFFICES ASSUME FindingInv, [EngineNext]_allVars PROVE Forest' /\ Placed' /\ LastHeld'
  BY EngineStep DEF FindingInv
<1> USE DEF FindingInv
<1>1. CASE UNCHANGED <<request, previous, last, vars>>
  BY <1>1 DEF Forest, Placed, LastHeld, vars
<1>2. ASSUME NEW r \in Requests, request = Idle, Accept(r) PROVE Forest' /\ Placed' /\ LastHeld'
  <2>1. Forest' /\ LastHeld'
    BY <1>2 DEF Accept, Forest, LastHeld
  <2>2. Placed'
    BY <1>2 DEF Accept, Placed
  <2> QED BY <2>1, <2>2
<1>3. CASE Cluster
  <2>1. Next /\ UNCHANGED <<request, previous, last>>
    BY <1>3 DEF Cluster, engineVars, Next
  <2>2. Forest'
    BY <2>1, ForestStep DEF EngineInv
  <2>3. place' = place
    BY <2>1 DEF Next, vars, Compare, FindFirst, FindSecond, Halve, Join
  <2> QED BY <2>1, <2>2, <2>3 DEF Placed, LastHeld
<1>4. CASE Report \/ TimeOut
  <2>1. Rest /\ request' = Idle
    BY <1>4 DEF Report, TimeOut
  <2>2. Forest' /\ Placed'
    BY <2>1 DEF Rest, Forest, Placed
  <2>3. CASE Report
    BY <2>2, <2>3, ReportHeld
  <2>4. CASE TimeOut
    BY <2>2, <2>4 DEF TimeOut, LastHeld, NewEngine
  <2> QED BY <1>4, <2>3, <2>4
<1>5. ASSUME NEW r \in Requests, Refuse(r) PROVE Forest' /\ Placed' /\ LastHeld'
  BY <1>1, <1>5 DEF Refuse
<1>6. CASE Renew
  <2>1. UNCHANGED <<request, vars>> /\ last' = NoReport /\ previous' = NewEngine
    BY <1>6 DEF Renew
  <2> QED BY <2>1 DEF Forest, Placed, LastHeld, NewEngine, vars
<1>7. CASE UNCHANGED allVars
  BY <1>1, <1>7 DEF allVars, engineVars
<1> QED BY <1>2, <1>3, <1>4, <1>5, <1>6, <1>7 DEF EngineNext

LEMMA FindingAlways == EngineSpec => []FindingInv
<1>1. EngineInit => EngineInv
  BY EngineStarts
<1>2. EngineInit => Forest /\ Placed /\ LastHeld
  BY DEF EngineInit, AtRest, Forest, Placed, LastHeld, NewEngine
<1> QED BY <1>1, <1>2, FindingStep, PTL DEF EngineSpec, FindingInv

(***************************************************************************)
(* More is never less                                                      *)
(***************************************************************************)
\* When all pairs have been compared, the rows of one tree are on one side of
\* every line, whatever rows they are picked from.
LEMMA TreeOfOldRows ==
    ASSUME FindingInv, request # Idle, Finished, Geographic(request.domain),
           NEW old \in Seq(SignalEvidences), NEW to \in [DOMAIN old -> DOMAIN request.rows],
           \A n \in DOMAIN old : request.rows[to[n]] = old[n],
           NEW S \in Trees
    PROVE  {n \in DOMAIN old : to[n] \in S} \in Parts(old)
<1>1. TypeOK /\ JoinInv /\ Placed
  BY DEF FindingInv, EngineInv, JoinInv
<1>2. ASSUME NEW n \in DOMAIN old
      PROVE  to[n] \in Ids /\ place[to[n]] = old[n].place /\ place[to[n]] \in Places
  <2>1. to[n] \in DOMAIN request.rows
    OBVIOUS
  <2>2. to[n] \in Ids /\ place[to[n]] = request.rows[to[n]].place
    BY <1>1, <2>1, RequestRows, RowsOnGrid
  <2> QED BY <1>1, <2>2 DEF TypeOK
<1>3. ASSUME NEW n \in DOMAIN old, NEW m \in DOMAIN old,
             Near(old[n].place, old[m].place), Touch(old[n].place, old[m].place)
      PROVE  to[n] \in S <=> to[m] \in S
  <2> DEFINE i == to[n]
             j == to[m]
  <2>1. /\ i \in Ids /\ j \in Ids /\ place[i] \in Places /\ place[j] \in Places
        /\ Near(place[i], place[j]) /\ Touch(place[i], place[j])
    BY <1>2, <1>3
  <2> HIDE DEF i, j
  <2>2. Near(place[j], place[i]) /\ Touch(place[j], place[i])
    BY <2>1, NearAssumption DEF Touch, Adjacent
  <2>3. ~ Pending(<<i, j>>) /\ ~ Pending(<<j, i>>)
    BY DEF Finished, Pending
  <2>4. i < j \/ j < i \/ i = j
    BY <2>1, NAssumption DEF Ids
  <2>5. i \in S <=> j \in S
    BY <1>1, <2>1, <2>2, <2>3, <2>4 DEF JoinInv, DealtWith
  <2> QED BY <2>5 DEF i, j
<1> QED BY <1>3 DEF Parts

\* The rows of a card are in one cluster of a later run that has them all.
LEMMA CardFoundAgain ==
    ASSUME FindingInv, request # Idle, Finished, NEW old \in Seq(SignalEvidences),
           NEW to \in [DOMAIN old -> DOMAIN request.rows],
           \A n \in DOMAIN old : request.rows[to[n]] = old[n], IsInjective(old),
           NEW c, NEW states, CardHeld(c, request.domain, old, states)
    PROVE  \E n \in DOMAIN Clusters(request) :
              /\ \A p \in DOMAIN c.signals : to[p] \in Group(request, n)
              /\ ~ Geographic(request.domain) => c.key = n
<1> DEFINE P == DOMAIN c.signals
           domain == request.domain
           rows == request.rows
<1>1. PICK a \in P, b \in P : a # b
  BY DEF CardHeld
<1>2. P \subseteq DOMAIN old
  BY DEF CardHeld
<1>3. to[a] # to[b]
  BY <1>1, <1>2 DEF IsInjective
<1>4. Placed /\ TypeOK /\ Forest
  BY DEF FindingInv, EngineInv, JoinInv
<1>5. \E n \in Names(request) :
         /\ \A p \in P : to[p] \in Group(request, n)
         /\ ~ Geographic(domain) => c.key = n
  <2>1. CASE Geographic(domain)
    <3> DEFINE r == RootOf(to[a])
               W == {n \in DOMAIN old : to[n] \in Members(r)}
    <3>1. to[a] \in Ids
      BY <1>1, <1>2, <1>4, RequestRows
    <3>2. r \in Ids /\ to[a] \in Members(r)
      BY <1>4, <3>1, Rooted DEF Members
    <3> HIDE DEF r
    <3>3. W \in Parts(old)
      BY <1>4, <2>1, MembersTree, TreeOfOldRows
    <3>4. P \subseteq W
      <4>1. P \subseteq W \/ P \cap W = {}
        BY <2>1, <3>3 DEF CardHeld
      <4>2. a \in W
        BY <1>1, <1>2, <3>2
      <4> QED BY <1>1, <4>1, <4>2
    <3> QED BY <2>1, <3>2, <3>4 DEF Names, Group
  <2>2. CASE ~ Geographic(domain)
    <3>1. c.key # NoKey /\ \A p \in P : KeyOf(domain, old[p]) = c.key
      BY <2>2 DEF CardHeld
    <3>2. \A p \in P : to[p] \in DOMAIN rows /\ KeyOf(domain, rows[to[p]]) = c.key
      BY <1>2, <3>1
    <3>3. c.key \in Names(request)
      BY <1>1, <2>2, <3>1, <3>2 DEF Names, ToSet
    <3> QED BY <2>2, <3>2, <3>3 DEF Group
  <2> QED BY <2>1, <2>2
<1>6. PICK n \in Names(request) :
         /\ \A p \in P : to[p] \in Group(request, n)
         /\ ~ Geographic(domain) => c.key = n
  BY <1>5
<1>7. Cardinality(Group(request, n)) > 1
  <2>1. IsFiniteSet(Ids) /\ DOMAIN rows \subseteq Ids
    BY <1>4, RequestRows, FS_Interval, NAssumption DEF Ids
  <2>2. Group(request, n) \subseteq Ids
    BY <2>1 DEF Group, Members
  <2>3. IsFiniteSet(Group(request, n))
    BY <2>1, <2>2, FS_Subset
  <2>4. to[a] \in Group(request, n) /\ to[b] \in Group(request, n)
    BY <1>1, <1>6
  <2> QED BY <1>3, <2>3, <2>4, TwoAreMany
<1>8. n \in DOMAIN Clusters(request)
  BY <1>4, <1>7, RequestRows, FoundAre
<1> QED BY <1>6, <1>8

\* A keyed cluster that scores no less than all remembered under its key is not
\* called de-escalating.
LEMMA NotDeEscalating ==
    ASSUME NEW domain, NEW cluster, cluster.key # NoKey, NEW score \in Nat,
           Score(domain, cluster.signals) \in Nat, Score(domain, cluster.signals) >= score,
           \A m \in DOMAIN previous[domain] :
              previous[domain][m].key = cluster.key => previous[domain][m].score = score
    PROVE  Trend(domain, cluster) # "de-escalating"
<1> DEFINE matched == {n \in DOMAIN previous[domain] : Matches(cluster, previous[domain][n])}
           first == CHOOSE n \in matched : cluster.key = NoKey => \A m \in matched : n <= m
           delta == Score(domain, cluster.signals) - previous[domain][first].score
<1>1. Trend(domain, cluster) =
         IF matched = {} THEN "stable"
         ELSE IF delta > 5 THEN "escalating" ELSE IF delta < -5 THEN "de-escalating" ELSE "stable"
  BY DEF Trend
<1>2. ASSUME matched # {} PROVE ~ (delta < -5)
  <2>1. first \in matched
    BY <1>2
  <2>2. previous[domain][first].score = score
    BY <2>1 DEF Matches
  <2> HIDE DEF first
  <2> QED BY <2>2
<1> HIDE DEF matched, delta
<1> QED BY <1>1, <1>2

LEMMA ReportGrows ==
    ASSUME FindingInv, Report, last.domain = request.domain,
           ToSet(last.rows) \subseteq ToSet(request.rows), IsInjective(last.rows),
           NEW c \in last.cards
    PROVE  \E d \in last'.cards :
             /\ ToSet(c.signals) \subseteq ToSet(d.signals)
             /\ d.score >= c.score
             /\ c.key # NoKey => d.key = c.key /\ d.trend # "de-escalating"
<1> DEFINE old == last.rows
           rows == request.rows
           domain == request.domain
           found == Clusters(request)
           reached == {n \in DOMAIN found : Score(domain, found[n].signals) >= Threshold}
           to == [n \in DOMAIN old |-> CHOOSE m \in DOMAIN rows : rows[m] = old[n]]
           P == DOMAIN c.signals
<1>1. /\ request # Idle /\ Finished /\ Placed
      /\ last'.cards = {Card(domain, found[n]) : n \in reached}
  BY DEF Report, FindingInv
<1>2. /\ request \in Requests /\ domain \in Domains /\ rows \in Seq(SignalEvidences)
      /\ old \in Seq(SignalEvidences) /\ CardHeld(c, domain, old, previous[domain])
  <2>1. last # NoReport
    BY DEF NoReport
  <2> QED BY <1>1, <2>1, RequestRows DEF FindingInv, LastHeld
<1>3. to \in [DOMAIN old -> DOMAIN rows] /\ \A n \in DOMAIN old : rows[to[n]] = old[n]
  BY DEF ToSet
<1> HIDE DEF to, found
<1>4. PICK n \in DOMAIN found :
         /\ \A p \in P : to[p] \in Group(request, n)
         /\ ~ Geographic(domain) => c.key = n
  BY <1>1, <1>2, <1>3, CardFoundAgain DEF found
<1> DEFINE Q == Group(request, n)
           d == Card(domain, found[n])
<1>5. /\ Cardinality(Q) > 1
      /\ ~ Geographic(domain) => found[n].key = n
      /\ found[n].signals = [m \in Q |-> rows[m]]
  BY <1>2, FoundAre DEF found
<1>6. Q \in SUBSET DOMAIN rows
  BY <1>1, <1>5, GroupHeld
<1>7. /\ P \in SUBSET DOMAIN old /\ c.signals = [p \in P |-> old[p]]
      /\ c.score = Score(domain, c.signals) /\ c.score >= Threshold
  BY <1>2 DEF CardHeld
<1>8. c.signals \in Groups /\ found[n].signals \in Groups
  BY <1>2, <1>5, <1>6, <1>7, RowsAreGroups
<1>9. ToSet(c.signals) \subseteq ToSet(found[n].signals)
  <2>1. ASSUME NEW p \in P
        PROVE  to[p] \in DOMAIN found[n].signals /\ found[n].signals[to[p]] = c.signals[p]
    BY <1>3, <1>4, <1>5, <1>7
  <2> QED BY <2>1 DEF ToSet
<1>10. /\ Score(domain, c.signals) \in Nat /\ Score(domain, found[n].signals) \in Nat
       /\ Score(domain, c.signals) <= Score(domain, found[n].signals)
  BY <1>2, <1>8, <1>9, ScoreGrows
<1>11. n \in reached /\ d \in last'.cards
  <2>1. Score(domain, found[n].signals) >= Threshold
    BY <1>7, <1>10 DEF Threshold
  <2> QED BY <1>1, <2>1
<1>12. /\ d.signals = found[n].signals /\ d.score = Score(domain, found[n].signals)
       /\ d.key = found[n].key /\ d.trend = Trend(domain, found[n])
  BY DEF Card
<1> HIDE DEF d
<1>13. ASSUME c.key # NoKey PROVE d.key = c.key /\ d.trend # "de-escalating"
  <2>1. ~ Geographic(domain)
    BY <1>2, <1>13 DEF CardHeld
  <2>2. found[n].key = c.key
    BY <1>4, <1>5, <2>1
  <2>3. \A m \in DOMAIN previous[domain] :
           previous[domain][m].key = c.key => previous[domain][m].score = c.score
    BY <1>2, <2>1 DEF CardHeld
  <2>4. Trend(domain, found[n]) # "de-escalating"
    BY <1>7, <1>10, <1>13, <2>2, <2>3, NotDeEscalating
  <2> QED BY <1>12, <2>2, <2>4
<1>14. ToSet(c.signals) \subseteq ToSet(d.signals) /\ d.score >= c.score
  BY <1>7, <1>9, <1>10, <1>12
<1> QED BY <1>11, <1>13, <1>14

\* More evidence never weakens a finding, for any requests, any map and any notion
\* of nearness, in whatever order pairs are joined and whatever went before.
THEOREM MoreNeverLess == EngineSpec => MoreIsNeverLess
<1>1. ASSUME FindingInv, [EngineNext]_allVars, request # Idle, reply' = 200, request' = Idle
      PROVE  Report
  <2>1. \A r \in Requests : ~ (request = Idle)
    BY <1>1
  <2>2. ~ Cluster /\ ~ UNCHANGED allVars
    BY <1>1 DEF Cluster, allVars, engineVars
  <2>3. ~ TimeOut /\ ~ Renew
    BY <1>1 DEF TimeOut, Renew
  <2> QED BY <1>1, <2>2, <2>3 DEF EngineNext
<1>2. FindingInv /\ [EngineNext]_allVars =>
         [ /\ request # Idle /\ reply' = 200 /\ request' = Idle
           /\ last.domain = request.domain /\ ToSet(last.rows) \subseteq ToSet(request.rows)
           /\ IsInjective(last.rows)
           => \A c \in last.cards : \E d \in last'.cards :
                /\ ToSet(c.signals) \subseteq ToSet(d.signals)
                /\ d.score >= c.score
                /\ c.key # NoKey => d.key = c.key /\ d.trend # "de-escalating" ]_allVars
  BY <1>1, ReportGrows
<1> QED BY <1>2, FindingAlways, PTL DEF EngineSpec, MoreIsNeverLess
=============================================================================
