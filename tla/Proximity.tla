------------------------------ MODULE Proximity ------------------------------
(***************************************************************************)
(* The geographic clustering of the correlation engine: signals are put in *)
(* the cells of a grid, the pairs of neighbouring cells are compared, and  *)
(* those within the radius are joined in a union-find forest.              *)
(*                                                                         *)
(* The grid is a hash map, so the pairs come in any order. The trigonometry*)
(* is left to the constants: Near is the comparison of the haversine       *)
(* distance with the radius, Row and Col the cell of a place. As in the    *)
(* code the breadth of a cell depends on the latitude of the signal in it. *)
(***************************************************************************)
EXTENDS Naturals, Sequences, FiniteSets

CONSTANTS
    N,            \* how many signals
    Places,       \* where a signal can be
    Near(_, _),   \* two places are within the radius
    Row(_),       \* the cell of a place
    Col(_),
    Breadth(_)    \* the breadth of that cell, in degrees of longitude

ASSUME NAssumption == N \in Nat

\* A distance is the same from both ends, and a cell is as long and as broad as
\* the radius, so that near places in cells of one breadth are in neighbouring
\* rows and columns.
ASSUME NearAssumption ==
    \A p, q \in Places : Near(p, q) =>
        /\ Near(q, p)
        /\ Row(p) <= Row(q) + 1
        /\ Breadth(p) = Breadth(q) => Col(p) <= Col(q) + 1

VARIABLES
    place,    \* signal -> its place, constant
    parent,   \* the forest: a root is its own parent
    todo,     \* the pairs still to be compared
    phase,    \* "scan", or looking for the roots of the pair taken
    pair,     \* the pair taken
    at        \* where the search for each of the two roots has got

vars == <<place, parent, todo, phase, pair, at>>

Ids == 1 .. N

Adjacent(a, b) == a <= b + 1 /\ b <= a + 1

\* The cells of the two places touch: the 3 x 3 neighbourhood.
\* Mutant: the cells beside only, not those across a corner.
Touch_NoDiagonal(p, q) ==
    \/ Row(p) = Row(q) /\ Adjacent(Col(p), Col(q))
    \/ Col(p) = Col(q) /\ Adjacent(Row(p), Row(q))

Touch(p, q) == Adjacent(Row(p), Row(q)) /\ Adjacent(Col(p), Col(q))

Init ==
    /\ place \in [Ids -> Places]
    /\ parent = [i \in Ids |-> i]
    /\ todo = {p \in Ids \X Ids : p[1] < p[2] /\ Touch(place[p[1]], place[p[2]])}
    /\ phase = "scan" /\ pair = <<0, 0>> /\ at = <<0, 0>>

\* Mutant: the pair is joined without a look at the distance.
Compare_Blind ==
    /\ phase = "scan"
    /\ \E p \in todo :
        /\ todo' = todo \ {p}
        /\ pair' = p /\ at' = p /\ phase' = "first"
    /\ UNCHANGED <<place, parent>>

\* A pair within the radius is to be joined; another is passed over.
Compare ==
    /\ phase = "scan"
    /\ \E p \in todo :
        /\ todo' = todo \ {p}
        /\ IF Near(place[p[1]], place[p[2]])
           THEN pair' = p /\ at' = p /\ phase' = "first"
           ELSE UNCHANGED <<pair, at, phase>>
    /\ UNCHANGED <<place, parent>>

\* One turn of find's loop, which halves the path as it goes.
Halve(k) ==
    /\ parent[at[k]] # at[k]
    /\ parent' = [parent EXCEPT ![at[k]] = parent[parent[at[k]]]]
    /\ at' = [at EXCEPT ![k] = parent[parent[at[k]]]]
    /\ UNCHANGED <<place, todo, phase, pair>>

FindFirst ==
    /\ phase = "first"
    /\ \/ Halve(1)
       \/ /\ parent[at[1]] = at[1]
          /\ phase' = "second"
          /\ UNCHANGED <<place, parent, todo, pair, at>>

FindSecond == phase = "second" /\ Halve(2)

\* Both roots are known: the first is hung under the second.
\* Mutant: the next pair's search goes on from where this one ended.
Join_KeepsCursors ==
    /\ phase = "second" /\ parent[at[2]] = at[2]
    /\ parent' = [parent EXCEPT ![at[1]] = at[2]]
    /\ phase' = "scan"
    /\ UNCHANGED <<place, todo, pair, at>>

Join ==
    /\ phase = "second" /\ parent[at[2]] = at[2]
    /\ parent' = [parent EXCEPT ![at[1]] = at[2]]
    /\ phase' = "scan" /\ pair' = <<0, 0>> /\ at' = <<0, 0>>
    /\ UNCHANGED <<place, todo>>

Finished == phase = "scan" /\ todo = {}

Next == Compare \/ FindFirst \/ FindSecond \/ Join \/ (Finished /\ UNCHANGED vars)

Spec == Init /\ [][Next]_vars

(***************************************************************************)
(* The result                                                              *)
(***************************************************************************)
\* The root of a signal: N hops reach it in a forest of N nodes.
RootOf(i) ==
    LET up[n \in 0 .. N] == IF n = 0 THEN i ELSE parent[up[n - 1]] IN up[N]

Members(root) == {i \in Ids : RootOf(i) = root}

\* The clusters by their roots, in whose order they are put out, those of one
\* signal left out.
Output == [r \in {r \in Ids : Cardinality(Members(r)) > 1} |-> Members(r)]

(***************************************************************************)
(* The properties                                                          *)
(***************************************************************************)
\* Every variable has its type, and a search is somewhere exactly while it
\* runs.
TypeOK ==
    /\ place \in [Ids -> Places]
    /\ parent \in [Ids -> Ids]
    /\ todo \subseteq Ids \X Ids
    /\ \/ phase = "scan" /\ pair = <<0, 0>> /\ at = <<0, 0>>
       \/ phase \in {"first", "second"} /\ pair \in Ids \X Ids /\ at \in Ids \X Ids

\* The sets of signals that no near pair straddles: unions of the clusters one
\* would draw by hand.
Regions ==
    {S \in SUBSET Ids : \A i, j \in Ids :
        Near(place[i], place[j]) => (i \in S <=> j \in S)}

\* No two signals share a tree unless a chain of near ones links them: a signal
\* and its parent are never on two sides of a line that no near pair crosses.
NoStrangers == \A S \in Regions : \A i \in Ids : i \in S <=> parent[i] \in S

\* The sets of signals that are whole trees of the forest.
Trees == {S \in SUBSET Ids : \A i \in Ids : i \in S <=> parent[i] \in S}

\* Two near signals in cells of one breadth end in one cluster, in whatever
\* order the pairs came and whatever the halving of paths did to the forest. (At
\* different breadths the columns do not line up, and two near signals can be in
\* cells that do not touch.)
LevelTogether ==
    Finished => \A S \in Trees : \A i, j \in Ids :
        Near(place[i], place[j]) /\ Breadth(place[i]) = Breadth(place[j])
            => (i \in S <=> j \in S)

=============================================================================
