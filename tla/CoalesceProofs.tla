---------------------------- MODULE CoalesceProofs ----------------------------
(***************************************************************************)
(* Proofs about Coalesce, for every set of calls, all lifetimes and every  *)
(* clock: the registered cell stays usable, nothing is shared that was not *)
(* stored, and the calls share their fetches.  The first rests on the      *)
(* permit of a OnceCell: who works holds the permit of the cell it cloned, *)
(* and that cell is unset.  The last rests on the registry: while no cell  *)
(* was evicted by a call that awaited another, an unset cell some call has *)
(* is the registered one (OneUnset), and a call that registered on a miss  *)
(* awaits whoever has written the row since (Behind).                      *)
(***************************************************************************)
EXTENDS Coalesce, TLAPS

Answers == [kind : {"Hit", "Negative", "Error"}, by : Callers]
Rows == [negative : BOOLEAN, by : Callers, fetched : Nat]
Steps == {"idle", "miss", "join", "fetch", "write", "set", "evict", "done", "gone"}
Joined == {"join", "fetch", "write", "set", "evict"}

TypeInv ==
    /\ time \in Nat
    /\ row \in Rows \cup {None}
    /\ inflight \in Callers \cup {None}
    /\ runner \in [Callers -> Callers \cup {None}]
    /\ outcome \in [Callers -> Answers \cup {None}]
    /\ stage \in [Callers -> Steps]
    /\ cell \in [Callers -> Callers \cup {None}]
    /\ answer \in [Callers -> Answers \cup {None}]
    /\ written \subseteq Callers
    /\ late \subseteq Callers /\ stray \in BOOLEAN

\* A call has a cell from the registry until it has evicted it.
HasCell == \A c \in Callers : stage[c] \in Joined <=> cell[c] # None

\* A cell exists once the call it is named after has joined.
NoCellYet ==
    \A x \in Callers : stage[x] \in {"idle", "miss"} =>
        /\ outcome[x] = None /\ runner[x] = None /\ inflight # x
        /\ \A c \in Callers : cell[c] # x

\* Who works holds the permit of its cell, which is unset; nobody else has one.
Permits ==
    /\ \A c \in Callers : Working(c) => runner[cell[c]] = c /\ outcome[cell[c]] = None
    /\ \A x \in Callers : runner[x] # None => Working(runner[x]) /\ cell[runner[x]] = x

\* Calls evict only cells that are set, and a set cell in the registry has such
\* a call.
Evictions ==
    /\ \A c \in Callers : stage[c] = "evict" => outcome[cell[c]] # None
    /\ inflight # None /\ outcome[inflight] # None =>
          \E c \in Callers : stage[c] = "evict" /\ cell[c] = inflight

\* A call at its write has a value or a sentinel to write, and one about to set
\* its cell has written it.
Answered ==
    \A c \in Callers :
        /\ stage[c] \in {"write", "set"} => answer[c] \in Answers /\ answer[c].by = c
        /\ stage[c] = "set" => answer[c].kind = "Error" \/ c \in written

\* Who has an unset cell has the registered one.
OneUnset ==
    ~ stray => \A c \in Callers :
        cell[c] # None /\ outcome[cell[c]] = None => cell[c] = inflight

\* A call that registered on a miss and sees the row awaits the call that wrote
\* it, or did until that call was dropped.
Behind ==
    ~ stray => \A c \in Callers :
        stage[c] \in {"join", "fetch"} /\ outcome[cell[c]] = None /\ CacheHit # "Miss" =>
            \/ c \in late
            \/ stage[row.by] = "gone"
            \/ stage[row.by] = "set" /\ cell[row.by] = cell[c]

CellInv ==
    /\ TypeInv /\ HasCell /\ NoCellYet /\ Permits /\ Evictions /\ Answered
    /\ StoredBeforeShared

------------------------------------------------------------------------------
\* None is no call and no outcome.
LEMMA NoneIsNothing == None \notin Callers /\ None \notin Answers
BY NoneAssumption DEF Answers

\* The steps of one call, as one formula for the proofs that split on them.
Acts(c) ==
    \/ LookupHit(c) \/ LookupMiss(c) \/ LookupError(c)
    \/ JoinCell(c) \/ RunFetcher(c) \/ TakeOutcome(c)
    \/ FetchFound(c) \/ FetchFailed(c) \/ WriteBack(c) \/ WriteError(c)
    \/ SetCell(c) \/ Evict(c) \/ DropCall(c)

\* A step is a tick, a step of one call or a stutter.
LEMMA StepOfOne ==
    [CoalesceNext]_coalesceVars =>
        TimePasses \/ (\E c \in Callers : Acts(c)) \/ UNCHANGED coalesceVars
BY DEF CoalesceNext, Acts, Lookup, Waiting, Fetching

\* The first look-up finds nothing registered.
LEMMA CellInit == CoalesceInit => CellInv
<1> SUFFICES ASSUME CoalesceInit PROVE CellInv
  OBVIOUS
<1>1. TypeInv
  BY DEF CoalesceInit, TypeInv, Steps
<1>2. HasCell /\ NoCellYet /\ Permits /\ Evictions
  BY NoneIsNothing DEF CoalesceInit, HasCell, NoCellYet, Permits, Evictions, Working, Joined
<1>3. Answered /\ StoredBeforeShared
  BY DEF CoalesceInit, Answered, StoredBeforeShared
<1> QED BY <1>1, <1>2, <1>3 DEF CellInv

\* Every step keeps the types and leaves cells, permits and outcomes where a
\* OnceCell has them.
LEMMA CellStep == CellInv /\ [CoalesceNext]_coalesceVars => CellInv'
<1> SUFFICES ASSUME CellInv, [CoalesceNext]_coalesceVars PROVE CellInv'
  OBVIOUS
<1> USE NoneIsNothing
<1> USE DEF CellInv, TypeInv, HasCell, NoCellYet, Permits, Evictions, Answered,
            StoredBeforeShared, Working, Steps, Joined, history
<1>1. CASE TimePasses
  BY <1>1, TTLAssumption DEF TimePasses
<1>2. ASSUME NEW c \in Callers, Acts(c) PROVE CellInv'
  <2>1. CASE LookupHit(c)
    BY <2>1 DEF LookupHit, Advance
  <2>2. CASE LookupMiss(c)
    BY <2>2 DEF LookupMiss, Advance
  <2>3. CASE LookupError(c)
    BY <2>3 DEF LookupError, Advance
  <2>4. CASE JoinCell(c)
    BY <2>4 DEF JoinCell, Advance
  <2>5. CASE RunFetcher(c)
    BY <2>5 DEF RunFetcher, Advance
  <2>6. CASE TakeOutcome(c)
    BY <2>6 DEF TakeOutcome, Advance
  <2>7. CASE FetchFound(c)
    BY <2>7 DEF FetchFound, Advance, Answer, Answers
  <2>8. CASE FetchFailed(c)
    BY <2>8 DEF FetchFailed, Advance, Answer, Answers
  <2>9. CASE WriteBack(c)
    BY <2>9 DEF WriteBack, Advance, StoreRow, NewRow, Answers, Rows
  <2>10. CASE WriteError(c)
    BY <2>10 DEF WriteError, Advance, Answer, Answers
  <2>11. CASE SetCell(c)
    BY <2>11 DEF SetCell, Advance
  <2>12. CASE Evict(c)
    BY <2>12 DEF Evict, Advance, Remaining
  <2>13. CASE DropCall(c)
    <3>1. /\ stage[c] \in {"miss", "join", "fetch", "write", "set"}
          /\ stage' = [stage EXCEPT ![c] = "gone"]
          /\ runner' = [x \in Callers |-> IF runner[x] = c THEN None ELSE runner[x]]
          /\ answer' = [answer EXCEPT ![c] = None]
          /\ cell' = [cell EXCEPT ![c] = None]
          /\ UNCHANGED <<time, inflight, outcome, late, stray>>
      BY <2>13 DEF DropCall, Permit
    <3>2. row' \in Rows \cup {None} /\ written \subseteq written' /\ written' \subseteq Callers
      <4>1. UNCHANGED <<row, written>> \/ StoreRow(c)
        BY <2>13 DEF DropCall
      <4>2. CASE StoreRow(c)
        BY <4>2 DEF StoreRow, NewRow, Rows
      <4> QED BY <4>1, <4>2
    <3>3. TypeInv'
      BY <3>1, <3>2
    <3>4. HasCell' /\ NoCellYet'
      BY <3>1
    <3>5. Permits'
      BY <3>1
    <3>6. Evictions'
      BY <3>1
    <3>7. Answered' /\ StoredBeforeShared'
      BY <3>1, <3>2
    <3> QED BY <3>3, <3>4, <3>5, <3>6, <3>7
  <2> QED BY <1>2, <2>1, <2>2, <2>3, <2>4, <2>5, <2>6, <2>7, <2>8, <2>9, <2>10, <2>11, <2>12, <2>13 DEF Acts
<1>3. CASE UNCHANGED coalesceVars
  BY <1>3 DEF coalesceVars
<1> QED BY <1>1, <1>2, <1>3, StepOfOne

\* The invariant holds throughout.
LEMMA CellsInOrder == CoalesceSpec => []CellInv
BY CellInit, CellStep, PTL DEF CoalesceSpec

\* The variables of cached_fetch_json keep their types.
THEOREM TypesKept == CoalesceSpec => []TypeInv
<1>1. CellInv => TypeInv
  BY DEF CellInv
<1> QED BY <1>1, CellsInOrder, PTL

\* Whatever call is dropped, fails or comes late, the cell in the registry can
\* serve the next miss.
THEOREM EntryUsable == CoalesceSpec => []UsableEntry
<1>1. CellInv => UsableEntry
  BY NoneIsNothing DEF CellInv, TypeInv, Permits, Evictions, UsableEntry
<1> QED BY <1>1, CellsInOrder, PTL

\* A row that answers later answers now.
LEMMA HitsAreWritten ==
    ASSUME TypeInv, TypeInv', UNCHANGED row, time' >= time, CacheHit' # "Miss"
    PROVE  CacheHit # "Miss" /\ row.by \in Callers
<1>1. row # None /\ row \in Rows
  BY DEF CacheHit, TypeInv
<1>2. ~ row.negative \/ row.fetched + NegativeTTL > time
  BY <1>1, TTLAssumption DEF CacheHit, Live, TypeInv, Rows
<1> QED BY <1>1, <1>2 DEF CacheHit, Live, Rows

\* The registry keeps the calls together until an eviction takes a later cell.
LEMMA RegistryStep ==
    ASSUME CellInv, CellInv', OneUnset, Behind, [CoalesceNext]_coalesceVars
    PROVE  OneUnset' /\ Behind'
<1> USE NoneIsNothing
<1> USE DEF CellInv, TypeInv, HasCell, NoCellYet, Permits, Evictions, Working, Steps, Joined
<1> SUFFICES ASSUME ~ stray' PROVE OneUnset' /\ Behind'
  BY DEF OneUnset, Behind
<1>1. ASSUME UNCHANGED <<row, inflight, outcome, stage, cell, late, stray>>, time' >= time
      PROVE  OneUnset' /\ Behind'
  BY <1>1, HitsAreWritten DEF OneUnset, Behind
<1>2. CASE TimePasses
  BY <1>1, <1>2 DEF TimePasses, history
<1>3. ASSUME NEW c \in Callers, Acts(c) PROVE OneUnset' /\ Behind'
  <2>1. time' = time /\ (row' = row => CacheHit' = CacheHit)
    BY <1>3 DEF Acts, LookupHit, LookupMiss, LookupError, JoinCell, RunFetcher, TakeOutcome, FetchFound,
                FetchFailed, WriteBack, WriteError, SetCell, Evict, DropCall, CacheHit, Live
  <2>11. CacheHit # "Miss" => row.by \in Callers
    BY DEF CacheHit, Rows
  <2>2. CASE LookupHit(c) \/ LookupMiss(c) \/ LookupError(c)
    BY <2>1, <2>11, <2>2 DEF LookupHit, LookupMiss, LookupError, Advance, history, OneUnset, Behind
  <2>3. CASE JoinCell(c)
    BY <2>1, <2>11, <2>3 DEF JoinCell, Advance, OneUnset, Behind
  <2>4. CASE RunFetcher(c)
    BY <2>1, <2>11, <2>4 DEF RunFetcher, Advance, history, OneUnset, Behind
  <2>5. CASE TakeOutcome(c)
    BY <2>1, <2>11, <2>5 DEF TakeOutcome, Advance, history, OneUnset, Behind
  <2>6. CASE FetchFound(c) \/ FetchFailed(c) \/ WriteError(c)
    BY <2>1, <2>11, <2>6 DEF FetchFound, FetchFailed, WriteError, Advance, history, OneUnset, Behind
  <2>7. CASE WriteBack(c)
    BY <2>1, <2>11, <2>7 DEF WriteBack, StoreRow, NewRow, Advance, history, OneUnset, Behind
  <2>8. CASE SetCell(c)
    BY <2>1, <2>11, <2>8 DEF SetCell, Advance, history, OneUnset, Behind
  <2>9. CASE Evict(c)
    <3>1. /\ ~ stray /\ outcome[cell[c]] # None /\ (inflight = None \/ inflight = cell[c])
          /\ stage[c] = "evict" /\ stage' = [stage EXCEPT ![c] = "done"]
          /\ cell' = [cell EXCEPT ![c] = None]
          /\ UNCHANGED <<row, outcome, late>>
      BY <2>9 DEF Evict, Advance
    <3>2. \A e \in Callers : e # c /\ cell[e] # None => outcome[cell[e]] # None
      BY <3>1 DEF OneUnset
    <3> QED BY <2>1, <2>11, <3>1, <3>2 DEF OneUnset, Behind
  <2>10. CASE DropCall(c)
    BY <2>1, <2>11, <2>10 DEF DropCall, StoreRow, NewRow, history, OneUnset, Behind
  <2> QED BY <1>3, <2>2, <2>3, <2>4, <2>5, <2>6, <2>7, <2>8, <2>9, <2>10 DEF Acts
<1>4. CASE UNCHANGED coalesceVars
  BY <1>1, <1>4 DEF coalesceVars, history
<1> QED BY <1>2, <1>3, <1>4, StepOfOne

\* Whatever is dropped, fails or expires, calls fetch side by side only after an
\* eviction that took the cell of a later fetch, and a call fetches what is there
\* only if it registered late or was left by the one that stored it.
THEOREM FetchesShared == CoalesceSpec => []FetchesAreShared
<1>1. CoalesceInit => OneUnset /\ Behind
  BY DEF CoalesceInit, OneUnset, Behind
<1>2. CellInv /\ CellInv' /\ OneUnset /\ Behind /\ [CoalesceNext]_coalesceVars => OneUnset' /\ Behind'
  BY RegistryStep
<1>3. CellInv /\ OneUnset /\ Behind => FetchesAreShared
  <2> SUFFICES ASSUME CellInv, OneUnset, Behind, ~ stray, NEW c \in Callers
               PROVE  /\ \A e \in Callers : Working(c) /\ Working(e) => c = e
                      /\ stage[c] = "fetch" /\ CacheHit # "Miss" =>
                            c \in late \/ stage[row.by] = "gone"
    BY DEF FetchesAreShared
  <2>1. \A e \in Callers : Working(e) => /\ cell[e] = inflight /\ runner[cell[e]] = e
                                         /\ outcome[cell[e]] = None
    BY DEF CellInv, HasCell, Permits, OneUnset, Working, Joined
  <2>2. CacheHit # "Miss" => row.by \in Callers
    BY DEF CellInv, TypeInv, CacheHit, Rows
  <2> QED BY <2>1, <2>2 DEF Behind, Working
<1> QED BY <1>1, <1>2, <1>3, CellsInOrder, PTL DEF CoalesceSpec

\* A value or a sentinel is in the table before any awaiter hears of it.
THEOREM SharedIsStored == CoalesceSpec => []StoredBeforeShared
<1>1. CellInv => StoredBeforeShared
  BY DEF CellInv
<1> QED BY <1>1, CellsInOrder, PTL

===============================================================================
