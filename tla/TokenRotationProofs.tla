------------------------- MODULE TokenRotationProofs -------------------------
(***************************************************************************)
(* Proofs about TokenRotation, for any number of rotations, failures and   *)
(* returns of the page, and any lengths of the interval, the overlap, the  *)
(* poll period and the keychain's operations that KeychainAssumption lets  *)
(* be.                                                                     *)
(*                                                                         *)
(* The invariant has the tasks of the rotations (TaskInv, PairInv), the    *)
(* refreshes under way (CallInv, AnswerInv, ChainInv), the event's refresh *)
(* that is to come in time (FreshInv), the next poll against the ticks the *)
(* page has been refused (PollInv), and the time the newest token is being *)
(* saved (SavingInv).  None of it outlives an operation that hangs or a    *)
(* hand-over that fails, but Base does, and from Base a hand-over in order *)
(* has all of it again (MendStep).                                         *)
(***************************************************************************)
EXTENDS TokenRotation, TLAPS

Marks == Tokens \cup {None}
States == [pc : {"idle", "read", "answer"}, got : Marks]

Types ==
    /\ current \in Tokens /\ toRotate \in 0 .. Interval
    /\ task \in [Tokens -> {"none", "read", "write", "forward", "emit", "done"}]
    /\ vault \in Marks
    /\ sidecar \in [current : Tokens, previous : Marks, age : 0 .. Overlap]
    /\ bearer \in Marks
    /\ refresh \in [Refreshes -> States]
    /\ age \in [Calls -> 0 .. Stuck]
    /\ left \in [Chains -> 0 .. Poll \cup {None}]
    /\ armed \in BOOLEAN /\ polling \in BOOLEAN /\ visible \in BOOLEAN
    /\ flips \in Nat /\ faults \in Nat
    /\ refused \in Nat /\ overtaken \in BOOLEAN /\ disturbed \in BOOLEAN

\* No operation hangs.
TypeInv == Types /\ age \in [Calls -> 0 .. Patience]

Elapsed == Interval - toRotate

\* Only the newest rotation's task is under way, and it is over in time.
TaskInv ==
    /\ \A n \in Tokens : (n > current => task[n] = "none") /\ (n < current => task[n] = "done")
    /\ task[current] # "none"
    /\ current = 0 => task[current] \notin {"forward", "emit"}
    /\ task[current] = "read"  => Elapsed <= age[Save(current)]
    /\ task[current] = "write" => Elapsed <= Patience + age[Save(current)]
    /\ task[current] \in {"forward", "emit"} => Elapsed <= 2 * Patience
    /\ task[current] \in {"forward", "emit", "done"} => vault = current \/ faults > 0

\* The sidecar is still to be told of the newest token.
Saving == current > 0 /\ task[current] \in {"read", "write", "forward"}

PairInv ==
    /\ sidecar.current = IF Saving THEN current - 1 ELSE current
    /\ sidecar.previous = IF sidecar.current = 0 THEN None ELSE sidecar.current - 1
    /\ task[current] = "emit" => sidecar.age = 0
    /\ sidecar.age # Overlap => ~ Saving /\ Elapsed <= sidecar.age + 2 * Patience

\* Time counts for the operations that are under way.
CallInv == \A p \in Calls : p \notin OnKeychain => age[p] = 0

\* An answer is the newest token, or the one before if that was replaced in this
\* very moment.
Recent(t) ==
    \/ t = current
    \/ /\ t = current - 1 /\ toRotate = Interval
       /\ Saving \/ sidecar.age = 0

AnswerInv ==
    /\ \A r \in Refreshes :
          refresh[r].pc = "answer" => refresh[r].got \in Tokens /\ Recent(refresh[r].got)
    /\ bearer # None => bearer <= current
    /\ \A n \in 1 .. MaxRotations :
          /\ refresh[Event(n)].pc # "idle" => n <= sidecar.current
          /\ refresh[Event(n)].pc = "answer" => n <= refresh[Event(n)].got

\* While nothing failed: the event's refresh is under way, or has been applied.
EventPending(n) ==
    \/ task[n] = "emit" /\ sidecar.age = 0
    \/ refresh[Event(n)].pc = "read" /\ sidecar.age <= age[Event(n)]
    \/ refresh[Event(n)].pc = "answer" /\ sidecar.age <= Patience

FreshInv ==
    LET n == sidecar.current
    IN  faults = 0 /\ n > 0 =>
          \/ EventPending(n) /\ (bearer = None \/ overtaken \/ bearer >= n - 1)
          \/ bearer # None /\ (bearer >= n \/ (overtaken /\ bearer = n - 1))

\* A chain waits for its timer or for its answer, and the first one for Boot.
ChainInv ==
    /\ \A c \in Chains : left[c] # None => refresh[PollOf(c)].pc = "idle"
    /\ refresh[Boot].pc # "idle" =>
          /\ ~ armed
          /\ \A c \in Chains : left[c] = None /\ refresh[PollOf(c)].pc = "idle"
    /\ ~ polling <=> refresh[Boot].pc # "idle"

Rounds == {Boot} \cup {PollOf(c) : c \in Chains}

\* In how many ticks the page has an answer, unless that fails.
Due(d) ==
    \/ \E c \in Chains : left[c] # None /\ d = left[c] + Patience
    \/ \E r \in Rounds : refresh[r].pc = "read" /\ d = Patience - age[r]
    \/ \E r \in Rounds : refresh[r].pc = "answer" /\ d = 0
    \/ ~ visible /\ polling /\ ~ armed /\ d = Patience

Budget == (faults + 1) * (Poll + Patience)

\* For how many ticks what the page has will be accepted, or has not been.
Grace ==
    IF bearer = None THEN Overlap
    ELSE IF bearer >= sidecar.current THEN Overlap
    ELSE IF Accepts(bearer) THEN Overlap - sidecar.age
    ELSE - refused

PollInv == \E d \in 0 .. Poll + Patience : Due(d) /\ d + Overlap <= Budget + Grace

\* For how many ticks, and x more, the page has been refused at most.
AtMost(x) == refused + Overlap <= Budget + x

\* More ticks than that are those of a token that is newer than the sidecar's.
SavingInv ==
    \/ AtMost(0)
    \/ /\ bearer \in {current, current - 1}
       /\ \/ Saving /\ AtMost(Elapsed)
          \/ ~ Saving /\ sidecar.age = 0 /\ Elapsed <= 2 * Patience /\ AtMost(2 * Patience)

RotationInv ==
    /\ TypeInv /\ TaskInv /\ PairInv /\ CallInv /\ AnswerInv
    /\ FreshInv /\ ChainInv /\ PollInv /\ SavingInv

\* Tasks begin in their order, and the first one has no hand-over.
Begun ==
    /\ \A n \in Tokens : n > current <=> task[n] = "none"
    /\ task[0] \notin {"forward", "emit"}

\* An answer is of this moment, and nobody has a token the host has not.
New(t) == t = current \/ (t = current - 1 /\ toRotate = Interval)

Told ==
    /\ \A r \in Refreshes :
          refresh[r].pc = "answer" => refresh[r].got \in Tokens /\ New(refresh[r].got)
    /\ bearer # None => bearer <= current
    /\ \A n \in 1 .. MaxRotations :
          /\ refresh[Event(n)].pc # "idle" => n <= current
          /\ refresh[Event(n)].pc = "answer" => n <= refresh[Event(n)].got

\* The page has a poll or a refresh to come, or will when it is shown.
Alive ==
    \/ \E c \in Chains : left[c] # None
    \/ \E r \in Rounds : refresh[r].pc # "idle"
    \/ ~ visible /\ polling /\ ~ armed

Signs == disturbed => faults > 0 /\ refused = 0

Base == Types /\ Begun /\ CallInv /\ Told /\ ChainInv /\ Alive /\ Signs

StepInv == Base /\ (disturbed \/ RotationInv)

\* Every step but those that disturb.
Calm ==
    \/ Rotate \/ RotateFails \/ Tick \/ Hide \/ Show \/ FetchResolves
    \/ \E n \in Tokens :
          PersistRead(n) \/ PersistWrite(n) \/ PersistFails(n)
              \/ Forward(n) \/ Emit(n) \/ EmitFails(n)
    \/ \E r \in Refreshes : RefreshRead(r) \/ RefreshApply(r) \/ RefreshFails(r)
    \/ \E c \in Chains : PollFires(c)

------------------------------------------------------------------------------
(* The constants, the names, and the few tasks there are.                     *)

LEMMA Lengths ==
    /\ Interval \in Nat \ {0} /\ Overlap \in Nat \ {0} /\ Poll \in Nat \ {0}
    /\ Patience \in Nat /\ MaxRotations \in Nat /\ MaxFlips \in Nat
    /\ Patience < Overlap /\ Overlap <= Poll /\ Overlap + 2 * Patience <= Interval
BY ScheduleAssumption, KeychainAssumption

LEMMA Distinct ==
    /\ \A n \in Tokens : Save(n) \in Calls /\ Save(n) \notin Refreshes
    /\ \A m, n \in Tokens : Save(m) = Save(n) => m = n
    /\ Boot \in Refreshes /\ Fetch \in Refreshes /\ Refreshes \subseteq Calls
    /\ \A n \in 1 .. MaxRotations : Event(n) \in Refreshes /\ Event(n) \notin Rounds
    /\ \A m, n \in 1 .. MaxRotations : Event(m) = Event(n) => m = n
    /\ \A c \in Chains : PollOf(c) \in Refreshes /\ PollOf(c) \in Rounds /\ PollOf(c) # Boot
    /\ \A c, d \in Chains : PollOf(c) = PollOf(d) => c = d
    /\ Fetch \notin Rounds /\ Boot \in Rounds /\ Rounds \subseteq Refreshes /\ 1 \in Chains
    /\ \A n \in 1 .. MaxRotations : Event(n) # Fetch
<1>1. 1 \in Chains
  BY Lengths DEF Chains
<1>2. /\ \A n \in Tokens : Save(n) \in Calls /\ Save(n) \notin Refreshes
      /\ \A m, n \in Tokens : Save(m) = Save(n) => m = n
  BY DEF Calls, Refreshes, Save, Boot, Fetch, Event, PollOf
<1>3. /\ Boot \in Refreshes /\ Fetch \in Refreshes /\ Refreshes \subseteq Calls
      /\ Fetch \notin Rounds /\ Boot \in Rounds /\ Rounds \subseteq Refreshes
  BY DEF Calls, Refreshes, Rounds, Boot, Fetch, PollOf
<1>4. /\ \A n \in 1 .. MaxRotations : Event(n) \in Refreshes /\ Event(n) \notin Rounds /\ Event(n) # Fetch
      /\ \A m, n \in 1 .. MaxRotations : Event(m) = Event(n) => m = n
  BY DEF Refreshes, Rounds, Boot, Fetch, PollOf, Event
<1>5. /\ \A c \in Chains : PollOf(c) \in Refreshes /\ PollOf(c) \in Rounds /\ PollOf(c) # Boot
      /\ \A c, d \in Chains : PollOf(c) = PollOf(d) => c = d
  BY DEF Refreshes, Rounds, Boot, PollOf
<1> QED BY <1>1, <1>2, <1>3, <1>4, <1>5

\* What the failures so far allow for.
LEMMA Allowance ==
    ASSUME faults \in Nat, faults' \in {faults, faults + 1}
    PROVE  /\ Budget \in Nat /\ Budget >= Poll + Patience /\ Budget' \in Nat
           /\ faults' = faults => Budget' = Budget
           /\ faults' = faults + 1 => Budget' = Budget + Poll + Patience
<1> DEFINE k == Poll + Patience
<1>1. k \in Nat
  BY Lengths
<1> HIDE DEF k
<1>2. /\ (faults + 1) * k \in Nat /\ (faults + 1) * k >= k
      /\ (faults + 1 + 1) * k = (faults + 1) * k + k
  BY <1>1
<1>3. Budget = (faults + 1) * k /\ Budget' = (faults' + 1) * k
  BY DEF Budget, k
<1>4. /\ Budget \in Nat /\ Budget >= k /\ Budget' \in Nat
      /\ faults' = faults => Budget' = Budget
      /\ faults' = faults + 1 => Budget' = Budget + k
  <2>1. CASE faults' = faults
    BY <1>1, <1>2, <1>3, <2>1
  <2>2. CASE faults' = faults + 1
    <3>1. Budget' = Budget + k
      BY <1>2, <1>3, <2>2
    <3>2. Budget \in Nat /\ Budget >= k
      BY <1>2, <1>3
    <3> QED BY <1>1, <2>2, <3>1, <3>2
  <2> QED BY <2>1, <2>2
<1>5. k = Poll + Patience /\ Budget + k = Budget + Poll + Patience
  BY <1>4, Lengths DEF k
<1> QED BY <1>4, <1>5

\* A task under way is that of the newest token.
LEMMA TheTask ==
    ASSUME RotationInv, NEW n \in Tokens, task[n] \in {"read", "write", "forward", "emit"}
    PROVE  n = current
BY DEF RotationInv, TypeInv, Types, TaskInv, Tokens

LEMMA RotationInit == Init => RotationInv
<1> SUFFICES ASSUME Init PROVE RotationInv
  OBVIOUS
<1>1. TypeInv
  <2>1. 0 \in Tokens /\ Tokens \subseteq Marks /\ None \in Marks
    BY Lengths DEF Tokens, Marks
  <2>2. refresh \in [Refreshes -> States] /\ task \in [Tokens -> {"none", "read", "write", "forward", "emit", "done"}]
    BY <2>1 DEF Init, States
  <2>3. 0 \in 0 .. Patience /\ 0 \in 0 .. Overlap /\ Interval \in 0 .. Interval
    BY Lengths
  <2>4. sidecar \in [current : Tokens, previous : Marks, age : 0 .. Overlap]
    BY <2>1, <2>3 DEF Init
  <2>5. age \in [Calls -> 0 .. Patience] /\ left \in [Chains -> 0 .. Poll \cup {None}]
    BY <2>3 DEF Init
  <2>6. age \in [Calls -> 0 .. Stuck]
    BY <2>5, Lengths DEF Stuck
  <2> QED BY <2>1, <2>2, <2>3, <2>4, <2>5, <2>6 DEF Init, TypeInv, Types
<1>2. TaskInv
  BY <1>1, Lengths, Distinct DEF Init, TaskInv, Tokens, Elapsed, TypeInv, Types
<1>3. PairInv
  BY <1>1, Lengths DEF Init, PairInv, Saving, Elapsed
<1>4. CallInv
  BY DEF Init, CallInv
<1>5. AnswerInv
  BY Distinct DEF Init, AnswerInv, Boot, Event
<1>6. FreshInv
  BY DEF Init, FreshInv
<1>7. ChainInv
  BY Distinct DEF Init, ChainInv
<1>8. PollInv
  <2>1. Due(Patience)
    BY Distinct, Lengths DEF Init, Due, Rounds
  <2>2. Grace = Overlap
    BY DEF Init, Grace
  <2> QED BY <1>1, <2>1, <2>2, Lengths DEF PollInv, Init, Budget
<1>9. SavingInv
  <2>1. 0 + Overlap <= (0 + 1) * (Poll + Patience) + 0
    BY Lengths
  <2> QED BY <2>1 DEF SavingInv, AtMost, Init, Budget
<1> QED BY <1>1, <1>2, <1>3, <1>4, <1>5, <1>6, <1>7, <1>8, <1>9 DEF RotationInv

------------------------------------------------------------------------------
(* What a step that has no part in it keeps.                                  *)

LEMMA Grown ==
    ASSUME faults \in Nat, faults' \in {faults, faults + 1}
    PROVE  Budget \in Int /\ Budget' \in Int /\ Budget' >= Budget
<1>1. \A b, c, p, q : b \in Nat /\ p \in Nat /\ q \in Nat /\ (c = b \/ c = b + p + q) => c >= b
  OBVIOUS
<1> QED BY <1>1, Allowance, Lengths

LEMMA PollKept ==
    ASSUME TypeInv, TypeInv', PollInv, UNCHANGED <<left, visible, polling, armed>>,
           \A r \in Rounds : refresh'[r].pc = refresh[r].pc /\ age'[r] = age[r],
           faults' \in {faults, faults + 1}, Grace' >= Grace
    PROVE  PollInv'
<1>1. PICK d \in 0 .. Poll + Patience : Due(d) /\ d + Overlap <= Budget + Grace
  BY DEF PollInv
<1>2. Due(d)'
  BY <1>1 DEF Due
<1>3. Budget \in Int /\ Budget' \in Int /\ Budget' >= Budget
  BY Grown DEF TypeInv, Types
<1>4. Grace \in Int /\ Grace' \in Int
  BY Lengths DEF TypeInv, Types, Grace
<1>5. d + Overlap <= Budget' + Grace'
  <2>1. \A a, b, e, f, o, t \in Int : t + o <= a + e /\ b >= a /\ f >= e => t + o <= b + f
    OBVIOUS
  <2>2. d \in Int /\ Overlap \in Int
    BY <1>1, Lengths
  <2> QED BY <1>1, <1>3, <1>4, <2>1, <2>2
<1> QED BY <1>2, <1>5 DEF PollInv

LEMMA GraceKept ==
    ASSUME TypeInv, UNCHANGED <<bearer, sidecar, refused>>
    PROVE  Grace' >= Grace
<1>1. Grace \in Int
  BY Lengths DEF TypeInv, Types, Grace
<1>2. Grace' = Grace
  BY DEF Grace, Accepts
<1> QED BY <1>1, <1>2

\* The allowance grows with the ticks.
LEMMA AtMostKept ==
    ASSUME TypeInv, TypeInv', faults' \in {faults, faults + 1}, NEW x \in Int, NEW y \in Int,
           AtMost(x), refused' + x <= refused + y
    PROVE  refused' + Overlap <= Budget' + y
<1>1. \A a, b, c, e, f, o \in Int : a + o <= b + x /\ c + x <= a + y /\ f >= b => c + o <= f + y
  OBVIOUS
<1>2. Budget \in Int /\ Budget' \in Int /\ Budget' >= Budget
  BY Grown DEF TypeInv, Types
<1>3. refused \in Int /\ refused' \in Int /\ Overlap \in Int
  BY Lengths DEF TypeInv, Types
<1> QED BY <1>1, <1>2, <1>3 DEF AtMost

LEMMA SavingKept ==
    ASSUME RotationInv, TypeInv', UNCHANGED <<refused, bearer, current, toRotate, sidecar>>,
           Saving' <=> Saving, faults' \in {faults, faults + 1}
    PROVE  SavingInv'
<1>1. TypeInv /\ SavingInv
  BY DEF RotationInv
<1>2. Elapsed' = Elapsed /\ Elapsed \in Int /\ 2 * Patience \in Int /\ refused \in Int
  BY <1>1, Lengths DEF TypeInv, Types, Elapsed
<1>3. \A x \in Int : AtMost(x) => refused' + Overlap <= Budget' + x
  BY <1>1, <1>2, AtMostKept
<1> QED BY <1>1, <1>2, <1>3 DEF SavingInv, AtMost

------------------------------------------------------------------------------
(* Types.                                                                     *)

LEMMA TypesStep ==
    ASSUME Types, task[0] # "forward", Next
    PROVE  Types'
<1>1. Types /\ 0 \in 0 .. Stuck
  BY Lengths DEF Stuck
<1>2. CASE Rotate
  <2>1. current + 1 \in Tokens
    BY <1>1, <1>2, Lengths DEF Rotate, Types, Tokens
  <2> QED BY <1>1, <1>2, <2>1, Lengths DEF Rotate, Wake, Types, poller, history
<1>3. CASE RotateFails
  BY <1>1, <1>3, Lengths DEF RotateFails, Wake, Fault, Types, poller, history
<1>4. ASSUME NEW n \in Tokens, PersistRead(n) \/ PersistWrite(n) \/ PersistFails(n) \/ Emit(n) \/ EmitFails(n)
      PROVE  Types'
  <2>1. task' \in [Tokens -> {"none", "read", "write", "forward", "emit", "done"}]
    BY <1>1, <1>4 DEF PersistRead, PersistWrite, PersistFails, Emit, EmitFails, Step, AfterSave, Types
  <2>2. age' \in [Calls -> 0 .. Stuck]
    BY <1>1, <1>4, Lengths DEF PersistRead, PersistWrite, PersistFails, Emit, EmitFails, Restart, Types
  <2>3. faults' \in Nat /\ vault' \in Marks
    BY <1>1, <1>4 DEF PersistRead, PersistWrite, PersistFails, Emit, EmitFails, Fault, Types, Marks
  <2>4. refresh' \in [Refreshes -> States]
    <3>1. \A q \in States : [q EXCEPT !.pc = "read"] \in States
      BY DEF States
    <3> QED BY <1>1, <1>4, <3>1 DEF PersistRead, PersistWrite, PersistFails, Emit, EmitFails, Types
  <2> QED BY <1>1, <1>4, <2>1, <2>2, <2>3, <2>4
          DEF PersistRead, PersistWrite, PersistFails, Emit, EmitFails, Types, poller, history
<1>5. ASSUME NEW n \in Tokens, Forward(n) PROVE Types'
  <2>1. n > 0
    BY <1>1, <1>5 DEF Forward, Step, Tokens
  <2>2. sidecar' \in [current : Tokens, previous : Marks, age : 0 .. Overlap]
    BY <1>5, <2>1, Lengths DEF Forward, SetPair, Tokens, Marks
  <2> QED BY <1>1, <1>5, <2>2 DEF Forward, Step, Types, poller
<1>6. ASSUME NEW r \in Refreshes, RefreshRead(r) PROVE Types'
  <2>1. refresh' \in [Refreshes -> States]
    BY <1>1, <1>6 DEF RefreshRead, Types, States, Marks
  <2>2. age' \in [Calls -> 0 .. Stuck]
    <3>1. age \in [Calls -> 0 .. Stuck] /\ 0 \in 0 .. Stuck
      BY <1>1 DEF Types
    <3>2. age' = [age EXCEPT ![r] = 0]
      BY <1>6 DEF RefreshRead, Restart
    <3> QED BY <3>1, <3>2
  <2> QED BY <1>1, <1>6, <2>1, <2>2 DEF RefreshRead, Types, host, poller, history
<1>7. ASSUME NEW r \in Refreshes, RefreshApply(r) \/ RefreshFails(r) PROVE Types'
  <2>1. refresh' \in [Refreshes -> States]
    BY <1>1, <1>7 DEF RefreshApply, RefreshFails, Idle, Types, States, Marks
  <2>2. bearer' \in Marks
    BY <1>1, <1>7 DEF RefreshApply, RefreshFails, Types, States
  <2>3. faults' \in Nat /\ age' \in [Calls -> 0 .. Stuck]
    BY <1>1, <1>7, Lengths DEF RefreshApply, RefreshFails, Fault, Restart, Types
  <2>4. /\ left' \in [Chains -> 0 .. Poll \cup {None}]
        /\ armed' \in BOOLEAN /\ polling' \in BOOLEAN /\ visible' \in BOOLEAN /\ flips' \in Nat
    <3>1. Then(r)
      BY <1>7 DEF RefreshApply, RefreshFails
    <3>2. left' \in [Chains -> 0 .. Poll \cup {None}]
      BY <1>1, <3>1, Lengths DEF Then, Schedule, Types
    <3>3. armed' \in BOOLEAN
      BY <1>1, <3>1 DEF Then, Schedule, Types
    <3>4. polling' \in BOOLEAN
      BY <1>1, <3>1 DEF Then, Types
    <3> QED BY <1>1, <3>1, <3>2, <3>3, <3>4 DEF Then, Types
  <2>5. overtaken' \in BOOLEAN /\ refused' \in Nat /\ disturbed' \in BOOLEAN
    BY <1>1, <1>7 DEF RefreshApply, RefreshFails, history, Types
  <2> QED BY <1>1, <1>7, <2>1, <2>2, <2>3, <2>4, <2>5 DEF RefreshApply, RefreshFails, host, Types
<1>8. CASE FetchResolves \/ Hide \/ Show \/ \E c \in Chains : PollFires(c)
  <2>1. refresh' \in [Refreshes -> States]
    <3>1. \A q \in States : [q EXCEPT !.pc = "read"] \in States
      BY DEF States
    <3> QED BY <1>1, <1>8, <3>1 DEF FetchResolves, Hide, Show, PollFires, Run, Types
  <2>2. left' \in [Chains -> 0 .. Poll \cup {None}] /\ flips' \in Nat
    BY <1>1, <1>8 DEF FetchResolves, Hide, Show, PollFires, poller, Types
  <2>3. armed' \in BOOLEAN /\ polling' \in BOOLEAN /\ visible' \in BOOLEAN
    BY <1>1, <1>8 DEF FetchResolves, Hide, Show, PollFires, poller, Types
  <2> QED BY <1>1, <1>8, <2>1, <2>2, <2>3 DEF FetchResolves, Hide, Show, PollFires, host, history, poller, Types
<1>9. CASE Tick
  <2>1. age' \in [Calls -> 0 .. Stuck]
    <3>1. \A a \in 0 .. Stuck : a # Stuck => a + 1 \in 0 .. Stuck
      BY Lengths DEF Stuck
    <3> QED BY <1>1, <1>9, <3>1 DEF Tick, Types
  <2>2. sidecar' \in [current : Tokens, previous : Marks, age : 0 .. Overlap]
    BY <1>1, <1>9, Lengths DEF Tick, Types
  <2>3. left' \in [Chains -> 0 .. Poll \cup {None}]
    BY <1>1, <1>9, Lengths DEF Tick, Quiet, Types
  <2>4. toRotate' \in 0 .. Interval /\ refused' \in Nat
    BY <1>1, <1>9, Lengths DEF Tick, Quiet, Types
  <2> QED BY <1>1, <1>9, <2>1, <2>2, <2>3, <2>4 DEF Tick, Types
<1>10. ASSUME NEW n \in Tokens, ForwardFails(n) PROVE Types'
  BY <1>1, <1>10 DEF ForwardFails, Step, Disturb, Fault, Types, poller
<1>11. ASSUME NEW p \in Calls, Stall(p) PROVE Types'
  <2>1. age' \in [Calls -> 0 .. Stuck]
    BY <1>1, <1>11, Lengths DEF Stall, Stuck, Types
  <2> QED BY <1>1, <1>11, <2>1 DEF Stall, Disturb, Fault, host, poller, Types
<1> QED BY <1>2, <1>3, <1>4, <1>5, <1>6, <1>7, <1>8, <1>9, <1>10, <1>11 DEF Next

\* What does not hang is over in time.
LEMMA TypeStep ==
    ASSUME RotationInv, Calm
    PROVE  TypeInv'
<1>1. TypeInv /\ Types /\ 0 \in 0 .. Patience
  BY Lengths DEF RotationInv, TypeInv
<1>2. Types'
  <2>1. task[0] # "forward"
    <3>1. 0 \in Tokens
      BY Lengths DEF Tokens
    <3> QED BY <3>1, TheTask DEF RotationInv, TaskInv
  <2>2. Next
    BY DEF Calm, Next
  <2> QED BY <1>1, <2>1, <2>2, TypesStep
<1>3. CASE Tick
  <2>1. \A p \in OnKeychain : age[p] # Patience
    BY <1>3 DEF Tick, Quiet
  <2> QED BY <1>1, <1>2, <1>3, <2>1, Lengths DEF Tick, TypeInv
<1>4. CASE UNCHANGED age \/ \E p \in Calls : Restart(p)
  BY <1>1, <1>2, <1>4 DEF Restart, TypeInv
<1> QED BY <1>2, <1>3, <1>4, Distinct
        DEF Calm, Rotate, RotateFails, Hide, Show, FetchResolves, PersistRead, PersistWrite,
            PersistFails, Forward, Emit, EmitFails, RefreshRead, RefreshApply, RefreshFails, PollFires


------------------------------------------------------------------------------
(* The host.                                                                  *)

\* A rotation starts when all is told of the one before, and the overlap over.
LEMMA Awake ==
    ASSUME RotationInv, toRotate = 0
    PROVE  ~ Saving /\ task[current] = "done" /\ sidecar.age = Overlap /\ AtMost(0)
<1>1. /\ current \in Tokens /\ Elapsed = Interval /\ sidecar.age \in 0 .. Overlap
      /\ task[current] \in {"none", "read", "write", "forward", "emit", "done"}
      /\ age[Save(current)] \in 0 .. Patience
  <2>1. current \in Tokens /\ Save(current) \in Calls
    BY Distinct DEF RotationInv, TypeInv, Types
  <2> QED BY <2>1, Lengths DEF RotationInv, TypeInv, Types, Elapsed
<1>2. task[current] = "done"
  BY <1>1, Lengths DEF RotationInv, TaskInv
<1>3. ~ Saving
  BY <1>2 DEF Saving
<1>4. sidecar.age = Overlap
  BY <1>1, Lengths DEF RotationInv, PairInv
<1>5. AtMost(0)
  BY <1>1, <1>3, Lengths DEF RotationInv, SavingInv
<1> QED BY <1>2, <1>3, <1>4, <1>5

LEMMA RotateStep ==
    ASSUME RotationInv, Rotate
    PROVE  RotationInv'
<1>1. TypeInv' /\ TypeInv
  BY TypeStep DEF Calm, RotationInv
<1>2. /\ current' = current + 1 /\ current \in Nat /\ current' \in Tokens
      /\ toRotate = 0 /\ toRotate' = Interval
      /\ task' = [task EXCEPT ![current + 1] = "read"]
      /\ UNCHANGED <<vault, sidecar, bearer, refresh, age, left, armed, polling, visible, flips,
                     faults, refused, overtaken>>
  BY <1>1 DEF Rotate, Wake, TypeInv, Types, Tokens, poller, history
<1>3. task[current] = "done" /\ ~ Saving /\ sidecar.age = Overlap /\ AtMost(0)
  BY <1>2, Awake
<1>4. /\ task'[current'] = "read" /\ \A n \in Tokens : n # current' => task'[n] = task[n]
      /\ Elapsed' = 0
  BY <1>1, <1>2, Lengths DEF TypeInv, Types, Elapsed
<1>5. Saving'
  BY <1>2, <1>4 DEF Saving
<1>6. TaskInv'
  <2>1. \A n \in Tokens : (n > current' => task'[n] = "none") /\ (n < current' => task'[n] = "done")
    BY <1>1, <1>2, <1>3, <1>4 DEF RotationInv, TaskInv, Tokens
  <2>2. age'[Save(current')] \in 0 .. Patience
    BY <1>1, <1>2, Distinct DEF TypeInv, Types
  <2> QED BY <1>2, <1>4, <2>1, <2>2, Lengths DEF TaskInv
<1>7. PairInv'
  BY <1>1, <1>2, <1>3, <1>4, <1>5 DEF RotationInv, PairInv, TypeInv, Types
<1>8. CallInv'
  <2>1. OnKeychain \subseteq OnKeychain'
    <3>1. \A n \in Tokens : task[n] \in {"read", "write"} => task'[n] \in {"read", "write"}
      BY <1>2, <1>4
    <3> QED BY <1>2, <3>1 DEF OnKeychain
  <2> QED BY <1>2, <2>1 DEF RotationInv, CallInv
<1>9. AnswerInv'
  <2>1. ASSUME NEW r \in Refreshes, refresh[r].pc = "answer"
        PROVE  refresh[r].got \in Tokens /\ refresh[r].got = current
    BY <1>2, <2>1, Lengths DEF RotationInv, AnswerInv, Recent
  <2>2. ASSUME NEW r \in Refreshes, refresh'[r].pc = "answer"
        PROVE  (refresh[r].got \in Tokens /\ Recent(refresh[r].got))'
    BY <1>2, <1>5, <2>1, <2>2 DEF Recent
  <2>3. bearer' # None => bearer' <= current'
    BY <1>1, <1>2 DEF RotationInv, AnswerInv, TypeInv, Types, Marks, Tokens
  <2> QED BY <1>2, <2>2, <2>3 DEF RotationInv, AnswerInv
<1>10. FreshInv'
  <2>1. sidecar.current \in Tokens /\ sidecar.current # current' /\ UNCHANGED sidecar
    BY <1>1, <1>2, <1>3 DEF TypeInv, Types, RotationInv, PairInv, Tokens
  <2>2. task'[sidecar.current] = task[sidecar.current]
    BY <1>4, <2>1
  <2> QED BY <1>2, <2>1, <2>2 DEF RotationInv, FreshInv, EventPending
<1>11. ChainInv'
  BY <1>2 DEF RotationInv, ChainInv
<1>12. PollInv'
  BY <1>1, <1>2, PollKept, GraceKept DEF RotationInv
<1>13. SavingInv'
  BY <1>2, <1>3 DEF SavingInv, AtMost, Budget
<1> QED BY <1>1, <1>6, <1>7, <1>8, <1>9, <1>10, <1>11, <1>12, <1>13 DEF RotationInv

LEMMA RotateFailsStep ==
    ASSUME RotationInv, RotateFails
    PROVE  RotationInv'
<1>1. TypeInv' /\ TypeInv
  BY TypeStep DEF Calm, RotationInv
<1>2. /\ toRotate = 0 /\ toRotate' = Interval /\ faults' = faults + 1
      /\ UNCHANGED <<current, task, vault, sidecar, bearer, refresh, age, left, armed, polling, visible,
                     flips, refused, overtaken>>
  BY DEF RotateFails, Wake, Fault, poller, history
<1>3. task[current] = "done" /\ ~ Saving /\ sidecar.age = Overlap /\ AtMost(0)
  BY <1>2, Awake
<1>4. Elapsed' = 0 /\ ~ Saving'
  BY <1>2, <1>3, Lengths DEF Elapsed, Saving
<1>5. TaskInv'
  <2>1. faults' > 0
    BY <1>1, <1>2 DEF TypeInv, Types
  <2> QED BY <1>2, <1>3, <2>1 DEF RotationInv, TaskInv
<1>6. PairInv'
  BY <1>2, <1>3, <1>4 DEF RotationInv, PairInv
<1>7. CallInv'
  BY <1>2 DEF RotationInv, CallInv, OnKeychain
<1>8. AnswerInv'
  <2>1. ASSUME NEW r \in Refreshes, refresh[r].pc = "answer" PROVE refresh[r].got = current
    BY <1>2, <2>1, Lengths DEF RotationInv, AnswerInv, Recent
  <2> QED BY <1>2, <2>1 DEF RotationInv, AnswerInv, Recent
<1>9. FreshInv'
  BY <1>1, <1>2 DEF FreshInv, TypeInv, Types
<1>10. ChainInv'
  BY <1>2 DEF RotationInv, ChainInv
<1>11. PollInv'
  BY <1>1, <1>2, PollKept, GraceKept DEF RotationInv
<1>12. SavingInv'
  <2>1. refused' + Overlap <= Budget' + 0
    BY <1>1, <1>2, <1>3, AtMostKept DEF TypeInv, Types
  <2> QED BY <2>1 DEF SavingInv, AtMost
<1> QED BY <1>1, <1>5, <1>6, <1>7, <1>8, <1>9, <1>10, <1>11, <1>12 DEF RotationInv

\* A token is saved, or not: the sidecar is still to be told of it.
LEMMA PersistStep ==
    ASSUME RotationInv, NEW n \in Tokens, PersistRead(n) \/ PersistWrite(n) \/ PersistFails(n)
    PROVE  RotationInv'
<1>1. TypeInv' /\ TypeInv
  BY TypeStep DEF Calm, RotationInv
<1>2. n = current /\ task[n] \in {"read", "write"}
  <2>1. task[n] \in {"read", "write"}
    BY DEF PersistRead, PersistWrite, PersistFails, Step
  <2> QED BY <2>1, TheTask
<1>3. /\ age' = [age EXCEPT ![Save(n)] = 0]
      /\ faults' \in {faults, faults + 1}
      /\ UNCHANGED <<current, toRotate, sidecar, bearer, refresh, left, armed, polling, visible, flips,
                     refused, overtaken>>
  BY DEF PersistRead, PersistWrite, PersistFails, Restart, Fault, poller, history
<1>4. PICK to \in {"write", AfterSave(n)} :
         /\ task' = [task EXCEPT ![n] = to]
         /\ to = "write" => task[n] = "read"
         /\ to = AfterSave(n) => vault' = n \/ faults' = faults + 1
  BY DEF PersistRead, PersistWrite, PersistFails, Step, Fault, AfterSave
<1>5. task'[n] = to /\ (\A m \in Tokens : m # n => task'[m] = task[m]) /\ AfterSave(n) \in {"forward", "done"}
      /\ (n = 0 => AfterSave(n) = "done") /\ (n # 0 => AfterSave(n) = "forward")
  BY <1>1, <1>4 DEF TypeInv, Types, AfterSave
<1>6. age'[Save(n)] = 0 /\ age[Save(n)] \in 0 .. Patience /\ \A p \in Calls : p # Save(n) => age'[p] = age[p]
  BY <1>1, <1>3, Distinct DEF TypeInv, Types
<1>7. Elapsed' = Elapsed /\ Elapsed \in Nat
  BY <1>1, <1>3, Lengths DEF Elapsed, TypeInv, Types
<1>8. TaskInv'
  <2>1. \A m \in Tokens : (m > current' => task'[m] = "none") /\ (m < current' => task'[m] = "done")
    BY <1>1, <1>2, <1>3, <1>5 DEF RotationInv, TaskInv, Tokens
  <2>2. task'[current'] = "write" => Elapsed' <= Patience + age'[Save(current')]
    BY <1>2, <1>3, <1>4, <1>5, <1>6, <1>7, Lengths DEF RotationInv, TaskInv, Elapsed, TypeInv, Types
  <2>3. task'[current'] \in {"forward", "emit"} => Elapsed' <= 2 * Patience
    BY <1>2, <1>3, <1>4, <1>5, <1>6, <1>7, Lengths DEF RotationInv, TaskInv, Elapsed, TypeInv, Types
  <2>4. task'[current'] \in {"forward", "emit", "done"} => vault' = current' \/ faults' > 0
    BY <1>1, <1>2, <1>3, <1>4, <1>5 DEF TypeInv, Types
  <2> QED BY <1>2, <1>3, <1>4, <1>5, <2>1, <2>2, <2>3, <2>4 DEF TaskInv
<1>9. Saving' <=> Saving
  BY <1>1, <1>2, <1>3, <1>4, <1>5 DEF Saving, Tokens, TypeInv, Types
<1>10. PairInv'
  BY <1>2, <1>3, <1>5, <1>7, <1>9 DEF RotationInv, PairInv
<1>11. CallInv'
  <2>1. ASSUME NEW p \in Calls, p \notin OnKeychain', p # Save(n) PROVE p \notin OnKeychain
    BY <1>3, <1>5, <2>1 DEF OnKeychain
  <2> QED BY <1>6, <2>1 DEF RotationInv, CallInv
<1>12. AnswerInv'
  BY <1>3, <1>9 DEF RotationInv, AnswerInv, Recent
<1>13. FreshInv'
  <2>1. sidecar.current \in Tokens /\ (sidecar.current > 0 => sidecar.current # n)
    BY <1>1, <1>2, <1>9, <1>5 DEF RotationInv, PairInv, Saving, TypeInv, Types, Tokens
  <2>2. sidecar.current > 0 => task'[sidecar.current] = task[sidecar.current]
    BY <1>5, <2>1
  <2>3. \A e \in 1 .. MaxRotations : age'[Event(e)] = age[Event(e)]
    BY <1>2, <1>6, Distinct
  <2>4. sidecar.current > 0 => sidecar.current \in 1 .. MaxRotations
    BY <2>1, Lengths DEF Tokens
  <2>5. faults' = 0 => faults = 0
    BY <1>1, <1>3 DEF TypeInv, Types
  <2> QED BY <1>3, <2>2, <2>3, <2>4, <2>5 DEF RotationInv, FreshInv, EventPending
<1>14. ChainInv'
  BY <1>3 DEF RotationInv, ChainInv
<1>15. PollInv'
  <2>1. \A r \in Rounds : age'[r] = age[r]
    BY <1>2, <1>6, Distinct
  <2> QED BY <1>1, <1>3, <2>1, PollKept, GraceKept DEF RotationInv
<1>16. SavingInv'
  BY <1>1, <1>3, <1>9, SavingKept
<1> QED BY <1>1, <1>8, <1>10, <1>11, <1>12, <1>13, <1>14, <1>15, <1>16 DEF RotationInv

\* The sidecar is told: the page has the token before, or is to have this one.
LEMMA ForwardStep ==
    ASSUME RotationInv, NEW n \in Tokens, Forward(n)
    PROVE  RotationInv'
<1>1. TypeInv' /\ TypeInv
  BY TypeStep DEF Calm, RotationInv
<1>2. n = current /\ task[n] = "forward" /\ n > 0
  BY <1>1, TheTask DEF Forward, Step, RotationInv, TaskInv, Tokens
<1>3. /\ task' = [task EXCEPT ![n] = "emit"]
      /\ sidecar'.current = n /\ sidecar'.previous = n - 1 /\ sidecar'.age = 0
      /\ UNCHANGED <<current, toRotate, vault, bearer, refresh, age, left, armed, polling, visible, flips,
                     faults, refused, overtaken>>
  BY DEF Forward, Step, SetPair, poller, history
<1>4. task'[n] = "emit" /\ \A m \in Tokens : m # n => task'[m] = task[m]
  BY <1>1, <1>3 DEF TypeInv, Types
<1>5. Elapsed' = Elapsed /\ Elapsed \in Nat /\ Elapsed <= 2 * Patience
  BY <1>1, <1>2, <1>3, Lengths DEF Elapsed, TypeInv, Types, RotationInv, TaskInv
<1>6. /\ Saving /\ ~ Saving' /\ sidecar.current = n - 1 /\ sidecar.age = Overlap /\ n \in Int
      /\ sidecar.previous = IF n - 1 = 0 THEN None ELSE n - 2
  <2>1. Saving /\ ~ Saving'
    BY <1>2, <1>3, <1>4 DEF Saving
  <2> QED BY <1>2, <2>1 DEF RotationInv, PairInv, Tokens
<1>7. TaskInv'
  BY <1>1, <1>2, <1>3, <1>4, <1>5 DEF RotationInv, TaskInv, TypeInv, Types, Tokens
<1>8. PairInv'
  BY <1>2, <1>3, <1>4, <1>5, <1>6, Lengths DEF PairInv
<1>9. CallInv'
  BY <1>2, <1>3, <1>4 DEF RotationInv, CallInv, OnKeychain
<1>10. AnswerInv'
  <2>1. ASSUME NEW r \in Refreshes, refresh[r].pc = "answer"
        PROVE  (refresh[r].got \in Tokens /\ Recent(refresh[r].got))'
    BY <1>3, <2>1 DEF RotationInv, AnswerInv, Recent
  <2>2. \A e \in 1 .. MaxRotations : refresh[Event(e)].pc # "idle" => e <= sidecar'.current
    BY <1>3, <1>6 DEF RotationInv, AnswerInv
  <2> QED BY <1>3, <2>1, <2>2 DEF RotationInv, AnswerInv
<1>11. FreshInv'
  <2> SUFFICES ASSUME faults = 0
               PROVE  EventPending(n)' /\ (bearer = None \/ overtaken \/ bearer >= n - 1)
    BY <1>3 DEF FreshInv
  <2>1. EventPending(n)'
    BY <1>3, <1>4 DEF EventPending
  <2>2. ASSUME n - 1 = 0, bearer # None PROVE bearer >= n - 1
    <3>1. bearer \in Nat
      BY <1>1, <2>2 DEF TypeInv, Types, Marks, Tokens
    <3> QED BY <2>2, <3>1
  <2>3. ASSUME n - 1 # 0, bearer # None, ~ overtaken PROVE bearer >= n - 1
    <3>1. n - 1 \in 1 .. MaxRotations /\ n - 1 \in Tokens /\ n - 1 < current
      BY <1>2, <2>3, Lengths DEF Tokens
    <3>2. age[Event(n - 1)] \in 0 .. Patience
      <4>1. Event(n - 1) \in Calls
        BY <3>1, Distinct
      <4> QED BY <1>1, <4>1 DEF TypeInv, Types
    <3>3. task[n - 1] = "done"
      BY <3>1 DEF RotationInv, TaskInv
    <3>4. ~ EventPending(n - 1)
      BY <1>6, <3>2, <3>3, Lengths DEF EventPending
    <3>5. sidecar.current > 0 /\ sidecar.current = n - 1
      BY <1>6, <3>1
    <3> QED BY <2>3, <3>4, <3>5 DEF RotationInv, FreshInv
  <2> QED BY <2>1, <2>2, <2>3
<1>12. ChainInv'
  BY <1>3 DEF RotationInv, ChainInv
<1>13. Grace' >= Grace
  <2>1. bearer \in Marks /\ refused \in Nat /\ (bearer # None => bearer \in Nat)
    BY <1>1 DEF TypeInv, Types, Marks, Tokens
  <2>2. CASE bearer = None \/ bearer >= n - 1
    BY <1>1, <1>2, <1>3, <1>6, <2>1, <2>2, Lengths DEF Grace, Accepts
  <2>3. CASE bearer # None /\ bearer < n - 1
    BY <1>2, <1>3, <1>6, <2>1, <2>3, Lengths DEF Grace, Accepts
  <2> QED BY <1>6, <2>1, <2>2, <2>3
<1>14. PollInv'
  BY <1>1, <1>3, <1>13, PollKept DEF RotationInv
<1>15. SavingInv'
  <2>1. \A x \in Int : AtMost(x) => AtMost(x)'
    BY <1>3 DEF AtMost, Budget
  <2>2. ASSUME AtMost(Elapsed) PROVE AtMost(2 * Patience)'
    <3>1. refused' + Overlap <= Budget' + 2 * Patience
      BY <1>1, <1>3, <1>5, <2>2, AtMostKept, Lengths DEF TypeInv, Types
    <3> QED BY <3>1 DEF AtMost
  <2> QED BY <1>3, <1>5, <1>6, <2>1, <2>2 DEF RotationInv, SavingInv
<1> QED BY <1>1, <1>7, <1>8, <1>9, <1>10, <1>11, <1>12, <1>14, <1>15 DEF RotationInv

\* The page is told, or not.
LEMMA EmitStep ==
    ASSUME RotationInv, NEW n \in Tokens, Emit(n) \/ EmitFails(n)
    PROVE  RotationInv'
<1>1. TypeInv' /\ TypeInv
  BY TypeStep DEF Calm, RotationInv
<1>2. n = current /\ task[n] = "emit" /\ n > 0
  BY <1>1, TheTask DEF Emit, EmitFails, Step, RotationInv, TaskInv, Tokens
<1>3. /\ task' = [task EXCEPT ![n] = "done"]
      /\ \/ faults' = faults + 1 /\ refresh' = refresh
         \/ faults' = faults /\ refresh' = [refresh EXCEPT ![Event(n)].pc = "read"]
      /\ UNCHANGED <<current, toRotate, vault, sidecar, bearer, age, left, armed, polling, visible, flips,
                     refused, overtaken>>
  BY DEF Emit, EmitFails, Step, Fault, poller, history
<1>4. task'[n] = "done" /\ \A m \in Tokens : m # n => task'[m] = task[m]
  BY <1>1, <1>3 DEF TypeInv, Types
<1>5. Elapsed' = Elapsed /\ ~ Saving /\ ~ Saving' /\ sidecar.current = n
  BY <1>2, <1>3, <1>4 DEF Elapsed, Saving, RotationInv, PairInv
<1>6. n \in 1 .. MaxRotations /\ Event(n) \in Refreshes
  BY <1>2, Distinct, Lengths DEF Tokens
<1>7. /\ \A r \in Refreshes : r # Event(n) => refresh'[r] = refresh[r]
      /\ refresh'[Event(n)].pc = "read" \/ refresh'[Event(n)] = refresh[Event(n)]
      /\ faults' = faults => refresh'[Event(n)].pc = "read"
  BY <1>1, <1>3, <1>6 DEF TypeInv, Types, States
<1>8. TaskInv'
  BY <1>1, <1>2, <1>3, <1>4, <1>5 DEF RotationInv, TaskInv, TypeInv, Types, Tokens
<1>9. PairInv'
  BY <1>2, <1>3, <1>4, <1>5 DEF RotationInv, PairInv
<1>10. CallInv'
  <2>1. OnKeychain \subseteq OnKeychain'
    <3>1. \A m \in Tokens : task[m] \in {"read", "write"} => task'[m] \in {"read", "write"}
      BY <1>2, <1>4
    <3>2. \A r \in Refreshes : refresh[r].pc = "read" => refresh'[r].pc = "read"
      BY <1>7
    <3> QED BY <3>1, <3>2 DEF OnKeychain
  <2> QED BY <1>3, <2>1 DEF RotationInv, CallInv
<1>11. AnswerInv'
  <2>1. ASSUME NEW r \in Refreshes, refresh'[r].pc = "answer"
        PROVE  refresh'[r] = refresh[r]
    BY <1>7, <2>1
  <2>2. \A t : Recent(t) => Recent(t)'
    BY <1>3, <1>5 DEF Recent
  <2>3. \A e \in 1 .. MaxRotations : refresh'[Event(e)].pc # "idle" => e <= sidecar'.current
    <3> SUFFICES ASSUME NEW e \in 1 .. MaxRotations, refresh'[Event(e)].pc # "idle" PROVE e <= sidecar.current
      BY <1>3
    <3>1. CASE e = n
      BY <1>5, <1>6, <3>1
    <3>2. CASE e # n
      <4>1. refresh'[Event(e)] = refresh[Event(e)]
        BY <1>6, <1>7, <3>2, Distinct
      <4> QED BY <4>1 DEF RotationInv, AnswerInv
    <3> QED BY <3>1, <3>2
  <2> QED BY <1>3, <2>1, <2>2, <2>3, Distinct DEF RotationInv, AnswerInv
<1>12. FreshInv'
  <2> SUFFICES ASSUME faults' = 0
               PROVE  \/ EventPending(n)' /\ (bearer = None \/ overtaken \/ bearer >= n - 1)
                      \/ bearer # None /\ (bearer >= n \/ (overtaken /\ bearer = n - 1))
    BY <1>3, <1>5 DEF FreshInv
  <2>1. faults = 0 /\ faults' = faults /\ refresh'[Event(n)].pc = "read"
    BY <1>1, <1>3, <1>7 DEF TypeInv, Types
  <2>2. sidecar.age = 0 /\ age[Event(n)] \in 0 .. Patience
    BY <1>1, <1>2, <1>6, Distinct DEF RotationInv, PairInv, TypeInv, Types
  <2>3. EventPending(n)'
    BY <1>3, <2>1, <2>2, Lengths DEF EventPending
  <2> QED BY <1>2, <1>5, <2>1, <2>3 DEF RotationInv, FreshInv
<1>13. ChainInv'
  BY <1>3, <1>6, <1>7, Distinct DEF RotationInv, ChainInv
<1>14. PollInv'
  BY <1>1, <1>3, <1>6, <1>7, PollKept, GraceKept, Distinct DEF RotationInv
<1>15. SavingInv'
  BY <1>1, <1>3, <1>5, SavingKept
<1> QED BY <1>1, <1>8, <1>9, <1>10, <1>11, <1>12, <1>13, <1>14, <1>15 DEF RotationInv

------------------------------------------------------------------------------
(* The webview.                                                               *)

LEMMA Kinds ==
    ASSUME NEW r \in Refreshes
    PROVE  \/ r = Boot /\ r[1] = "boot"
           \/ r = Fetch /\ r[1] = "fetch"
           \/ \E n \in 1 .. MaxRotations : r = Event(n) /\ r[1] = "event"
           \/ \E c \in Chains : r = PollOf(c) /\ r[1] = "poll" /\ r[2] = c
BY DEF Refreshes, Boot, Fetch, Event, PollOf

LEMMA RefreshReadStep ==
    ASSUME RotationInv, NEW r \in Refreshes, RefreshRead(r)
    PROVE  RotationInv'
<1>1. TypeInv' /\ TypeInv
  BY TypeStep DEF Calm, RotationInv
<1>2. /\ refresh[r].pc = "read"
      /\ refresh' = [refresh EXCEPT ![r] = [pc |-> "answer", got |-> current]]
      /\ age' = [age EXCEPT ![r] = 0]
      /\ UNCHANGED <<current, toRotate, task, vault, sidecar, bearer, left, armed, polling, visible, flips,
                     faults, refused, overtaken>>
  BY DEF RefreshRead, Restart, host, poller, history
<1>3. /\ refresh'[r].pc = "answer" /\ refresh'[r].got = current
      /\ \A s \in Refreshes : s # r => refresh'[s] = refresh[s]
      /\ age'[r] = 0 /\ \A p \in Calls : p # r => age'[p] = age[p]
  BY <1>1, <1>2, Distinct DEF TypeInv, Types
<1>4. (Saving' <=> Saving) /\ Elapsed' = Elapsed
  BY <1>2 DEF Saving, Elapsed
<1>5. TaskInv'
  <2>1. age'[Save(current)] = age[Save(current)]
    BY <1>1, <1>3, Distinct DEF TypeInv, Types
  <2> QED BY <1>2, <1>4, <2>1 DEF RotationInv, TaskInv
<1>6. PairInv'
  BY <1>2, <1>4 DEF RotationInv, PairInv
<1>7. CallInv'
  <2>1. ASSUME NEW p \in Calls, p \notin OnKeychain', p # r PROVE p \notin OnKeychain
    BY <1>2, <1>3, <2>1 DEF OnKeychain
  <2> QED BY <1>3, <2>1 DEF RotationInv, CallInv
<1>8. AnswerInv'
  <2>1. \A t : Recent(t) => Recent(t)'
    BY <1>2, <1>4 DEF Recent
  <2>2. current \in Tokens /\ Recent(current)
    BY <1>1 DEF TypeInv, Types, Recent
  <2>3. ASSUME NEW s \in Refreshes, refresh'[s].pc = "answer"
        PROVE  refresh'[s].got \in Tokens /\ Recent(refresh'[s].got)
    BY <1>3, <2>2, <2>3 DEF RotationInv, AnswerInv
  <2>4. ASSUME NEW s \in Refreshes, refresh'[s].pc = "answer"
        PROVE  (refresh[s].got \in Tokens /\ Recent(refresh[s].got))'
    BY <1>2, <1>4, <2>3, <2>4 DEF Recent
  <2>5. ASSUME NEW n \in 1 .. MaxRotations
        PROVE  /\ refresh'[Event(n)].pc # "idle" => n <= sidecar'.current
               /\ refresh'[Event(n)].pc = "answer" => n <= refresh'[Event(n)].got
    <3>1. refresh[Event(n)].pc # "idle" => n <= sidecar.current
      BY DEF RotationInv, AnswerInv
    <3>2. sidecar.current <= current
      BY <1>1 DEF RotationInv, PairInv, Tokens, TypeInv, Types
    <3>3. CASE r = Event(n)
      BY <1>1, <1>2, <1>3, <3>1, <3>2, <3>3 DEF TypeInv, Types, Tokens
    <3>4. CASE r # Event(n)
      <4>1. refresh'[Event(n)] = refresh[Event(n)]
        BY <1>3, <3>4, Distinct
      <4> QED BY <1>2, <3>1, <4>1 DEF RotationInv, AnswerInv
    <3> QED BY <3>3, <3>4
  <2> QED BY <1>2, <2>4, <2>5 DEF RotationInv, AnswerInv
<1>9. FreshInv'
  <2>1. ASSUME NEW n \in 1 .. MaxRotations, EventPending(n) PROVE EventPending(n)'
    <3>1. age[Event(n)] \in 0 .. Patience /\ sidecar.age \in 0 .. Overlap
      BY <1>1, Distinct DEF TypeInv, Types
    <3>2. CASE r = Event(n)
      BY <1>2, <1>3, <2>1, <3>1, <3>2, Lengths DEF EventPending
    <3>3. CASE r # Event(n)
      <4>1. refresh'[Event(n)] = refresh[Event(n)] /\ age'[Event(n)] = age[Event(n)]
        BY <1>3, <3>3, Distinct
      <4> QED BY <1>2, <2>1, <4>1 DEF EventPending
    <3> QED BY <3>2, <3>3
  <2>2. sidecar.current > 0 => sidecar.current \in 1 .. MaxRotations
    BY <1>1, Lengths DEF TypeInv, Types, Tokens
  <2> QED BY <1>2, <2>1, <2>2 DEF RotationInv, FreshInv
<1>10. ChainInv'
  <2>1. \A s \in Refreshes : refresh'[s].pc = "idle" <=> refresh[s].pc = "idle"
    BY <1>2, <1>3
  <2> QED BY <1>2, <2>1, Distinct DEF RotationInv, ChainInv
<1>11. PollInv'
  <2>1. CASE r \notin Rounds
    BY <1>1, <1>2, <1>3, <2>1, PollKept, GraceKept, Distinct DEF RotationInv
  <2>2. CASE r \in Rounds
    <3>1. PICK d \in 0 .. Poll + Patience : Due(d) /\ d + Overlap <= Budget + Grace
      BY DEF RotationInv, PollInv
    <3>2. Grace' = Grace /\ Budget' = Budget
      BY <1>2 DEF Grace, Accepts, Budget
    <3>3. CASE refresh[r].pc = "read" /\ d = Patience - age[r]
      <4>1. Due(0)' /\ 0 \in 0 .. Poll + Patience
        BY <1>3, <2>2, Lengths DEF Due
      <4>2. \A x, y, o \in Int : d + o <= x + y => 0 + o <= x + y
        BY <3>1, Lengths
      <4>3. Budget \in Int /\ Grace \in Int
        BY <1>1, <1>2, Lengths, Grown DEF TypeInv, Types, Grace
      <4> QED BY <3>1, <3>2, <4>1, <4>2, <4>3, Lengths DEF PollInv
    <3>4. CASE ~ (refresh[r].pc = "read" /\ d = Patience - age[r])
      <4>1. \A s \in Rounds : s # r => refresh'[s] = refresh[s] /\ age'[s] = age[s]
        BY <1>3, Distinct
      <4>2. Due(d)'
        BY <1>2, <3>1, <3>4, <4>1 DEF Due
      <4> QED BY <3>1, <3>2, <4>2 DEF PollInv
    <3> QED BY <3>3, <3>4
  <2> QED BY <2>1, <2>2
<1>12. SavingInv'
  BY <1>1, <1>2, <1>4, SavingKept
<1> QED BY <1>1, <1>5, <1>6, <1>7, <1>8, <1>9, <1>10, <1>11, <1>12 DEF RotationInv

\* After the await: the next poll is set, or a page that is shown again begins one.
LEMMA AfterAwait ==
    ASSUME Types, ChainInv, NEW r \in Refreshes, refresh[r].pc # "idle", Idle(r), Then(r)
    PROVE  /\ ChainInv'
           /\ r \notin Rounds => UNCHANGED <<left, armed, polling, visible>>
           /\ r \in Rounds => \E d \in 0 .. Poll + Patience : Due(d)'
<1>1. Types
  OBVIOUS
<1>2. /\ refresh'[r].pc = "idle" /\ \A s \in Refreshes : s # r => refresh'[s] = refresh[s]
  BY <1>1 DEF Idle, Types
<1>3. CASE r = Boot
  <2>1. r[1] = "boot" /\ r \in Rounds /\ 1 \in Chains
    BY <1>3, Distinct DEF Boot
  <2>2. ~ armed /\ \A c \in Chains : left[c] = None /\ refresh[PollOf(c)].pc = "idle"
    BY <1>3 DEF ChainInv
  <2>3. polling' /\ visible' = visible
    BY <1>3 DEF Then
  <2>4. \A c \in Chains : refresh'[PollOf(c)].pc = "idle"
    BY <1>2, <1>3, <2>2, Distinct
  <2>5. ChainInv'
    BY <1>2, <1>3, <2>3, <2>4 DEF ChainInv
  <2>6. CASE visible
    <3>1. left'[1] = Poll
      BY <1>1, <1>3, <2>1, <2>6 DEF Then, Schedule, Types
    <3>2. Poll # None
      BY Lengths, ScheduleAssumption
    <3>3. Due(Poll + Patience)' /\ Poll + Patience \in 0 .. Poll + Patience
      BY <2>1, <3>1, <3>2, Lengths DEF Due
    <3> QED BY <2>1, <2>5, <3>3
  <2>7. CASE ~ visible
    <3> DEFINE d == Patience
    <3>1. ~ armed' /\ ~ visible' /\ polling'
      <4>1. armed' = FALSE
        BY <1>1, <2>2, <2>7 DEF Then, Types
      <4>2. visible' = FALSE
        BY <1>1, <2>3, <2>7 DEF Types
      <4> QED BY <2>3, <4>1, <4>2
    <3>2. d \in 0 .. Poll + Patience /\ Due(d)'
      BY <3>1, Lengths DEF Due
    <3> QED BY <2>1, <2>5, <3>2
  <2> QED BY <2>6, <2>7
<1>4. ASSUME NEW c \in Chains, r = PollOf(c), r[1] = "poll", r[2] = c
      PROVE  ChainInv' /\ r \in Rounds /\ \E d \in 0 .. Poll + Patience : Due(d)'
  <2>1. r \in Rounds /\ r # Boot /\ \A e \in Chains : e # c => PollOf(e) # r
    BY <1>4, Distinct
  <2>2. refresh[Boot].pc = "idle" /\ polling /\ refresh'[Boot].pc = "idle"
    BY <1>2, <1>4, <2>1, Distinct DEF ChainInv
  <2>3. polling' /\ visible' = visible
    BY <2>2 DEF Then
  <2>4. \A e \in Chains : e # c => left'[e] = left[e]
    BY <1>1, <1>4, <2>1 DEF Then, Schedule, Types
  <2>5. ChainInv'
    BY <1>2, <1>4, <2>1, <2>2, <2>3, <2>4, Distinct DEF ChainInv
  <2>6. CASE visible
    <3>1. left'[c] = Poll
      BY <1>1, <1>4, <2>1, <2>6 DEF Then, Schedule, Types
    <3>2. Poll # None
      BY Lengths, ScheduleAssumption
    <3>3. Due(Poll + Patience)' /\ Poll + Patience \in 0 .. Poll + Patience
      BY <3>1, <3>2, Lengths DEF Due
    <3> QED BY <2>1, <2>5, <3>3
  <2>7. CASE ~ visible
    <3> DEFINE d == Patience
    <3>1. ~ armed' /\ ~ visible' /\ polling'
      <4>1. armed' = FALSE
        BY <1>1, <1>4, <2>7 DEF Then, Types
      <4>2. visible' = FALSE
        BY <1>1, <2>3, <2>7 DEF Types
      <4> QED BY <2>3, <4>1, <4>2
    <3>2. d \in 0 .. Poll + Patience /\ Due(d)'
      BY <3>1, Lengths DEF Due
    <3> QED BY <2>1, <2>5, <3>2
  <2> QED BY <2>6, <2>7
<1>5. ASSUME r \notin Rounds, r[1] \in {"event", "fetch"}
      PROVE  ChainInv' /\ UNCHANGED <<left, armed, polling, visible>>
  <2>1. r # Boot /\ \A c \in Chains : r # PollOf(c)
    BY <1>5, Distinct
  <2>2. UNCHANGED <<left, armed, polling, visible>>
    BY <1>1, <1>5, <2>1 DEF Then, Types
  <2> QED BY <1>2, <2>1, <2>2, Distinct DEF ChainInv
<1> QED BY <1>3, <1>4, <1>5, Kinds, Distinct

\* What a failure and an answer leave alone.
LEMMA SettledKeeps ==
    ASSUME RotationInv, NEW r \in Refreshes, Idle(r), UNCHANGED <<host, sidecar>>,
           age' = age \/ (refresh[r].pc = "read" /\ Restart(r)),
           refresh[r].pc = "read" => Restart(r), faults' \in {faults, faults + 1}
    PROVE  /\ TaskInv' /\ PairInv' /\ CallInv' /\ (Saving' <=> Saving)
           /\ refresh'[r].pc = "idle" /\ \A s \in Refreshes : s # r => refresh'[s] = refresh[s]
           /\ \A p \in Calls : p # r => age'[p] = age[p]
           /\ \A s \in Refreshes :
                 refresh'[s].pc = "answer" => (refresh[s].got \in Tokens /\ Recent(refresh[s].got))'
           /\ \A n \in 1 .. MaxRotations :
                 /\ refresh'[Event(n)].pc # "idle" => n <= sidecar'.current
                 /\ refresh'[Event(n)].pc = "answer" => n <= refresh'[Event(n)].got
<1>1. TypeInv
  BY DEF RotationInv
<1>2. /\ refresh'[r].pc = "idle" /\ \A s \in Refreshes : s # r => refresh'[s] = refresh[s]
      /\ \A p \in Calls : p # r => age'[p] = age[p]
      /\ refresh[r].pc = "read" => age'[r] = 0
      /\ UNCHANGED <<current, toRotate, task, vault, sidecar>>
  BY <1>1, Distinct DEF Idle, Restart, TypeInv, Types, host
<1>3. (Saving' <=> Saving) /\ Elapsed' = Elapsed
  BY <1>2 DEF Saving, Elapsed
<1>4. TaskInv'
  <2>1. age'[Save(current)] = age[Save(current)]
    BY <1>1, <1>2, Distinct DEF TypeInv, Types
  <2>2. faults > 0 => faults' > 0
    BY <1>1 DEF TypeInv, Types
  <2> QED BY <1>2, <1>3, <2>1, <2>2 DEF RotationInv, TaskInv
<1>5. PairInv'
  BY <1>2, <1>3 DEF RotationInv, PairInv
<1>6. CallInv'
  <2>1. ASSUME NEW p \in Calls, p \notin OnKeychain', p # r PROVE p \notin OnKeychain
    BY <1>2, <2>1 DEF OnKeychain
  <2>2. age'[r] = 0
    <3>1. CASE refresh[r].pc = "read"
      BY <1>2, <3>1
    <3>2. CASE refresh[r].pc # "read"
      <4>1. r \notin OnKeychain /\ r \in Calls
        BY <3>2, Distinct DEF OnKeychain
      <4> QED BY <3>2, <4>1 DEF RotationInv, CallInv
    <3> QED BY <3>1, <3>2
  <2> QED BY <1>2, <2>1, <2>2 DEF RotationInv, CallInv
<1>7. ASSUME NEW s \in Refreshes, refresh'[s].pc = "answer"
      PROVE  (refresh[s].got \in Tokens /\ Recent(refresh[s].got))'
  <2>1. refresh'[s] = refresh[s] /\ refresh[s].pc = "answer"
    BY <1>2, <1>7
  <2> QED BY <1>2, <1>3, <2>1 DEF RotationInv, AnswerInv, Recent
<1>8. ASSUME NEW n \in 1 .. MaxRotations
      PROVE  /\ refresh'[Event(n)].pc # "idle" => n <= sidecar'.current
             /\ refresh'[Event(n)].pc = "answer" => n <= refresh'[Event(n)].got
  <2>1. CASE r = Event(n)
    BY <1>2, <2>1
  <2>2. CASE r # Event(n)
    <3>1. refresh'[Event(n)] = refresh[Event(n)]
      BY <1>2, <2>2, Distinct
    <3> QED BY <1>2, <3>1 DEF RotationInv, AnswerInv
  <2> QED BY <2>1, <2>2
<1> QED BY <1>2, <1>3, <1>4, <1>5, <1>6, <1>7, <1>8

\* A refresh fails: there is a poll period more for the next.
LEMMA RefreshFailsStep ==
    ASSUME RotationInv, NEW r \in Refreshes, RefreshFails(r)
    PROVE  RotationInv'
<1>1. TypeInv' /\ TypeInv
  BY TypeStep DEF Calm, RotationInv
<1>2. /\ refresh[r].pc = "read" /\ faults' = faults + 1 /\ Idle(r) /\ Then(r) /\ Restart(r)
      /\ UNCHANGED <<host, sidecar, bearer, refused, overtaken>>
  BY DEF RefreshFails, Fault, history
<1>3. /\ TaskInv' /\ PairInv' /\ CallInv' /\ (Saving' <=> Saving)
      /\ \A s \in Refreshes :
            refresh'[s].pc = "answer" => (refresh[s].got \in Tokens /\ Recent(refresh[s].got))'
      /\ \A n \in 1 .. MaxRotations :
            /\ refresh'[Event(n)].pc # "idle" => n <= sidecar'.current
            /\ refresh'[Event(n)].pc = "answer" => n <= refresh'[Event(n)].got
  BY <1>2, SettledKeeps
<1>4. /\ \A s \in Refreshes : s # r => refresh'[s] = refresh[s]
      /\ \A p \in Calls : p # r => age'[p] = age[p]
  BY <1>2, SettledKeeps
<1>5. AnswerInv'
  <2>1. bearer' # None => bearer' <= current'
    BY <1>2 DEF RotationInv, AnswerInv, host
  <2> QED BY <1>3, <2>1 DEF AnswerInv
<1>6. FreshInv'
  BY <1>1, <1>2 DEF FreshInv, TypeInv, Types
<1>7. /\ ChainInv'
      /\ r \notin Rounds => UNCHANGED <<left, armed, polling, visible>>
      /\ r \in Rounds => \E d \in 0 .. Poll + Patience : Due(d)'
  BY <1>1, <1>2, AfterAwait DEF RotationInv, TypeInv
<1>8. PollInv'
  <2>1. CASE r \notin Rounds
    <3>1. \A s \in Rounds : refresh'[s].pc = refresh[s].pc /\ age'[s] = age[s]
      BY <1>4, <2>1, Distinct
    <3>2. Grace' >= Grace
      BY <1>1, <1>2, GraceKept
    <3> QED BY <1>1, <1>2, <1>7, <2>1, <3>1, <3>2, PollKept DEF RotationInv
  <2>2. CASE r \in Rounds
    <3>1. PICK d \in 0 .. Poll + Patience : Due(d)'
      BY <1>7, <2>2
    <3>2. PICK e \in 0 .. Poll + Patience : e + Overlap <= Budget + Grace
      BY DEF RotationInv, PollInv
    <3>3. Grace' = Grace
      BY <1>2 DEF Grace, Accepts
    <3>4. Budget \in Int /\ Budget' = Budget + Poll + Patience /\ Grace \in Int
      BY <1>1, <1>2, Allowance, Lengths DEF TypeInv, Types, Grace
    <3>5. d + Overlap <= Budget' + Grace'
      <4>1. \A b, g \in Int : e + Overlap <= b + g => d + Overlap <= b + Poll + Patience + g
        BY <3>1, <3>2, Lengths
      <4> QED BY <3>2, <3>3, <3>4, <4>1
    <3> QED BY <3>1, <3>5 DEF PollInv
  <2> QED BY <2>1, <2>2
<1>9. SavingInv'
  BY <1>1, <1>2, <1>3, SavingKept DEF host
<1> QED BY <1>1, <1>3, <1>5, <1>6, <1>7, <1>8, <1>9 DEF RotationInv

\* What an answer brings is accepted for an overlap from now, once the sidecar
\* is told.
LEMMA AnswerIsGood ==
    ASSUME RotationInv, NEW r \in Refreshes, refresh[r].pc = "answer"
    PROVE  LET t == refresh[r].got
           IN  /\ t \in Tokens /\ t \in {current, current - 1} /\ t <= current /\ t >= sidecar.current - 1
               /\ t >= sidecar.current \/ (t = sidecar.previous /\ sidecar.age = 0)
<1> DEFINE t == refresh[r].got
<1>1. t \in Tokens /\ Recent(t)
  BY DEF RotationInv, AnswerInv
<1>2. t \in Nat /\ current \in Nat
  BY <1>1 DEF RotationInv, TypeInv, Types, Tokens
<1>3. sidecar.current = (IF Saving THEN current - 1 ELSE current)
      /\ sidecar.previous = IF sidecar.current = 0 THEN None ELSE sidecar.current - 1
  BY DEF RotationInv, PairInv
<1> HIDE DEF t
<1>4. CASE t = current
  BY <1>1, <1>2, <1>3, <1>4 DEF t
<1>5. CASE t = current - 1 /\ Saving
  BY <1>1, <1>2, <1>3, <1>5 DEF t
<1>6. CASE t = current - 1 /\ ~ Saving /\ sidecar.age = 0
  BY <1>1, <1>2, <1>3, <1>6 DEF t
<1> QED BY <1>1, <1>4, <1>5, <1>6 DEF Recent

LEMMA RefreshApplyStep ==
    ASSUME RotationInv, NEW r \in Refreshes, RefreshApply(r)
    PROVE  RotationInv'
<1> DEFINE t == refresh[r].got
<1>1. TypeInv' /\ TypeInv
  BY TypeStep DEF Calm, RotationInv
<1>2. /\ refresh[r].pc = "answer" /\ Idle(r) /\ Then(r) /\ bearer' = t
      /\ UNCHANGED <<host, sidecar, age, faults, refused>>
  BY DEF RefreshApply
<1>3. overtaken' = (bearer # None /\ (bearer > t \/ (overtaken /\ bearer = t)))
  BY DEF RefreshApply
<1>4. /\ t \in Tokens /\ t \in {current, current - 1} /\ t <= current /\ t >= sidecar.current - 1
      /\ t >= sidecar.current \/ (t = sidecar.previous /\ sidecar.age = 0)
  BY <1>2, AnswerIsGood
<1>5. refresh[r].pc # "read"
  BY <1>2
<1>6. /\ TaskInv' /\ PairInv' /\ CallInv' /\ (Saving' <=> Saving)
      /\ \A s \in Refreshes :
            refresh'[s].pc = "answer" => (refresh[s].got \in Tokens /\ Recent(refresh[s].got))'
      /\ \A n \in 1 .. MaxRotations :
            /\ refresh'[Event(n)].pc # "idle" => n <= sidecar'.current
            /\ refresh'[Event(n)].pc = "answer" => n <= refresh'[Event(n)].got
  BY <1>2, <1>5, SettledKeeps
<1>7. \A s \in Refreshes : s # r => refresh'[s] = refresh[s]
  BY <1>2, <1>5, SettledKeeps
<1> HIDE DEF t
<1>8. AnswerInv'
  <2>1. bearer' # None => bearer' <= current'
    BY <1>2, <1>4 DEF host
  <2> QED BY <1>6, <2>1 DEF AnswerInv
<1>9. FreshInv'
  <2> DEFINE n == sidecar.current
  <2> SUFFICES ASSUME faults = 0, n > 0
               PROVE  \/ EventPending(n)' /\ (bearer' = None \/ overtaken' \/ bearer' >= n - 1)
                      \/ bearer' # None /\ (bearer' >= n \/ (overtaken' /\ bearer' = n - 1))
    BY <1>2 DEF FreshInv
  <2>1. n \in 1 .. MaxRotations /\ t \in Int /\ t # None /\ n \in Int
    BY <1>1, <1>4, Lengths, ScheduleAssumption DEF TypeInv, Types, Tokens
  <2>2. CASE r = Event(n)
    <3>1. t >= n
      BY <1>2, <2>1, <2>2 DEF RotationInv, AnswerInv, t
    <3> QED BY <1>2, <2>1, <3>1
  <2>3. CASE r # Event(n) /\ EventPending(n)
    <3>1. refresh'[Event(n)] = refresh[Event(n)]
      BY <1>7, <2>1, <2>3, Distinct
    <3>2. EventPending(n)'
      BY <1>2, <2>3, <3>1 DEF EventPending, host
    <3> QED BY <1>2, <1>4, <3>2
  <2>4. CASE bearer # None /\ (bearer >= n \/ (overtaken /\ bearer = n - 1))
    <3>1. CASE t >= n
      BY <1>2, <2>1, <3>1
    <3>2. CASE t < n
      <4>1. t = n - 1
        BY <1>4, <2>1, <3>2
      <4>2. bearer \in Int
        BY <1>1, <2>4 DEF TypeInv, Types, Marks, Tokens
      <4>3. bearer > t \/ (overtaken /\ bearer = t)
        <5>1. CASE bearer >= n
          BY <2>1, <3>2, <4>2, <5>1
        <5>2. CASE overtaken /\ bearer = n - 1
          BY <4>1, <5>2
        <5> QED BY <2>4, <5>1, <5>2
      <4>4. overtaken' = TRUE
        BY <1>3, <2>4, <4>3
      <4> QED BY <1>2, <2>1, <4>1, <4>4
    <3> QED BY <2>1, <3>1, <3>2
  <2> QED BY <2>2, <2>3, <2>4 DEF RotationInv, FreshInv
<1>10. /\ ChainInv'
       /\ r \notin Rounds => UNCHANGED <<left, armed, polling, visible>>
       /\ r \in Rounds => \E d \in 0 .. Poll + Patience : Due(d)'
  BY <1>1, <1>2, AfterAwait DEF RotationInv, TypeInv
<1>11. PollInv'
  <2>1. Grace' = Overlap
    <3>1. t \in Int /\ t # None /\ sidecar.current \in Int
      BY <1>1, <1>4, ScheduleAssumption DEF TypeInv, Types, Tokens
    <3> QED BY <1>2, <1>4, <3>1, Lengths DEF Grace, Accepts
  <2>2. PICK d \in 0 .. Poll + Patience : Due(d)'
    <3>1. CASE r \notin Rounds
      <4>1. PICK d \in 0 .. Poll + Patience : Due(d)
        BY DEF RotationInv, PollInv
      <4>2. \A s \in Rounds : refresh'[s] = refresh[s]
        BY <1>7, <3>1, Distinct
      <4>3. Due(d)'
        BY <1>2, <1>10, <3>1, <4>1, <4>2 DEF Due
      <4> QED BY <4>3
    <3>2. CASE r \in Rounds
      BY <1>10, <3>2
    <3> QED BY <3>1, <3>2
  <2>3. Budget' \in Int /\ Budget' >= Poll + Patience
    BY <1>1, <1>2, Allowance DEF TypeInv, Types, Budget
  <2>4. d + Overlap <= Budget' + Overlap
    <3>1. \A b \in Int : b >= Poll + Patience => d + Overlap <= b + Overlap
      BY Lengths
    <3> QED BY <2>3, <3>1
  <2> QED BY <2>1, <2>2, <2>4 DEF PollInv
<1>12. SavingInv'
  <2>1. \A x : AtMost(x) => AtMost(x)'
    BY <1>2 DEF AtMost, Budget
  <2>2. Elapsed' = Elapsed
    BY <1>2 DEF Elapsed, host
  <2>3. bearer' \in {current', current' - 1} /\ sidecar' = sidecar
    BY <1>2, <1>4 DEF host
  <2> QED BY <1>6, <2>1, <2>2, <2>3 DEF RotationInv, SavingInv
<1> QED BY <1>1, <1>6, <1>8, <1>9, <1>10, <1>11, <1>12 DEF RotationInv

------------------------------------------------------------------------------
(* The page.                                                                  *)

\* A refresh that begins leaves the rest of the invariant alone.
LEMMA PageKeeps ==
    ASSUME RotationInv, TypeInv', UNCHANGED <<host, sidecar, bearer, age, faults, history>>,
           \A s \in Refreshes : \/ refresh'[s] = refresh[s]
                                \/ refresh[s].pc = "idle" /\ refresh'[s].pc = "read",
           \A n \in 1 .. MaxRotations : refresh'[Event(n)] = refresh[Event(n)]
    PROVE  TaskInv' /\ PairInv' /\ CallInv' /\ AnswerInv' /\ FreshInv' /\ SavingInv' /\ Grace' >= Grace
<1>1. TypeInv
  BY DEF RotationInv
<1>2. UNCHANGED <<current, toRotate, task, vault, refused, overtaken>>
  BY DEF host, history
<1>3. (Saving' <=> Saving) /\ Elapsed' = Elapsed
  BY <1>2 DEF Saving, Elapsed
<1>4. TaskInv'
  BY <1>2, <1>3 DEF RotationInv, TaskInv
<1>5. PairInv'
  BY <1>2, <1>3 DEF RotationInv, PairInv
<1>6. CallInv'
  <2>1. ASSUME NEW p \in Calls, p \notin OnKeychain' PROVE p \notin OnKeychain
    <3>1. \A s \in Refreshes : refresh[s].pc = "read" => refresh'[s].pc = "read"
      OBVIOUS
    <3> QED BY <1>2, <2>1, <3>1 DEF OnKeychain
  <2> QED BY <2>1 DEF RotationInv, CallInv
<1>7. AnswerInv'
  <2>1. \A s \in Refreshes : refresh'[s].pc = "answer" => refresh'[s] = refresh[s]
    OBVIOUS
  <2>2. ASSUME NEW s \in Refreshes, refresh'[s].pc = "answer"
        PROVE  (refresh[s].got \in Tokens /\ Recent(refresh[s].got))'
    BY <1>2, <1>3, <2>1, <2>2 DEF RotationInv, AnswerInv, Recent
  <2>3. bearer' # None => bearer' <= current'
    BY <1>2 DEF RotationInv, AnswerInv
  <2>4. ASSUME NEW n \in 1 .. MaxRotations
        PROVE  /\ refresh'[Event(n)].pc # "idle" => n <= sidecar'.current
               /\ refresh'[Event(n)].pc = "answer" => n <= refresh'[Event(n)].got
    BY DEF RotationInv, AnswerInv
  <2> QED BY <2>2, <2>3, <2>4 DEF AnswerInv
<1>8. FreshInv'
  <2>1. sidecar.current > 0 => sidecar.current \in 1 .. MaxRotations
    BY <1>1, Lengths DEF TypeInv, Types, Tokens
  <2> QED BY <1>1, <1>2, <2>1 DEF RotationInv, FreshInv, EventPending
<1>9. SavingInv'
  BY <1>1, <1>2, <1>3, SavingKept DEF TypeInv, Types
<1>10. Grace' >= Grace
  BY <1>1, <1>2, GraceKept
<1> QED BY <1>4, <1>5, <1>6, <1>7, <1>8, <1>9, <1>10

LEMMA FetchResolvesStep ==
    ASSUME RotationInv, FetchResolves
    PROVE  RotationInv'
<1>1. TypeInv' /\ TypeInv
  BY TypeStep DEF Calm, RotationInv
<1>2. /\ refresh[Fetch].pc = "idle" /\ refresh'[Fetch].pc = "read"
      /\ \A s \in Refreshes : s # Fetch => refresh'[s] = refresh[s]
      /\ UNCHANGED <<host, sidecar, bearer, age, poller, faults, history>>
  BY <1>1, Distinct DEF FetchResolves, TypeInv, Types, States
<1>3. TaskInv' /\ PairInv' /\ CallInv' /\ AnswerInv' /\ FreshInv' /\ SavingInv' /\ Grace' >= Grace
  BY <1>1, <1>2, Distinct, PageKeeps
<1>4. \A s \in Rounds : refresh'[s] = refresh[s]
  BY <1>2, Distinct
<1>5. ChainInv'
  BY <1>2, <1>4, Distinct DEF RotationInv, ChainInv, poller
<1>6. PollInv'
  BY <1>1, <1>2, <1>3, <1>4, PollKept DEF RotationInv, poller
<1> QED BY <1>1, <1>3, <1>5, <1>6 DEF RotationInv

\* What was due is.
LEMMA StillDue ==
    ASSUME RotationInv, TypeInv', \A d \in 0 .. Poll + Patience : Due(d) => Due(d)',
           faults' = faults, Grace' >= Grace
    PROVE  PollInv'
<1>1. PICK d \in 0 .. Poll + Patience : Due(d) /\ d + Overlap <= Budget + Grace
  BY DEF RotationInv, PollInv
<1>2. TypeInv /\ Budget' = Budget /\ Budget \in Int
  BY Allowance DEF RotationInv, TypeInv, Types, Budget
<1>3. Grace \in Int /\ Grace' \in Int
  BY <1>2, Lengths DEF TypeInv, Types, Grace
<1>4. d + Overlap <= Budget' + Grace'
  <2>1. \A a, e, f, o, t \in Int : t + o <= a + e /\ f >= e => t + o <= a + f
    OBVIOUS
  <2>2. d \in Int /\ Overlap \in Int
    BY <1>1, Lengths
  <2> QED BY <1>1, <1>2, <1>3, <2>1, <2>2
<1> QED BY <1>1, <1>4 DEF PollInv

LEMMA PollFiresStep ==
    ASSUME RotationInv, NEW c \in Chains, PollFires(c)
    PROVE  RotationInv'
<1>1. TypeInv' /\ TypeInv
  BY TypeStep DEF Calm, RotationInv
<1>2. left[c] = 0 /\ left[c] # None
  BY ScheduleAssumption DEF PollFires
<1>3. refresh[PollOf(c)].pc = "idle" /\ refresh[Boot].pc = "idle"
  BY <1>2 DEF RotationInv, ChainInv
<1>4. /\ refresh'[PollOf(c)].pc = "read"
      /\ \A s \in Refreshes : s # PollOf(c) => refresh'[s] = refresh[s]
      /\ left'[c] = None /\ \A e \in Chains : e # c => left'[e] = left[e]
      /\ armed' = FALSE
      /\ UNCHANGED <<host, sidecar, bearer, age, polling, visible, flips, faults, history>>
  BY <1>1, Distinct DEF PollFires, Run, TypeInv, Types, States
<1>5. TaskInv' /\ PairInv' /\ CallInv' /\ AnswerInv' /\ FreshInv' /\ SavingInv' /\ Grace' >= Grace
  <2>1. \A n \in 1 .. MaxRotations : refresh'[Event(n)] = refresh[Event(n)]
    BY <1>4, Distinct
  <2>2. \A s \in Refreshes : \/ refresh'[s] = refresh[s]
                             \/ refresh[s].pc = "idle" /\ refresh'[s].pc = "read"
    BY <1>3, <1>4
  <2> QED BY <1>1, <1>4, <2>1, <2>2, PageKeeps
<1>6. refresh'[Boot] = refresh[Boot] /\ \A e \in Chains : e # c => refresh'[PollOf(e)] = refresh[PollOf(e)]
  BY <1>4, Distinct
<1>7. ChainInv'
  BY <1>3, <1>4, <1>6 DEF RotationInv, ChainInv
<1>8. PollInv'
  <2>1. ASSUME NEW d \in 0 .. Poll + Patience, Due(d) PROVE Due(d)'
    <3>1. CASE d = left[c] + Patience
      <4>1. age'[PollOf(c)] = 0
        <5>1. PollOf(c) \notin OnKeychain /\ PollOf(c) \in Calls
          BY <1>3, Distinct DEF OnKeychain
        <5> QED BY <1>4, <5>1 DEF RotationInv, CallInv
      <4>2. d = Patience - age'[PollOf(c)]
        BY <1>2, <3>1, <4>1, Lengths
      <4> QED BY <1>4, <4>2, Distinct DEF Due
    <3>2. CASE \E e \in Chains : left[e] # None /\ d = left[e] + Patience
      BY <1>4, <3>1, <3>2 DEF Due
    <3>3. CASE \E r \in Rounds : \/ refresh[r].pc = "read" /\ d = Patience - age[r]
                                 \/ refresh[r].pc = "answer" /\ d = 0
      <4>1. \A r \in Rounds : refresh[r].pc # "idle" => refresh'[r] = refresh[r]
        BY <1>3, <1>4, Distinct
      <4> QED BY <1>4, <3>3, <4>1 DEF Due
    <3>4. CASE ~ visible /\ polling /\ ~ armed /\ d = Patience
      BY <1>4, <3>4 DEF Due
    <3> QED BY <2>1, <3>2, <3>3, <3>4 DEF Due
  <2> QED BY <1>1, <1>4, <1>5, <2>1, StillDue
<1> QED BY <1>1, <1>5, <1>7, <1>8 DEF RotationInv

LEMMA HideStep ==
    ASSUME RotationInv, Hide
    PROVE  RotationInv'
<1>1. TypeInv' /\ TypeInv
  BY TypeStep DEF Calm, RotationInv
<1>2. /\ visible /\ visible' = FALSE
      /\ UNCHANGED <<host, sidecar, bearer, refresh, age, left, armed, polling, faults, history>>
  BY DEF Hide
<1>3. TaskInv' /\ PairInv' /\ CallInv' /\ AnswerInv' /\ FreshInv' /\ SavingInv' /\ Grace' >= Grace
  BY <1>1, <1>2, PageKeeps
<1>4. ChainInv'
  BY <1>2 DEF RotationInv, ChainInv
<1>5. PollInv'
  <2>1. \A d \in 0 .. Poll + Patience : Due(d) => Due(d)'
    BY <1>2 DEF Due
  <2> QED BY <1>1, <1>2, <1>3, <2>1, StillDue
<1> QED BY <1>1, <1>3, <1>4, <1>5 DEF RotationInv

\* The listener begins a run where no timer is to.
LEMMA ShowStep ==
    ASSUME RotationInv, Show
    PROVE  RotationInv'
<1>1. TypeInv' /\ TypeInv
  BY TypeStep DEF Calm, RotationInv
<1>2. /\ ~ visible /\ visible' = TRUE
      /\ UNCHANGED <<host, sidecar, bearer, age, left, armed, polling, faults, history>>
  BY DEF Show
<1>3. CASE (armed \/ ~ polling) /\ UNCHANGED refresh
  <2>1. TaskInv' /\ PairInv' /\ CallInv' /\ AnswerInv' /\ FreshInv' /\ SavingInv' /\ Grace' >= Grace
    BY <1>1, <1>2, <1>3, PageKeeps
  <2>2. ChainInv'
    BY <1>2, <1>3 DEF RotationInv, ChainInv
  <2>3. PollInv'
    <3>1. \A d \in 0 .. Poll + Patience : Due(d) => Due(d)'
      BY <1>2, <1>3 DEF Due
    <3> QED BY <1>1, <1>2, <2>1, <3>1, StillDue
  <2> QED BY <1>1, <2>1, <2>2, <2>3 DEF RotationInv
<1>4. ASSUME polling, ~ armed, NEW c \in Chains, left[c] = None, refresh[PollOf(c)].pc = "idle", Run(c)
      PROVE  RotationInv'
  <2>1. /\ refresh'[PollOf(c)].pc = "read"
        /\ \A s \in Refreshes : s # PollOf(c) => refresh'[s] = refresh[s]
    BY <1>1, <1>4, Distinct DEF Run, TypeInv, Types, States
  <2>2. TaskInv' /\ PairInv' /\ CallInv' /\ AnswerInv' /\ FreshInv' /\ SavingInv' /\ Grace' >= Grace
    <3>1. \A n \in 1 .. MaxRotations : refresh'[Event(n)] = refresh[Event(n)]
      BY <2>1, Distinct
    <3>2. \A s \in Refreshes : \/ refresh'[s] = refresh[s]
                               \/ refresh[s].pc = "idle" /\ refresh'[s].pc = "read"
      BY <1>4, <2>1
    <3> QED BY <1>1, <1>2, <3>1, <3>2, PageKeeps
  <2>3. /\ refresh'[Boot] = refresh[Boot] /\ refresh[Boot].pc = "idle"
        /\ \A e \in Chains : e # c => refresh'[PollOf(e)] = refresh[PollOf(e)]
    BY <1>4, <2>1, Distinct DEF RotationInv, ChainInv
  <2>4. ChainInv'
    BY <1>2, <1>4, <2>1, <2>3 DEF RotationInv, ChainInv
  <2>5. PollInv'
    <3>1. ASSUME NEW d \in 0 .. Poll + Patience, Due(d) PROVE Due(d)'
      <4>1. CASE \E e \in Chains : left[e] # None /\ d = left[e] + Patience
        BY <1>2, <4>1 DEF Due
      <4>2. CASE \E r \in Rounds : \/ refresh[r].pc = "read" /\ d = Patience - age[r]
                                   \/ refresh[r].pc = "answer" /\ d = 0
        <5>1. \A r \in Rounds : refresh[r].pc # "idle" => refresh'[r] = refresh[r]
          BY <1>4, <2>1, Distinct
        <5> QED BY <1>2, <4>2, <5>1 DEF Due
      <4>3. CASE d = Patience
        <5>1. age'[PollOf(c)] = 0
          <6>1. PollOf(c) \notin OnKeychain /\ PollOf(c) \in Calls
            BY <1>4, Distinct DEF OnKeychain
          <6> QED BY <1>2, <6>1 DEF RotationInv, CallInv
        <5>2. d = Patience - age'[PollOf(c)]
          BY <4>3, <5>1, Lengths
        <5> QED BY <2>1, <5>2, Distinct DEF Due
      <4> QED BY <3>1, <4>1, <4>2, <4>3 DEF Due
    <3> QED BY <1>1, <1>2, <2>2, <3>1, StillDue
  <2> QED BY <1>1, <2>2, <2>4, <2>5 DEF RotationInv
<1> QED BY <1>3, <1>4 DEF Show

LEMMA StutterStep ==
    ASSUME RotationInv, UNCHANGED vars
    PROVE  RotationInv'
<1>1. TypeInv /\ TypeInv'
  BY DEF RotationInv, TypeInv, Types, vars, host, poller, history
<1>2. UNCHANGED <<host, sidecar, bearer, refresh, age, left, armed, polling, visible, faults, history>>
  BY DEF vars, poller
<1>3. TaskInv' /\ PairInv' /\ CallInv' /\ AnswerInv' /\ FreshInv' /\ SavingInv' /\ Grace' >= Grace
  BY <1>1, <1>2, PageKeeps
<1>4. ChainInv'
  BY <1>2 DEF RotationInv, ChainInv
<1>5. PollInv'
  BY <1>1, <1>2, <1>3, PollKept DEF RotationInv
<1> QED BY <1>1, <1>3, <1>4, <1>5 DEF RotationInv

------------------------------------------------------------------------------
(* Time.                                                                      *)

\* A tick takes one from what is left, and a refused page has been for one more.
LEMMA GraceTicks ==
    ASSUME TypeInv, TypeInv', ~ disturbed, Tick
    PROVE  Grace \in Int /\ Grace' \in Int /\ Grace' >= Grace - 1 /\ (refused' = 0 => Grace' >= 0)
<1>1. /\ bearer' = bearer /\ sidecar'.current = sidecar.current /\ sidecar'.previous = sidecar.previous
      /\ sidecar.age \in 0 .. Overlap /\ sidecar'.age \in 0 .. Overlap
      /\ sidecar'.age = IF sidecar.age < Overlap THEN sidecar.age + 1 ELSE sidecar.age
  BY DEF Tick, TypeInv, Types
<1>2. Grace \in Int /\ Grace' \in Int
  BY Lengths DEF TypeInv, Types, Grace
<1>3. refused \in Nat /\ refused' = IF visible /\ Refused THEN refused + 1 ELSE 0
  BY DEF Tick, TypeInv, Types
<1>4. CASE bearer = None \/ bearer >= sidecar.current
  <2>1. Grace = Overlap /\ Grace' = Overlap
    BY <1>1, <1>4 DEF Grace
  <2> QED BY <1>2, <2>1, Lengths
<1>5. CASE bearer # None /\ ~ (bearer >= sidecar.current) /\ Accepts(bearer)
  <2>1. bearer # sidecar.current
    BY <1>5 DEF TypeInv, Types, Tokens
  <2>2. bearer = sidecar.previous /\ sidecar.age < Overlap
    BY <1>5, <2>1 DEF Accepts
  <2>3. Grace = Overlap - sidecar.age /\ refused' = 0
    BY <1>3, <1>5 DEF Grace, Refused
  <2>4. Accepts(bearer)' <=> sidecar.age + 1 < Overlap
    BY <1>1, <2>1, <2>2 DEF Accepts
  <2>5. Grace' = IF sidecar.age + 1 < Overlap THEN Overlap - (sidecar.age + 1) ELSE - refused'
    BY <1>1, <1>5, <2>2, <2>4 DEF Grace
  <2> QED BY <1>1, <1>2, <2>2, <2>3, <2>5, Lengths
<1>6. CASE bearer # None /\ ~ (bearer >= sidecar.current) /\ ~ Accepts(bearer)
  <2>1. ~ Accepts(bearer)'
    BY <1>1, <1>6, Lengths DEF Accepts
  <2>2. Grace = - refused /\ Grace' = - refused'
    BY <1>1, <1>6, <2>1 DEF Grace
  <2> QED BY <1>3, <2>2
<1> QED BY <1>4, <1>5, <1>6

LEMMA TickStep ==
    ASSUME RotationInv, ~ disturbed, Tick
    PROVE  RotationInv'
<1>1. TypeInv' /\ TypeInv
  BY TypeStep DEF Calm, RotationInv
<1>2. /\ \A n \in Tokens : task[n] \notin {"forward", "emit"}
      /\ \A r \in Refreshes : refresh[r].pc # "answer"
      /\ \A p \in OnKeychain : age[p] # Patience
      /\ \A c \in Chains : left[c] # 0
  BY DEF Tick, Quiet
<1>3. /\ UNCHANGED <<current, task, vault, bearer, refresh, armed, polling, visible, faults, overtaken>>
      /\ sidecar'.current = sidecar.current /\ sidecar'.previous = sidecar.previous
      /\ sidecar.age \in 0 .. Overlap
      /\ sidecar'.age = IF sidecar.age < Overlap THEN sidecar.age + 1 ELSE sidecar.age
  BY <1>1 DEF Tick, TypeInv, Types
<1>4. Saving' = Saving /\ OnKeychain' = OnKeychain
  BY <1>3 DEF Saving, OnKeychain
<1>5. Elapsed' = Elapsed + 1 /\ Elapsed \in Nat
  BY <1>1, Lengths DEF Tick, Elapsed, TypeInv, Types
<1>6. \A p \in Calls : /\ age[p] \in 0 .. Patience
                       /\ age'[p] = IF p \in OnKeychain THEN age[p] + 1 ELSE age[p]
  BY <1>1, Lengths DEF Tick, TypeInv, Types, Stuck
<1>7. TaskInv'
  <2>1. current \in Tokens /\ task[current] \notin {"forward", "emit"}
    BY <1>1, <1>2 DEF TypeInv, Types
  <2>2. Save(current) \in Calls /\ age[Save(current)] \in Nat
    BY <1>1, <2>1, Distinct DEF TypeInv, Types
  <2>3. task[current] \in {"read", "write"} => age'[Save(current)] = age[Save(current)] + 1
    <3>1. task[current] \in {"read", "write"} => Save(current) \in OnKeychain
      BY <2>1 DEF OnKeychain
    <3> QED BY <1>6, <2>2, <3>1
  <2>4. task[current] = "read" => Elapsed' <= age'[Save(current)]
    BY <1>5, <2>2, <2>3 DEF RotationInv, TaskInv
  <2>5. task[current] = "write" => Elapsed' <= Patience + age'[Save(current)]
    BY <1>5, <2>2, <2>3, Lengths DEF RotationInv, TaskInv
  <2> QED BY <1>3, <2>1, <2>4, <2>5 DEF RotationInv, TaskInv
<1>8. PairInv'
  <2>1. task[current] # "emit"
    BY <1>1, <1>2 DEF TypeInv, Types
  <2>2. sidecar'.age # Overlap => ~ Saving' /\ Elapsed' <= sidecar'.age + 2 * Patience
    <3> SUFFICES ASSUME sidecar'.age # Overlap
                 PROVE  ~ Saving' /\ Elapsed' <= sidecar'.age + 2 * Patience
      OBVIOUS
    <3>1. sidecar.age # Overlap /\ sidecar'.age = sidecar.age + 1
      BY <1>3, Lengths
    <3>2. ~ Saving /\ Elapsed <= sidecar.age + 2 * Patience
      BY <3>1 DEF RotationInv, PairInv
    <3> QED BY <1>3, <1>4, <1>5, <3>1, <3>2, Lengths
  <2>3. (Saving' <=> Saving) /\ current' = current /\ task' = task
    BY <1>3, <1>4
  <2> QED BY <1>3, <2>1, <2>2, <2>3 DEF RotationInv, PairInv
<1>9. CallInv'
  BY <1>4, <1>6 DEF RotationInv, CallInv
<1>10. AnswerInv'
  BY <1>2, <1>3 DEF RotationInv, AnswerInv
<1>11. FreshInv'
  <2> DEFINE n == sidecar.current
  <2>1. ASSUME EventPending(n), n \in 1 .. MaxRotations PROVE EventPending(n)'
    <3>1. Event(n) \in Refreshes /\ Event(n) \in Calls /\ n \in Tokens
      BY <2>1, Distinct, Lengths DEF Tokens
    <3>2. refresh[Event(n)].pc = "read" /\ sidecar.age <= age[Event(n)]
      BY <1>2, <2>1, <3>1 DEF EventPending
    <3>3. age'[Event(n)] = age[Event(n)] + 1 /\ age[Event(n)] \in Nat
      BY <1>1, <1>6, <3>1, <3>2 DEF OnKeychain, TypeInv, Types
    <3>4. sidecar'.age <= age'[Event(n)]
      BY <1>3, <3>2, <3>3
    <3> QED BY <1>3, <3>2, <3>4 DEF EventPending
  <2>2. n > 0 => n \in 1 .. MaxRotations
    BY <1>1, Lengths DEF TypeInv, Types, Tokens
  <2> QED BY <1>3, <2>1, <2>2 DEF RotationInv, FreshInv
<1>12. ChainInv'
  <2>1. \A c \in Chains : left'[c] = None <=> left[c] = None
    BY <1>1, ScheduleAssumption DEF Tick, TypeInv, Types
  <2> QED BY <1>3, <2>1 DEF RotationInv, ChainInv
<1>13. Budget \in Int /\ Budget' = Budget /\ Budget >= Poll + Patience
  BY <1>1, <1>3, Allowance DEF TypeInv, Types, Budget
<1>14. Grace \in Int /\ Grace' \in Int /\ Grace' >= Grace - 1 /\ (refused' = 0 => Grace' >= 0)
  BY <1>1, GraceTicks
<1>15. PollInv'
  <2>1. PICK d \in 0 .. Poll + Patience : Due(d) /\ d + Overlap <= Budget + Grace
    BY DEF RotationInv, PollInv
  <2>2. CASE d > 0 /\ Due(d - 1)'
    <3>1. d - 1 \in 0 .. Poll + Patience
      BY <2>2, Lengths
    <3>2. (d - 1) + Overlap <= Budget' + Grace'
      <4>1. \A b, g, h \in Int : d + Overlap <= b + g /\ h >= g - 1 => (d - 1) + Overlap <= b + h
        BY Lengths
      <4> QED BY <1>13, <1>14, <2>1, <4>1
    <3> QED BY <2>2, <3>1, <3>2 DEF PollInv
  <2>3. CASE \E c \in Chains : left[c] # None /\ d = left[c] + Patience
    <3>1. PICK c \in Chains : left[c] # None /\ d = left[c] + Patience
      BY <2>3
    <3>2. left[c] \in Nat /\ left[c] # 0 /\ left'[c] = left[c] - 1 /\ left'[c] # None
      BY <1>1, <1>2, <3>1, ScheduleAssumption DEF Tick, TypeInv, Types
    <3>3. d > 0 /\ d - 1 = left'[c] + Patience
      BY <3>1, <3>2, Lengths
    <3> QED BY <2>2, <3>2, <3>3 DEF Due
  <2>4. CASE \E r \in Rounds : refresh[r].pc = "read" /\ d = Patience - age[r]
    <3>1. PICK r \in Rounds : refresh[r].pc = "read" /\ d = Patience - age[r]
      BY <2>4
    <3>2. r \in OnKeychain /\ r \in Calls
      BY <3>1, Distinct DEF OnKeychain
    <3>3. age[r] \in Nat /\ age[r] < Patience /\ age'[r] = age[r] + 1
      BY <1>2, <1>6, <3>2, Lengths
    <3>4. d > 0 /\ d - 1 = Patience - age'[r] /\ refresh'[r].pc = "read"
      BY <1>3, <3>1, <3>3, Lengths
    <3> QED BY <2>2, <3>4 DEF Due
  <2>5. CASE ~ visible /\ polling /\ ~ armed /\ d = Patience
    <3>1. Due(d)'
      BY <1>3, <2>5 DEF Due
    <3>2. refused' = 0
      BY <2>5 DEF Tick
    <3>3. d + Overlap <= Budget' + Grace'
      <4>1. \A b, h \in Int : b >= Poll + Patience /\ h >= 0 => Patience + Overlap <= b + h
        BY Lengths
      <4> QED BY <1>13, <1>14, <2>5, <3>2, <4>1
    <3> QED BY <3>1, <3>3 DEF PollInv
  <2>6. \A r \in Rounds : refresh[r].pc # "answer"
    BY <1>2, Distinct
  <2> QED BY <2>1, <2>3, <2>4, <2>5, <2>6 DEF Due
<1>16. SavingInv'
  <2>1. refused \in Nat /\ refused' = IF visible /\ Refused THEN refused + 1 ELSE 0
    BY <1>1 DEF Tick, TypeInv, Types
  <2>2. CASE refused' = 0
    <3>1. \A b \in Int : b >= Poll + Patience => 0 + Overlap <= b + 0
      BY Lengths
    <3>2. AtMost(0)'
      BY <1>13, <2>2, <3>1 DEF AtMost
    <3> QED BY <3>2 DEF SavingInv
  <2>3. CASE visible /\ Refused
    <3>1. refused' = refused + 1 /\ bearer # None /\ ~ Accepts(bearer)
      BY <2>1, <2>3 DEF Refused
    <3>2. bearer \in Nat /\ sidecar.current \in Nat /\ current \in Nat /\ bearer # sidecar.current
      BY <1>1, <3>1 DEF TypeInv, Types, Marks, Tokens, Accepts
    <3>3. CASE bearer < sidecar.current
      <4>1. Grace' = - refused'
        <5>1. ~ Accepts(bearer)'
          BY <1>3, <3>1, Lengths DEF Accepts
        <5> QED BY <1>3, <3>1, <3>2, <3>3, <5>1 DEF Grace
      <4>2. PICK d \in 0 .. Poll + Patience : d + Overlap <= Budget' + Grace'
        BY <1>15 DEF PollInv
      <4>3. refused' + Overlap <= Budget' + 0
        <5>1. \A b \in Int : d + Overlap <= b + (- refused') => refused' + Overlap <= b + 0
          BY <2>1, <3>1, <4>2, Lengths
        <5> QED BY <1>13, <4>1, <4>2, <5>1
      <4> QED BY <4>3 DEF SavingInv, AtMost
    <3>4. CASE bearer > sidecar.current
      <4>1. Saving /\ bearer = current
        BY <3>1, <3>2, <3>4 DEF RotationInv, AnswerInv, PairInv
      <4>2. AtMost(0) \/ AtMost(Elapsed)
        BY <4>1 DEF RotationInv, SavingInv
      <4>3. refused' + Overlap <= Budget' + (Elapsed + 1)
        <5>1. \A b \in Int : refused + Overlap <= b + 0 \/ refused + Overlap <= b + Elapsed
                                => (refused + 1) + Overlap <= b + (Elapsed + 1)
          BY <1>5, <2>1, Lengths
        <5> QED BY <1>13, <3>1, <4>2, <5>1 DEF AtMost
      <4> QED BY <1>3, <1>4, <1>5, <4>1, <4>3 DEF SavingInv, AtMost
    <3> QED BY <3>2, <3>3, <3>4
  <2> QED BY <2>1, <2>2, <2>3
<1> QED BY <1>1, <1>7, <1>8, <1>9, <1>10, <1>11, <1>12, <1>15, <1>16 DEF RotationInv

------------------------------------------------------------------------------
(* The invariant, while nothing hangs and no hand-over fails.                 *)

LEMMA RotationStep ==
    ASSUME RotationInv, ~ disturbed, Calm \/ UNCHANGED vars
    PROVE  RotationInv'
<1>1. CASE Rotate
  BY <1>1, RotateStep
<1>2. CASE RotateFails
  BY <1>2, RotateFailsStep
<1>3. CASE Tick
  BY <1>3, TickStep
<1>4. CASE Hide
  BY <1>4, HideStep
<1>5. CASE Show
  BY <1>5, ShowStep
<1>6. CASE FetchResolves
  BY <1>6, FetchResolvesStep
<1>7. ASSUME NEW n \in Tokens, PersistRead(n) \/ PersistWrite(n) \/ PersistFails(n) PROVE RotationInv'
  BY <1>7, PersistStep
<1>8. ASSUME NEW n \in Tokens, Forward(n) PROVE RotationInv'
  BY <1>8, ForwardStep
<1>9. ASSUME NEW n \in Tokens, Emit(n) \/ EmitFails(n) PROVE RotationInv'
  BY <1>9, EmitStep
<1>10. ASSUME NEW r \in Refreshes, RefreshRead(r) PROVE RotationInv'
  BY <1>10, RefreshReadStep
<1>11. ASSUME NEW r \in Refreshes, RefreshApply(r) PROVE RotationInv'
  BY <1>11, RefreshApplyStep
<1>12. ASSUME NEW r \in Refreshes, RefreshFails(r) PROVE RotationInv'
  BY <1>12, RefreshFailsStep
<1>13. ASSUME NEW c \in Chains, PollFires(c) PROVE RotationInv'
  BY <1>13, PollFiresStep
<1>14. CASE UNCHANGED vars
  BY <1>14, StutterStep
<1> QED BY <1>1, <1>2, <1>3, <1>4, <1>5, <1>6, <1>7, <1>8, <1>9, <1>10, <1>11, <1>12, <1>13, <1>14 DEF Calm

------------------------------------------------------------------------------
(* What is left when an operation hangs or a hand-over fails.                 *)

LEMMA BaseInit == Init => Base
<1> SUFFICES ASSUME Init PROVE Base
  OBVIOUS
<1>1. RotationInv
  BY RotationInit
<1>2. Begun
  BY Lengths DEF Init, Begun, Tokens
<1>3. Told
  BY <1>1 DEF Init, Told, RotationInv, AnswerInv, Boot, Event
<1>4. Alive
  BY Distinct DEF Init, Alive
<1> QED BY <1>1, <1>2, <1>3, <1>4 DEF RotationInv, TypeInv, Base, Init, Signs

\* Only the newest task is new.
LEMMA BegunStep ==
    ASSUME Types, Begun, Next
    PROVE  Begun'
<1>1. 0 \in Tokens /\ current \in Tokens /\ task[0] \notin {"forward", "emit"}
  BY Lengths DEF Types, Begun, Tokens
<1>2. CASE Rotate
  BY <1>1, <1>2 DEF Rotate, Types, Begun, Tokens
<1>3. ASSUME UNCHANGED current, NEW n \in Tokens, task[n] # "none",
             NEW to \in {"write", "forward", "emit", "done"}, task' = [task EXCEPT ![n] = to],
             n = 0 => to \notin {"forward", "emit"}
      PROVE  Begun'
  BY <1>1, <1>3 DEF Types, Begun
<1>4. ASSUME NEW n \in Tokens,
             PersistRead(n) \/ PersistWrite(n) \/ PersistFails(n) \/ Forward(n) \/ ForwardFails(n)
                 \/ Emit(n) \/ EmitFails(n)
      PROVE  Begun'
  <2>1. PersistRead(n) => Begun'
    BY <1>3 DEF PersistRead, Step
  <2>2. PersistWrite(n) => Begun'
    BY <1>3 DEF PersistWrite, Step, AfterSave
  <2>3. PersistFails(n) => Begun'
    BY <1>3 DEF PersistFails, Step, AfterSave
  <2>4. Forward(n) \/ ForwardFails(n) => Begun'
    BY <1>1, <1>3 DEF Forward, ForwardFails, Step
  <2>5. Emit(n) \/ EmitFails(n) => Begun'
    BY <1>3 DEF Emit, EmitFails, Step
  <2> QED BY <1>4, <2>1, <2>2, <2>3, <2>4, <2>5
<1>5. CASE UNCHANGED <<current, task>>
  BY <1>5 DEF Begun
<1> QED BY <1>2, <1>4, <1>5
        DEF Next, RotateFails, Tick, Hide, Show, FetchResolves, RefreshRead, RefreshApply,
            RefreshFails, PollFires, Stall, host

\* An operation that ends gives its time back.
LEMMA CallStep ==
    ASSUME Types, CallInv, Next
    PROVE  CallInv'
<1>2. ASSUME NEW p \in Calls, OnKeychain \ {p} \subseteq OnKeychain', Restart(p)
      PROVE  CallInv'
  BY <1>2 DEF CallInv, Restart, Types
<1>3. ASSUME OnKeychain \subseteq OnKeychain', UNCHANGED age PROVE CallInv'
  BY <1>3 DEF CallInv
<1>4. CASE Rotate
  <2>1. \A n \in Tokens : task[n] \in {"read", "write"} => task'[n] \in {"read", "write"}
    BY <1>4 DEF Rotate, Types
  <2> QED BY <1>3, <1>4, <2>1 DEF Rotate, OnKeychain
<1>5. ASSUME NEW n \in Tokens, PersistRead(n) \/ PersistWrite(n) \/ PersistFails(n) PROVE CallInv'
  <2>1. \A m \in Tokens : m # n => task'[m] = task[m]
    BY <1>5 DEF PersistRead, PersistWrite, PersistFails, Step, Types
  <2>2. OnKeychain \ {Save(n)} \subseteq OnKeychain'
    BY <1>5, <2>1 DEF PersistRead, PersistWrite, PersistFails, OnKeychain
  <2> QED BY <1>2, <1>5, <2>2, Distinct DEF PersistRead, PersistWrite, PersistFails
<1>6. ASSUME NEW n \in Tokens, Forward(n) \/ ForwardFails(n) \/ Emit(n) \/ EmitFails(n) PROVE CallInv'
  <2>1. \A m \in Tokens : task[m] \in {"read", "write"} => task'[m] = task[m]
    BY <1>6 DEF Forward, ForwardFails, Emit, EmitFails, Step, Types
  <2>2. \A s \in Refreshes : refresh[s].pc = "read" => refresh'[s].pc = "read"
    BY <1>6 DEF Forward, ForwardFails, Emit, EmitFails, Types, States
  <2> QED BY <1>3, <1>6, <2>1, <2>2 DEF Forward, ForwardFails, Emit, EmitFails, OnKeychain
<1>7. ASSUME NEW r \in Refreshes, RefreshRead(r) \/ RefreshFails(r) PROVE CallInv'
  <2>1. \A s \in Refreshes : s # r => refresh'[s] = refresh[s]
    BY <1>7 DEF RefreshRead, RefreshFails, Idle, Types
  <2>2. OnKeychain \ {r} \subseteq OnKeychain'
    BY <1>7, <2>1 DEF RefreshRead, RefreshFails, host, OnKeychain
  <2> QED BY <1>2, <1>7, <2>2, Distinct DEF RefreshRead, RefreshFails
<1>8. ASSUME NEW r \in Refreshes, RefreshApply(r) PROVE CallInv'
  <2>1. \A s \in Refreshes : refresh[s].pc = "read" => refresh'[s].pc = "read"
    BY <1>8 DEF RefreshApply, Idle, Types
  <2> QED BY <1>3, <1>8, <2>1 DEF RefreshApply, host, OnKeychain
<1>9. CASE FetchResolves \/ Hide \/ Show \/ \E c \in Chains : PollFires(c)
  <2>1. \A s \in Refreshes : refresh[s].pc = "read" => refresh'[s].pc = "read"
    BY <1>9 DEF FetchResolves, Hide, Show, PollFires, Run, Types, States
  <2> QED BY <1>3, <1>9, <2>1 DEF FetchResolves, Hide, Show, PollFires, host, OnKeychain
<1>10. CASE Tick
  <2>1. OnKeychain' = OnKeychain
    BY <1>10 DEF Tick, OnKeychain
  <2> QED BY <1>10, <2>1 DEF Tick, CallInv
<1>11. ASSUME NEW p \in Calls, Stall(p) PROVE CallInv'
  <2>1. OnKeychain' = OnKeychain
    BY <1>11 DEF Stall, host, OnKeychain
  <2> QED BY <1>11, <2>1 DEF Stall, CallInv, Types
<1>12. CASE RotateFails
  BY <1>3, <1>12 DEF RotateFails, OnKeychain
<1> QED BY <1>4, <1>5, <1>6, <1>7, <1>8, <1>9, <1>10, <1>11, <1>12 DEF Next

\* Tokens reach the page from the host only, and the host's is the newest.
LEMMA ToldStep ==
    ASSUME Types, Begun, Told, Next
    PROVE  Told'
<1>1. current \in Nat /\ (bearer # None => bearer \in Nat) /\ Interval \in Nat \ {0}
  BY Lengths DEF Types, Tokens, Marks
<1>2. ASSUME UNCHANGED <<current, toRotate, bearer>>,
             \A s \in Refreshes : refresh'[s].pc = "answer" => refresh'[s] = refresh[s],
             \A n \in 1 .. MaxRotations :
                refresh'[Event(n)].pc # "idle" => n <= current \/ refresh[Event(n)].pc # "idle"
      PROVE  Told'
  BY <1>2, Distinct DEF Told, New
<1>3. CASE Rotate
  <2>1. current' = current + 1 /\ toRotate = 0 /\ toRotate' = Interval /\ UNCHANGED <<bearer, refresh>>
    BY <1>3 DEF Rotate, Wake
  <2>2. \A t : New(t) => t = current /\ New(t)'
    BY <1>1, <2>1 DEF New
  <2> QED BY <1>1, <2>1, <2>2, Lengths DEF Told
<1>4. CASE RotateFails
  <2>1. toRotate = 0 /\ UNCHANGED <<current, bearer, refresh>>
    BY <1>4 DEF RotateFails, Wake
  <2>2. \A t : New(t) => New(t)'
    BY <1>1, <2>1 DEF New
  <2> QED BY <2>1, <2>2 DEF Told
<1>5. ASSUME NEW n \in Tokens,
             PersistRead(n) \/ PersistWrite(n) \/ PersistFails(n) \/ Forward(n) \/ ForwardFails(n) \/ EmitFails(n)
      PROVE  Told'
  <2>1. UNCHANGED <<current, toRotate, bearer, refresh>>
    BY <1>5 DEF PersistRead, PersistWrite, PersistFails, Forward, ForwardFails, EmitFails
  <2> QED BY <1>2, <2>1
<1>6. ASSUME NEW n \in Tokens, Emit(n) PROVE Told'
  <2>1. n <= current /\ n # 0
    BY <1>6 DEF Emit, Step, Begun, Types, Tokens
  <2>2. n \in 1 .. MaxRotations
    BY <2>1, Lengths DEF Tokens
  <2>3. /\ refresh' = [refresh EXCEPT ![Event(n)].pc = "read"]
        /\ UNCHANGED <<current, toRotate, bearer>>
    BY <1>6 DEF Emit
  <2>4. \A s \in Refreshes : refresh'[s].pc = "answer" => refresh'[s] = refresh[s]
    BY <2>2, <2>3, Distinct DEF Types, States
  <2>5. \A m \in 1 .. MaxRotations : m # n => refresh'[Event(m)] = refresh[Event(m)]
    BY <2>2, <2>3, Distinct DEF Types
  <2> QED BY <1>2, <2>1, <2>3, <2>4, <2>5
<1>7. ASSUME NEW r \in Refreshes, RefreshRead(r) PROVE Told'
  <2>1. /\ refresh[r].pc = "read" /\ refresh'[r] = [pc |-> "answer", got |-> current]
        /\ \A s \in Refreshes : s # r => refresh'[s] = refresh[s]
        /\ UNCHANGED <<current, toRotate, bearer>>
    BY <1>7 DEF RefreshRead, host, Types
  <2>2. current \in Tokens
    BY DEF Types
  <2> QED BY <2>1, <2>2, Distinct DEF Told, New
<1>8. ASSUME NEW r \in Refreshes, RefreshApply(r) \/ RefreshFails(r) PROVE Told'
  <2>1. /\ refresh'[r].pc = "idle"
        /\ \A s \in Refreshes : s # r => refresh'[s] = refresh[s]
        /\ UNCHANGED <<current, toRotate>>
        /\ UNCHANGED bearer \/ (refresh[r].pc = "answer" /\ bearer' = refresh[r].got)
    BY <1>8 DEF RefreshApply, RefreshFails, Idle, host, Types
  <2>2. bearer' # None => bearer' <= current'
    BY <1>1, <2>1 DEF Told, New
  <2>3. \A s \in Refreshes : refresh'[s].pc # "idle" => refresh'[s] = refresh[s]
    BY <2>1
  <2> QED BY <2>1, <2>2, <2>3, Distinct DEF Told, New
<1>9. CASE FetchResolves \/ Hide \/ Show \/ \E c \in Chains : PollFires(c)
  <2>1. UNCHANGED <<current, toRotate, bearer>>
    BY <1>9 DEF FetchResolves, Hide, Show, PollFires, host
  <2>2. \A s \in Refreshes : refresh'[s].pc = "answer" => refresh'[s] = refresh[s]
    BY <1>9 DEF FetchResolves, Hide, Show, PollFires, Run, Types, States
  <2>3. \A n \in 1 .. MaxRotations : refresh'[Event(n)] = refresh[Event(n)]
    BY <1>9, Distinct DEF FetchResolves, Hide, Show, PollFires, Run, Types
  <2> QED BY <1>2, <2>1, <2>2, <2>3
<1>10. CASE Tick
  BY <1>10 DEF Tick, Quiet, Told
<1>11. ASSUME NEW p \in Calls, Stall(p) PROVE Told'
  BY <1>2, <1>11 DEF Stall, host
<1> QED BY <1>3, <1>4, <1>5, <1>6, <1>7, <1>8, <1>9, <1>10, <1>11 DEF Next

\* The polls go on.
LEMMA PollsStep ==
    ASSUME Types, ChainInv, Alive, Next
    PROVE  ChainInv' /\ Alive'
<1>1. ASSUME UNCHANGED <<left, armed, polling, visible>>, \A r \in Rounds : refresh'[r].pc = refresh[r].pc
      PROVE  ChainInv' /\ Alive'
  BY <1>1, Distinct DEF ChainInv, Alive
<1>2. CASE Rotate \/ RotateFails
  BY <1>1, <1>2 DEF Rotate, RotateFails, poller
<1>3. ASSUME NEW n \in Tokens,
             PersistRead(n) \/ PersistWrite(n) \/ PersistFails(n) \/ Forward(n) \/ ForwardFails(n) \/ EmitFails(n)
      PROVE  ChainInv' /\ Alive'
  <2>1. UNCHANGED <<left, armed, polling, visible, refresh>>
    BY <1>3 DEF PersistRead, PersistWrite, PersistFails, Forward, ForwardFails, EmitFails, poller
  <2> QED BY <1>1, <2>1
<1>4. ASSUME NEW n \in Tokens, Emit(n) PROVE ChainInv' /\ Alive'
  <2>1. \A r \in Rounds : refresh'[r] = refresh[r]
    <3>1. Event(n) \notin Rounds
      BY DEF Rounds, Event, Boot, PollOf
    <3> QED BY <1>4, <3>1, Distinct DEF Emit, Types
  <2> QED BY <1>1, <1>4, <2>1 DEF Emit, poller
<1>5. ASSUME NEW r \in Refreshes, RefreshRead(r) PROVE ChainInv' /\ Alive'
  <2>1. \A s \in Refreshes : s # r => refresh'[s] = refresh[s]
    BY <1>5 DEF RefreshRead, Types
  <2>2. refresh[r].pc = "read" /\ refresh'[r].pc = "answer" /\ UNCHANGED <<left, armed, polling, visible>>
    BY <1>5 DEF RefreshRead, poller, Types
  <2>3. \A s \in Refreshes : refresh'[s].pc = "idle" <=> refresh[s].pc = "idle"
    BY <2>1, <2>2
  <2> QED BY <2>2, <2>3, Distinct DEF ChainInv, Alive
<1>6. ASSUME NEW r \in Refreshes, RefreshApply(r) \/ RefreshFails(r) PROVE ChainInv' /\ Alive'
  <2>1. refresh[r].pc # "idle" /\ Idle(r) /\ Then(r)
    BY <1>6 DEF RefreshApply, RefreshFails
  <2>2. /\ ChainInv'
        /\ r \notin Rounds => UNCHANGED <<left, armed, polling, visible>>
        /\ r \in Rounds => \E d \in 0 .. Poll + Patience : Due(d)'
    BY <2>1, AfterAwait
  <2>3. CASE r \in Rounds
    BY <2>2, <2>3 DEF Due, Alive
  <2>4. CASE r \notin Rounds
    <3>1. \A s \in Rounds : refresh'[s] = refresh[s]
      BY <2>1, <2>4, Distinct DEF Idle, Types
    <3> QED BY <1>1, <2>2, <2>4, <3>1
  <2> QED BY <2>2, <2>3, <2>4
<1>7. CASE FetchResolves
  <2>1. \A s \in Rounds : refresh'[s] = refresh[s]
    BY <1>7, Distinct DEF FetchResolves, Types
  <2> QED BY <1>1, <1>7, <2>1 DEF FetchResolves, poller
<1>8. CASE Hide
  BY <1>8 DEF Hide, ChainInv, Alive
<1>9. ASSUME NEW c \in Chains, left[c] = None \/ left'[c] = None, refresh[PollOf(c)].pc = "idle",
             refresh[Boot].pc = "idle", Run(c), UNCHANGED polling,
             \A e \in Chains : e # c => left'[e] = left[e], left'[c] = None
      PROVE  ChainInv' /\ Alive'
  <2>1. /\ refresh'[PollOf(c)].pc = "read" /\ PollOf(c) \in Rounds
        /\ \A s \in Refreshes : s # PollOf(c) => refresh'[s] = refresh[s]
    BY <1>9, Distinct DEF Run, Types, States
  <2>2. refresh'[Boot] = refresh[Boot] /\ \A e \in Chains : e # c => refresh'[PollOf(e)] = refresh[PollOf(e)]
    BY <2>1, Distinct
  <2>3. Alive'
    BY <2>1 DEF Alive
  <2> QED BY <1>9, <2>1, <2>2, <2>3 DEF ChainInv
<1>10. CASE Show
  <2>1. CASE (armed \/ ~ polling) /\ UNCHANGED refresh
    <3>1. visible' = TRUE /\ UNCHANGED <<left, armed, polling>>
      BY <1>10 DEF Show
    <3> QED BY <2>1, <3>1 DEF ChainInv, Alive
  <2>2. ASSUME polling, ~ armed, NEW c \in Chains, left[c] = None, refresh[PollOf(c)].pc = "idle", Run(c)
        PROVE  ChainInv' /\ Alive'
    <3>1. refresh[Boot].pc = "idle" /\ UNCHANGED <<left, polling>>
      BY <1>10, <2>2 DEF Show, ChainInv
    <3> QED BY <1>9, <2>2, <3>1
  <2> QED BY <1>10, <2>1, <2>2 DEF Show
<1>11. ASSUME NEW c \in Chains, PollFires(c) PROVE ChainInv' /\ Alive'
  <2>1. left[c] = 0 /\ left[c] # None
    BY <1>11, ScheduleAssumption DEF PollFires
  <2>2. refresh[PollOf(c)].pc = "idle" /\ refresh[Boot].pc = "idle"
    BY <2>1 DEF ChainInv
  <2>3. /\ left'[c] = None /\ \A e \in Chains : e # c => left'[e] = left[e]
        /\ Run(c) /\ UNCHANGED polling
    BY <1>11 DEF PollFires, Types
  <2> QED BY <1>9, <2>2, <2>3
<1>12. CASE Tick
  <2>1. \A c \in Chains : left'[c] = None <=> left[c] = None
    BY <1>12, ScheduleAssumption DEF Tick, Types
  <2> QED BY <1>12, <2>1 DEF Tick, ChainInv, Alive
<1>13. ASSUME NEW p \in Calls, Stall(p) PROVE ChainInv' /\ Alive'
  BY <1>1, <1>13 DEF Stall, poller
<1> QED BY <1>2, <1>3, <1>4, <1>5, <1>6, <1>7, <1>8, <1>10, <1>11, <1>12, <1>13 DEF Next

\* Only a fault disturbs, and the count starts over with it.
LEMMA SignsStep ==
    ASSUME Types, Signs, Next
    PROVE  Signs'
<1>1. CASE UNCHANGED <<disturbed, refused>> /\ faults' \in {faults, faults + 1}
  BY <1>1 DEF Types, Signs
<1>2. CASE Tick
  BY <1>2 DEF Tick, Signs
<1>3. CASE Disturb
  BY <1>3 DEF Disturb, Fault, Types, Signs
<1>4. ASSUME NEW n \in Tokens, Forward(n) PROVE Signs'
  BY <1>4 DEF Forward, Signs
<1>5. ASSUME NEW n \in Tokens,
             PersistRead(n) \/ PersistWrite(n) \/ PersistFails(n) \/ Emit(n) \/ EmitFails(n)
      PROVE  Signs'
  BY <1>1, <1>5 DEF PersistRead, PersistWrite, PersistFails, Emit, EmitFails, Fault, history
<1>6. ASSUME NEW r \in Refreshes, RefreshRead(r) \/ RefreshApply(r) \/ RefreshFails(r) PROVE Signs'
  BY <1>1, <1>6 DEF RefreshRead, RefreshApply, RefreshFails, Fault, history
<1>7. CASE Rotate \/ RotateFails \/ FetchResolves \/ Hide \/ Show \/ \E c \in Chains : PollFires(c)
  BY <1>1, <1>7 DEF Rotate, RotateFails, Fault, FetchResolves, Hide, Show, PollFires, history
<1> QED BY <1>2, <1>3, <1>4, <1>5, <1>6, <1>7 DEF Next, ForwardFails, Stall

LEMMA BaseStep ==
    ASSUME Base, [Next]_vars
    PROVE  Base'
<1>1. CASE Next
  <2>1. Types /\ Begun /\ CallInv /\ Told /\ ChainInv /\ Alive /\ Signs /\ task[0] # "forward"
    BY DEF Base, Begun
  <2> QED BY <1>1, <2>1, TypesStep, BegunStep, CallStep, ToldStep, PollsStep, SignsStep DEF Base
<1>2. CASE UNCHANGED vars
  BY <1>2 DEF vars, host, poller, history, Base, Types, Begun, CallInv, OnKeychain, Told, New, ChainInv,
              Alive, Signs
<1> QED BY <1>1, <1>2

\* A hand-over in order has host and sidecar in step again.
LEMMA MendStep ==
    ASSUME Base, disturbed, NEW n \in Tokens, Forward(n), InOrder(n)
    PROVE  RotationInv'
<1>1. Types /\ Begun /\ CallInv /\ Told /\ ChainInv /\ Alive /\ Signs
  BY DEF Base
<1>2. Base'
  BY BaseStep DEF Next
<1>3. /\ task[n] = "forward" /\ task' = [task EXCEPT ![n] = "emit"] /\ sidecar' = SetPair(n)
      /\ UNCHANGED <<current, toRotate, vault, bearer, refresh, age, left, armed, polling, visible, flips,
                     faults, refused, overtaken>>
  BY DEF Forward, Step, poller
<1>4. /\ n = current /\ Elapsed \in Nat /\ Elapsed <= 2 * Patience
      /\ \A m \in Tokens \ {n} : task[m] \in {"none", "done"}
      /\ \A p \in Calls : age[p] \in 0 .. Patience
  BY <1>1, Lengths DEF InOrder, Elapsed, Types, Stuck
<1>5. n \in Nat /\ n > 0 /\ faults \in Nat /\ faults > 0 /\ refused = 0
  BY <1>1, <1>3 DEF Begun, Signs, Types, Tokens
<1>6. /\ sidecar'.current = n /\ sidecar'.previous = n - 1 /\ sidecar'.age = 0
      /\ task'[n] = "emit" /\ \A m \in Tokens : m # n => task'[m] = task[m]
      /\ ~ Saving' /\ Elapsed' = Elapsed
  BY <1>1, <1>3, <1>4 DEF SetPair, Types, Saving, Elapsed
<1>7. TypeInv'
  <2>1. age' \in [Calls -> 0 .. Patience]
    BY <1>1, <1>3, <1>4 DEF Types
  <2> QED BY <1>2, <2>1 DEF Base, TypeInv
<1>8. TaskInv'
  <2>1. \A m \in Tokens : (m > n => task[m] = "none") /\ (m < n => task[m] = "done")
    BY <1>1, <1>4, <1>5 DEF Begun, Tokens
  <2> QED BY <1>3, <1>4, <1>5, <1>6, <2>1 DEF TaskInv, Tokens
<1>9. PairInv'
  BY <1>3, <1>4, <1>5, <1>6, Lengths DEF PairInv
<1>10. AnswerInv'
  <2>1. ASSUME NEW r \in Refreshes, refresh'[r].pc = "answer"
        PROVE  (refresh[r].got \in Tokens /\ Recent(refresh[r].got))'
    BY <1>1, <1>3, <1>6, <2>1 DEF Told, New, Recent
  <2> QED BY <1>1, <1>3, <1>4, <1>6, <2>1 DEF Told, AnswerInv
<1>11. FreshInv'
  BY <1>3, <1>5 DEF FreshInv
<1>12. Budget' \in Int /\ Budget' >= 2 * (Poll + Patience)
  <2>1. \A f, k \in Nat : f > 0 => (f + 1) * k \in Int /\ (f + 1) * k >= 2 * k
    OBVIOUS
  <2> DEFINE k == Poll + Patience
  <2>2. k \in Nat
    BY Lengths
  <2>3. Budget' = (faults + 1) * k
    BY <1>3 DEF Budget
  <2> HIDE DEF k
  <2>4. Budget' \in Int /\ Budget' >= 2 * k
    BY <1>5, <2>1, <2>2, <2>3
  <2> QED BY <2>4 DEF k
<1>13. Grace' \in {Overlap, 0}
  <2>1. bearer # None => bearer \in Nat
    BY <1>1 DEF Types, Marks, Tokens
  <2>2. n \in Int /\ bearer' = bearer /\ refused' = 0 /\ Overlap > 0
    BY <1>3, <1>5, Lengths
  <2>3. CASE bearer = None \/ bearer >= n
    BY <1>6, <2>2, <2>3 DEF Grace
  <2>4. CASE bearer # None /\ ~ (bearer >= n)
    <3>1. Grace' = Overlap - 0 \/ Grace' = - 0
      BY <1>6, <2>2, <2>4 DEF Grace
    <3> QED BY <3>1, Lengths
  <2> QED BY <2>3, <2>4
<1>14. \E d \in 0 .. Poll + Patience : Due(d)'
  <2>1. CASE \E c \in Chains : left[c] # None
    <3>1. PICK c \in Chains : left[c] # None
      BY <2>1
    <3>2. left[c] + Patience \in 0 .. Poll + Patience
      BY <1>1, <3>1, Lengths DEF Types
    <3> QED BY <1>3, <3>1, <3>2 DEF Due
  <2>2. CASE \E r \in Rounds : refresh[r].pc # "idle"
    <3>1. PICK r \in Rounds : refresh[r].pc # "idle"
      BY <2>2
    <3>2. refresh[r].pc \in {"read", "answer"} /\ age[r] \in 0 .. Patience
      BY <1>1, <1>4, <3>1, Distinct DEF Types, States
    <3>3. Patience - age[r] \in 0 .. Poll + Patience /\ 0 \in 0 .. Poll + Patience
      BY <3>2, Lengths
    <3> QED BY <1>3, <3>1, <3>2, <3>3 DEF Due
  <2>3. CASE ~ visible /\ polling /\ ~ armed
    BY <1>3, <2>3, Lengths DEF Due
  <2> QED BY <1>1, <2>1, <2>2, <2>3 DEF Alive
<1>15. PollInv'
  <2>1. PICK d \in 0 .. Poll + Patience : Due(d)'
    BY <1>14
  <2>2. \A b \in Int, g \in {Overlap, 0} : b >= 2 * (Poll + Patience) => d + Overlap <= b + g
    BY Lengths
  <2> QED BY <1>12, <1>13, <2>1, <2>2 DEF PollInv
<1>16. SavingInv'
  <2>1. \A b \in Int : b >= 2 * (Poll + Patience) => 0 + Overlap <= b + 0
    BY Lengths
  <2>2. AtMost(0)'
    BY <1>3, <1>5, <1>12, <2>1 DEF AtMost
  <2> QED BY <2>2 DEF SavingInv
<1>17. CallInv' /\ ChainInv'
  BY <1>2 DEF Base
<1> QED BY <1>7, <1>8, <1>9, <1>10, <1>11, <1>15, <1>16, <1>17 DEF RotationInv

------------------------------------------------------------------------------
(* The invariant, and what follows.                                           *)

LEMMA StepKeeps == StepInv /\ [Next]_vars => StepInv'
<1> SUFFICES ASSUME StepInv, [Next]_vars PROVE disturbed' \/ RotationInv'
  BY BaseStep DEF StepInv
<1>1. CASE disturbed
  <2>1. disturbed' \/ \E n \in Tokens : Forward(n) /\ InOrder(n)
    <3>1. CASE UNCHANGED disturbed
      BY <1>1, <3>1
    <3>2. ASSUME NEW n \in Tokens, Forward(n) PROVE disturbed' \/ (Forward(n) /\ InOrder(n))
      BY <1>1, <3>2 DEF Forward
    <3>3. CASE Disturb
      BY <3>3 DEF Disturb
    <3> QED BY <3>1, <3>2, <3>3
            DEF Next, vars, history, Rotate, RotateFails, Tick, Hide, Show, FetchResolves, PersistRead,
                PersistWrite, PersistFails, ForwardFails, Emit, EmitFails, RefreshRead, RefreshApply,
                RefreshFails, PollFires, Stall
  <2> QED BY <1>1, <2>1, MendStep DEF StepInv
<1>2. CASE ~ disturbed
  <2>1. CASE Calm \/ UNCHANGED vars
    BY <1>2, <2>1, RotationStep DEF StepInv
  <2>2. CASE Disturb
    BY <2>2 DEF Disturb
  <2> QED BY <2>1, <2>2 DEF Next, Calm, ForwardFails, Stall
<1> QED BY <1>1, <1>2

LEMMA StepAlways == Spec => []StepInv
<1>1. Init => StepInv
  BY BaseInit, RotationInit DEF StepInv
<1> QED BY <1>1, StepKeeps, PTL DEF Spec

\* SettlesOnCurrent: tasks that fail or overtake one another leave the sidecar
\* behind until the next hand-over in order; from then on, when all tasks have
\* ended, it has both tokens of the host, and the vault has the newest unless a
\* save failed.
THEOREM HostAndSidecarAgree == Spec => []SettlesOnCurrent
<1>1. StepInv => SettlesOnCurrent
  <2>1. ASSUME StepInv, disturbed PROVE SettlesOnCurrent
    BY <2>1 DEF StepInv, Base, Signs, SettlesOnCurrent, SidecarSettles, VaultSettles
  <2>2. ASSUME RotationInv, NoTaskPending
        PROVE  /\ sidecar.current = current /\ (vault = current \/ faults > 0)
               /\ sidecar.previous = IF current = 0 THEN None ELSE current - 1
    <3>1. task[current] = "done"
      BY <2>2 DEF NoTaskPending, RotationInv, TypeInv, Types, TaskInv
    <3>2. vault = current \/ faults > 0
      BY <2>2, <3>1 DEF RotationInv, TaskInv
    <3>3. ~ Saving
      BY <3>1 DEF Saving
    <3> QED BY <2>2, <3>2, <3>3 DEF RotationInv, PairInv
  <2> QED BY <2>1, <2>2 DEF StepInv, SettlesOnCurrent, SidecarSettles, VaultSettles
<1> QED BY <1>1, StepAlways, PTL

\* BearerAccepted: while nothing has failed, the event's refresh brings the new
\* token before the overlap of the old one is over.
THEOREM RotationIsNotFelt == Spec => []BearerAccepted
<1>1. StepInv /\ disturbed => BearerAccepted
  BY DEF StepInv, Base, Signs, BearerAccepted
<1>2. RotationInv => BearerAccepted
  <2> SUFFICES ASSUME RotationInv, Refused, faults = 0, ~ overtaken
               PROVE  bearer > sidecar.current
    BY DEF BearerAccepted, RotationInv, TypeInv, Types
  <2> DEFINE n == sidecar.current
  <2>1. /\ bearer # None /\ bearer # n /\ ~ (bearer = sidecar.previous /\ sidecar.age < Overlap)
        /\ bearer \in Nat /\ n \in Nat
    BY DEF Refused, Accepts, RotationInv, TypeInv, Types, Marks, Tokens
  <2>2. CASE n = 0
    BY <2>1, <2>2
  <2>3. CASE n > 0 /\ EventPending(n) /\ bearer >= n - 1
    <3>1. n \in 1 .. MaxRotations
      BY <2>3, Lengths DEF RotationInv, TypeInv, Types, Tokens
    <3>2. sidecar.age < Overlap
      <4>1. age[Event(n)] \in 0 .. Patience /\ sidecar.age \in Nat
        BY <3>1, Distinct, Lengths DEF RotationInv, TypeInv, Types
      <4> QED BY <2>3, <4>1, Lengths DEF EventPending
    <3>3. bearer # n - 1
      BY <2>1, <2>3, <3>2 DEF RotationInv, PairInv
    <3> QED BY <2>1, <2>3, <3>3
  <2>4. CASE n > 0 /\ bearer >= n
    BY <2>1, <2>4
  <2>5. n > 0 => (EventPending(n) /\ bearer >= n - 1) \/ bearer >= n
    BY <2>1 DEF RotationInv, FreshInv
  <2> QED BY <2>1, <2>2, <2>3, <2>4, <2>5
<1>3. StepInv => BearerAccepted
  BY <1>1, <1>2 DEF StepInv
<1> QED BY <1>3, StepAlways, PTL

\* RefusedAtMost: a poll period, one more for each failure, and the time a token
\* the page has already takes to be saved.
THEOREM PollsMakeGood == Spec => []RefusedAtMost
<1>1. RotationInv => refused \in Int /\ Budget \in Int
  <2>1. \A a, b \in Int : (a + 1) * b \in Int
    OBVIOUS
  <2> QED BY <2>1, Lengths DEF RotationInv, TypeInv, Types, Budget
<1>2. RotationInv => RefusedAtMost
  <2> SUFFICES ASSUME RotationInv PROVE RefusedAtMost
    OBVIOUS
  <2>1. Saving => Elapsed \in Int /\ Elapsed <= 2 * Patience
    <3>1. current \in Tokens /\ age[Save(current)] \in 0 .. Patience /\ Elapsed \in Int
      BY Distinct, Lengths DEF RotationInv, TypeInv, Types, Elapsed
    <3> QED BY <3>1, Lengths DEF RotationInv, TaskInv, Saving
  <2>2. \E x \in Int : x <= 2 * Patience /\ AtMost(x)
    <3>1. 0 <= 2 * Patience /\ 2 * Patience \in Int /\ 2 * Patience <= 2 * Patience
      BY Lengths
    <3> QED BY <2>1, <3>1 DEF RotationInv, SavingInv
  <2>3. \A b, x \in Int : refused + Overlap <= b + x /\ x <= 2 * Patience
                             => refused <= b - Overlap + 2 * Patience
    BY <1>1, Lengths
  <2>4. refused <= Budget - Overlap + 2 * Patience
    BY <1>1, <2>2, <2>3 DEF AtMost
  <2> QED BY <2>4 DEF RefusedAtMost, Budget
<1>3. StepInv /\ disturbed => RefusedAtMost
  <2> SUFFICES ASSUME StepInv, disturbed PROVE RefusedAtMost
    OBVIOUS
  <2>1. faults \in Nat /\ refused = 0
    BY DEF StepInv, Base, Types, Signs
  <2>2. \A f, k \in Nat : (f + 1) * k \in Int /\ (f + 1) * k >= k
    OBVIOUS
  <2>3. (faults + 1) * (Poll + Patience) \in Int /\ (faults + 1) * (Poll + Patience) >= Poll + Patience
    BY <2>1, <2>2, Lengths
  <2> QED BY <2>1, <2>3, Lengths DEF RefusedAtMost
<1>4. StepInv => RefusedAtMost
  BY <1>2, <1>3 DEF StepInv
<1> QED BY <1>4, StepAlways, PTL

==============================================================================
