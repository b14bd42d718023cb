----------------------------- MODULE RelayProofs -----------------------------
(***************************************************************************)
(* Proofs about the tasks of the relay: the workers of the job queue       *)
(* (JobQueue), for every number of workers, jobs and faults, and the AIS   *)
(* feed (AisStream), for all vessels, capacities, lives and graces.        *)
(*                                                                         *)
(* Both results about the queue look at one sequence, the line: the jobs   *)
(* under way followed by those that wait.  Claims and requeues move the    *)
(* border between the two lists and leave the line alone; only a push and  *)
(* an LREM change it (LineStep).  The queue is in order since the line is, *)
(* and a job leaves it only by the LREM of a worker that discards or       *)
(* acknowledges it.                                                        *)
(*                                                                         *)
(* About the feed, what was passed on last of a vessel is followed to its  *)
(* newest place in the channel, or in the table once the channel has       *)
(* nothing of it (Arrives); and the age of a fix and the time left to the  *)
(* next prune, or to the end of the shutdown, are bounded by their sum     *)
(* (AgesBounded).                                                          *)
(***************************************************************************)
EXTENDS JobQueue, AisStream, SequenceTheorems, WellFoundedInduction, TLAPS

Line == processing \o queue

Statuses == {"none", "processing", "done", "failed"}
Busy == {"discard", "check", "claim", "compute", "done", "failed", "ack"}

TypeInv ==
    /\ sent \in 0..NJobs
    /\ queue \in Seq(Jobs) /\ processing \in Seq(Jobs)
    /\ row \in [Jobs -> Statuses]
    /\ pc \in [Workers -> Busy \cup {"down", "drain", "poll", "exited"}]
    /\ job \in [Workers -> Jobs \cup {NoJob}]
    /\ faults \in Nat
    /\ written \subseteq Jobs /\ failing \subseteq Jobs
    /\ \A w \in Workers : pc[w] \in Busy => job[w] \in Jobs

\* No job of the line is to be pushed yet.
LineSent == \A j \in ToSet(Line) : j <= sent

LineInv == TypeInv /\ InOrder /\ LineSent

\* What a worker is about to drop is malformed, written or failed.
Accounted ==
    /\ \A j \in Jobs : row[j] # "none" => j \in written
    /\ \A w \in Workers :
          /\ pc[w] = "discard" => job[w] \in Malformed
          /\ pc[w] = "failed" => job[w] \in failing
          /\ pc[w] = "ack" => job[w] \in written \cup failing

DropInv == LineInv /\ Accounted /\ NoSilentDrop

------------------------------------------------------------------------------
(* Sequences.                                                                *)

\* A set of naturals that has a member has a least one.
LEMMA MinExists ==
    ASSUME NEW T, T \subseteq Nat, T # {}
    PROVE  Min(T) \in T /\ \A y \in T : Min(T) <= y
<1> DEFINE less == {p \in Nat \X Nat : p[1] < p[2]}
<1>1. IsWellFoundedOn(less, Nat)
  BY NatLessThanWellFounded DEF OpToRel
<1>2. PICK x \in T : \A y \in T : <<y, x>> \notin less
  BY <1>1, WFMin
<1>3. ASSUME NEW y \in T PROVE x <= y
  <2>1. x \in Nat /\ y \in Nat /\ <<y, x>> \in Nat \X Nat
    OBVIOUS
  <2>2. ~ (y < x)
    BY <1>2, <2>1
  <2> QED BY <2>1, <2>2
<1> QED BY <1>2, <1>3 DEF Min

\* RemoveAt takes out one place and moves the places behind it up.
LEMMA RemoveAtPlaces ==
    ASSUME NEW S, NEW s \in Seq(S), NEW i \in 1..Len(s)
    PROVE  /\ RemoveAt(s, i) \in Seq(S)
           /\ Len(RemoveAt(s, i)) = Len(s) - 1
           /\ \A k \in 1..Len(s) - 1 :
                 RemoveAt(s, i)[k] = IF k < i THEN s[k] ELSE s[k + 1]
<1> DEFINE a == SubSeq(s, 1, i - 1)
           b == SubSeq(s, i + 1, Len(s))
<1>1. \A k \in 1..Len(s) : s[k] \in S
  OBVIOUS
<1>2. a \in Seq(S) /\ Len(a) = i - 1 /\ \A k \in 1..i - 1 : a[k] = s[k]
  BY <1>1, SubSeqProperties
<1>3. b \in Seq(S) /\ Len(b) = Len(s) - i /\ \A k \in 1..Len(s) - i : b[k] = s[i + k]
  BY <1>1, SubSeqProperties
<1> HIDE DEF a, b
<1>4. /\ a \o b \in Seq(S) /\ Len(a \o b) = Len(s) - 1
      /\ \A k \in 1..Len(s) - 1 : (a \o b)[k] = IF k <= i - 1 THEN a[k] ELSE b[k - (i - 1)]
  <2>1. /\ a \o b \in Seq(S) /\ Len(a \o b) = Len(a) + Len(b)
        /\ \A k \in 1..Len(a) + Len(b) :
              (a \o b)[k] = IF k <= Len(a) THEN a[k] ELSE b[k - Len(a)]
    BY <1>2, <1>3, ConcatProperties
  <2>2. Len(a) + Len(b) = Len(s) - 1
    BY <1>2, <1>3, LenProperties
  <2> QED BY <1>2, <2>1, <2>2
<1>5. ASSUME NEW k \in 1..Len(s) - 1
      PROVE  (a \o b)[k] = IF k < i THEN s[k] ELSE s[k + 1]
  <2>1. CASE k < i
    BY <1>2, <1>4, <2>1
  <2>2. CASE ~(k < i)
    <3>1. k - (i - 1) \in 1..Len(s) - i /\ i + (k - (i - 1)) = k + 1
      BY <2>2
    <3> QED BY <1>3, <1>4, <2>2, <3>1
  <2> QED BY <2>1, <2>2
<1> QED BY <1>4, <1>5 DEF RemoveAt, a, b

\* LREM 1 of an element that is there takes out one of its places.
LEMMA RemoveFirstPlace ==
    ASSUME NEW S, NEW s \in Seq(S), NEW e
    PROVE  \/ RemoveFirst(s, e) = s
           \/ \E i \in 1..Len(s) : s[i] = e /\ RemoveFirst(s, e) = RemoveAt(s, i)
<1>1. CASE ~ \E i \in 1..Len(s) : s[i] = e
  BY <1>1 DEF RemoveFirst
<1>2. CASE \E i \in 1..Len(s) : s[i] = e
  <2> DEFINE T == {i \in 1..Len(s) : s[i] = e}
  <2>1. T \subseteq Nat /\ T # {}
    BY <1>2
  <2>2. Min(T) \in T
    BY <2>1, MinExists
  <2>3. RemoveFirst(s, e) = RemoveAt(s, Min(T))
    BY <1>2, <2>1 DEF RemoveFirst, SelectInSeq
  <2> QED BY <2>2, <2>3
<1> QED BY <1>1, <1>2

\* The place of a joint sequence that lies in its first half can be taken out
\* there.
LEMMA RemoveFromFirst ==
    ASSUME NEW S, NEW s \in Seq(S), NEW t \in Seq(S), NEW i \in 1..Len(s)
    PROVE  RemoveAt(s, i) \o t = RemoveAt(s \o t, i)
<1> DEFINE a == RemoveAt(s, i)
           l == RemoveAt(s \o t, i)
<1>1. /\ a \in Seq(S) /\ Len(a) = Len(s) - 1
      /\ \A k \in 1..Len(s) - 1 : a[k] = IF k < i THEN s[k] ELSE s[k + 1]
  BY RemoveAtPlaces
<1>2. /\ s \o t \in Seq(S) /\ Len(s \o t) = Len(s) + Len(t)
      /\ \A k \in 1..Len(s) + Len(t) :
            (s \o t)[k] = IF k <= Len(s) THEN s[k] ELSE t[k - Len(s)]
  BY ConcatProperties
<1>3. /\ Len(s) \in Nat /\ Len(t) \in Nat
      /\ i \in 1..Len(s \o t)
  BY <1>2, LenProperties
<1>4. /\ l \in Seq(S) /\ Len(l) = Len(s \o t) - 1
      /\ \A k \in 1..Len(s \o t) - 1 :
            l[k] = IF k < i THEN (s \o t)[k] ELSE (s \o t)[k + 1]
  BY <1>2, <1>3, RemoveAtPlaces
<1> HIDE DEF a, l
<1>5. /\ a \o t \in Seq(S) /\ Len(a \o t) = Len(a) + Len(t)
      /\ \A k \in 1..Len(a) + Len(t) :
            (a \o t)[k] = IF k <= Len(a) THEN a[k] ELSE t[k - Len(a)]
  BY <1>1, ConcatProperties
<1>6. ASSUME NEW k \in 1..Len(a \o t) PROVE (a \o t)[k] = l[k]
  <2>1. CASE k <= Len(s) - 1
    BY <1>1, <1>2, <1>3, <1>4, <1>5, <2>1
  <2>2. CASE ~(k <= Len(s) - 1)
    <3>1. k + 1 - Len(s) = k - Len(a) /\ ~(k + 1 <= Len(s))
      BY <1>1, <1>3, <2>2
    <3> QED BY <1>1, <1>2, <1>3, <1>4, <1>5, <2>2, <3>1
  <2> QED BY <2>1, <2>2
<1>7. Len(a \o t) = Len(l)
  BY <1>1, <1>2, <1>3, <1>4, <1>5
<1> QED BY <1>4, <1>5, <1>6, <1>7, SeqEqual DEF a, l

\* What RemoveAt leaves of an increasing sequence increases, and only the
\* element at that place is lost.
LEMMA RemoveAtKeeps ==
    ASSUME NEW S, S \subseteq Int, NEW s \in Seq(S), Increasing(s), NEW i \in 1..Len(s)
    PROVE  /\ Increasing(RemoveAt(s, i))
           /\ ToSet(s) \ {s[i]} \subseteq ToSet(RemoveAt(s, i))
           /\ ToSet(RemoveAt(s, i)) \subseteq ToSet(s)
<1> DEFINE r == RemoveAt(s, i)
<1>1. /\ r \in Seq(S) /\ Len(r) = Len(s) - 1
      /\ \A k \in 1..Len(s) - 1 : r[k] = IF k < i THEN s[k] ELSE s[k + 1]
  BY RemoveAtPlaces
<1> HIDE DEF r
<1>2. DOMAIN r = 1..Len(s) - 1 /\ DOMAIN s = 1..Len(s) /\ Len(s) \in Nat
  BY <1>1
<1>3. Increasing(r)
  <2> SUFFICES ASSUME NEW j \in 1..Len(s) - 1, NEW k \in 1..Len(s) - 1, j < k
               PROVE  r[j] < r[k]
    BY <1>2 DEF Increasing
  <2> DEFINE old(x) == IF x < i THEN x ELSE x + 1
  <2>1. r[j] = s[old(j)] /\ r[k] = s[old(k)]
    BY <1>1
  <2>2. old(j) \in 1..Len(s) /\ old(k) \in 1..Len(s) /\ old(j) < old(k)
    BY <1>2
  <2> QED BY <1>2, <2>1, <2>2 DEF Increasing
<1>4. ASSUME NEW j \in 1..Len(s), j # i PROVE s[j] \in ToSet(r)
  <2>1. CASE j < i
    <3>1. j \in 1..Len(s) - 1 /\ r[j] = s[j]
      BY <1>1, <2>1
    <3> QED BY <1>2, <3>1 DEF ToSet
  <2>2. CASE j > i
    <3>1. j - 1 \in 1..Len(s) - 1 /\ r[j - 1] = s[j]
      BY <1>1, <2>2
    <3> QED BY <1>2, <3>1 DEF ToSet
  <2> QED BY <1>4, <2>1, <2>2
<1>5. ToSet(r) \subseteq ToSet(s)
  BY <1>1, <1>2 DEF ToSet
<1> QED BY <1>2, <1>3, <1>4, <1>5 DEF r, ToSet

------------------------------------------------------------------------------
(* The line.                                                                 *)

\* LMOVE RIGHT LEFT takes the border back by one place.
LEMMA RequeueKeepsLine ==
    ASSUME TypeInv, processing # <<>>, Requeued
    PROVE  queue' \in Seq(Jobs) /\ processing' \in Seq(Jobs) /\ Line' = Line
<1> DEFINE last == Last(processing)
           front == Front(processing)
<1>1. processing \in Seq(Jobs) /\ queue \in Seq(Jobs) /\ Len(processing) \in Nat \ {0}
  BY EmptySeq DEF TypeInv
<1>2. last \in Jobs /\ <<last>> \in Seq(Jobs)
  BY <1>1, ElementOfSeq DEF Last
<1>3. front \in Seq(Jobs) /\ processing = front \o <<last>>
  <2>1. processing = SubSeq(processing, 1, Len(processing))
    BY <1>1, SubSeqFull
  <2>2. SubSeq(processing, 1, Len(processing))
           = SubSeq(processing, 1, Len(processing) - 1) \o <<processing[Len(processing)]>>
    BY <1>1, SubSeqRecursiveSecond
  <2>3. SubSeq(processing, 1, Len(processing) - 1) \in Seq(Jobs)
    BY <1>1, SubSeqProperties
  <2> QED BY <2>1, <2>2, <2>3 DEF Front, Last
<1>4. queue' = <<last>> \o queue /\ processing' = front
  BY DEF Requeued
<1> HIDE DEF last, front
<1>5. front \o (<<last>> \o queue) = (front \o <<last>>) \o queue
  BY <1>1, <1>2, <1>3, ConcatAssociative
<1>6. <<last>> \o queue \in Seq(Jobs)
  BY <1>1, <1>2, ConcatProperties
<1> QED BY <1>3, <1>4, <1>5, <1>6 DEF Line

\* BLMOVE LEFT RIGHT takes it one place on.
LEMMA ClaimKeepsLine ==
    ASSUME TypeInv, queue # <<>>, Claimed
    PROVE  /\ queue' \in Seq(Jobs) /\ processing' \in Seq(Jobs) /\ Line' = Line
           /\ Head(queue) \in Jobs
<1> DEFINE head == Head(queue)
           tail == Tail(queue)
<1>1. processing \in Seq(Jobs) /\ queue \in Seq(Jobs) /\ Len(queue) \in Nat \ {0}
  BY EmptySeq DEF TypeInv
<1>2. head \in Jobs /\ tail \in Seq(Jobs) /\ <<head>> \in Seq(Jobs)
  BY <1>1, HeadTailProperties
<1>3. queue = <<head>> \o tail
  BY <1>1
<1>4. queue' = tail /\ processing' = Append(processing, head)
  BY DEF Claimed
<1> HIDE DEF head, tail
<1>5. /\ Append(processing, head) = processing \o <<head>>
      /\ Append(processing, head) \in Seq(Jobs)
  BY <1>1, <1>2, AppendIsConcat, AppendProperties
<1>6. (processing \o <<head>>) \o tail = processing \o (<<head>> \o tail)
  BY <1>1, <1>2, ConcatAssociative
<1>7. processing' \o queue' = processing \o queue
  BY <1>3, <1>4, <1>5, <1>6
<1> QED BY <1>2, <1>4, <1>5, <1>7 DEF Line, head

\* LREM leaves the line or takes the job out of it.
LEMMA RemovedLeavesLine ==
    ASSUME TypeInv, NEW w \in Workers, Removed(w), UNCHANGED queue
    PROVE  /\ processing' \in Seq(Jobs)
           /\ \/ Line' = Line
              \/ \E i \in 1..Len(Line) : Line[i] = job[w] /\ Line' = RemoveAt(Line, i)
<1>1. processing \in Seq(Jobs) /\ queue \in Seq(Jobs)
  BY DEF TypeInv
<1>2. CASE processing' = processing
  BY <1>1, <1>2 DEF Line
<1>3. ASSUME NEW i \in 1..Len(processing), processing[i] = job[w],
             processing' = RemoveAt(processing, i)
      PROVE  /\ processing' \in Seq(Jobs) /\ i \in 1..Len(Line)
             /\ Line[i] = job[w] /\ Line' = RemoveAt(Line, i)
  <2>1. /\ Len(Line) = Len(processing) + Len(queue)
        /\ \A k \in 1..Len(processing) + Len(queue) :
              Line[k] = IF k <= Len(processing) THEN processing[k]
                        ELSE queue[k - Len(processing)]
    BY <1>1, ConcatProperties DEF Line
  <2>2. Len(queue) \in Nat /\ Len(processing) \in Nat
    BY <1>1, LenProperties
  <2>3. RemoveAt(processing, i) \o queue = RemoveAt(processing \o queue, i)
    BY <1>1, RemoveFromFirst
  <2>4. RemoveAt(processing, i) \in Seq(Jobs)
    BY <1>1, RemoveAtPlaces
  <2> QED BY <1>3, <2>1, <2>2, <2>3, <2>4 DEF Line
<1>4. \/ processing' = processing
      \/ \E i \in 1..Len(processing) :
            processing[i] = job[w] /\ processing' = RemoveAt(processing, i)
  BY <1>1, RemoveFirstPlace DEF Removed
<1> QED BY <1>2, <1>3, <1>4

\* A push appends the next job to the line.
LEMMA EnqueueAppends ==
    ASSUME TypeInv, Enqueue
    PROVE  queue' \in Seq(Jobs) /\ sent' \in Jobs /\ Line' = Append(Line, sent')
<1>1. processing \in Seq(Jobs) /\ queue \in Seq(Jobs) /\ sent' \in Jobs
  BY JobsAssumption DEF TypeInv, Enqueue, Jobs
<1>2. queue' = queue \o <<sent'>> /\ queue' \in Seq(Jobs)
  BY <1>1, AppendIsConcat, AppendProperties DEF Enqueue
<1>3. <<sent'>> \in Seq(Jobs) /\ processing \o queue \in Seq(Jobs)
  BY <1>1, ConcatProperties
<1>4. processing \o (queue \o <<sent'>>) = (processing \o queue) \o <<sent'>>
  BY <1>1, <1>3, ConcatAssociative
<1>5. Append(processing \o queue, sent') = (processing \o queue) \o <<sent'>>
  BY <1>1, <1>3, AppendIsConcat
<1> QED BY <1>1, <1>2, <1>4, <1>5 DEF Line, Enqueue

LineKept == sent' = sent /\ Line' = Line
LineShrinks ==
    /\ sent' = sent
    /\ \E w \in Workers :
          /\ pc[w] \in {"discard", "ack"}
          /\ \E i \in 1..Len(Line) : Line[i] = job[w] /\ Line' = RemoveAt(Line, i)
LineGrows == sent' = sent + 1 /\ sent' \in Jobs /\ Line' = Append(Line, sent')
LineMoves == LineKept \/ LineShrinks \/ LineGrows

\* The steps of one worker that leave both lists alone.
Still(w) ==
    \/ Start(w) \/ Drained(w) \/ CheckRow(w) \/ CheckError(w) \/ MarkProcessing(w)
    \/ MarkError(w) \/ Compute(w) \/ ComputeError(w) \/ WriteDone(w) \/ DoneError(w)
    \/ WriteFailed(w) \/ FailedError(w) \/ Die(w)

\* The steps of one worker that move or remove a job.
Moves(w) == Requeue(w) \/ DrainError(w) \/ Poll(w) \/ PollError(w) \/ Discard(w) \/ Acknowledge(w)

\* Every step is one of these.
LEMMA StepSplits ==
    [Next]_vars => \/ \E w \in Workers : Still(w) \/ Moves(w)
                   \/ Enqueue \/ (\E j \in Jobs : Expire(j)) \/ UNCHANGED vars
BY DEF Next, Still, Moves, Drain, PollOnce

\* A worker that leaves the lists alone keeps the types.
LEMMA StillTypes ==
    ASSUME TypeInv, NEW w \in Workers, Still(w)
    PROVE  TypeInv' /\ LineKept
<1> USE DEF TypeInv, LineKept, Line, lists, history, Goto, Put, Fault, SetRow, Busy, Statuses
<1>1. CASE Start(w)
  BY <1>1 DEF Start
<1>2. CASE Drained(w)
  BY <1>2 DEF Drained
<1>3. CASE CheckRow(w)
  BY <1>3 DEF CheckRow
<1>4. CASE CheckError(w)
  BY <1>4 DEF CheckError
<1>5. CASE MarkProcessing(w)
  BY <1>5 DEF MarkProcessing
<1>6. CASE MarkError(w)
  BY <1>6 DEF MarkError
<1>7. CASE Compute(w)
  BY <1>7 DEF Compute
<1>8. CASE ComputeError(w)
  BY <1>8 DEF ComputeError
<1>9. CASE WriteDone(w)
  BY <1>9 DEF WriteDone
<1>10. CASE DoneError(w)
  BY <1>10 DEF DoneError, MaybeSetRow
<1>11. CASE WriteFailed(w)
  BY <1>11 DEF WriteFailed
<1>12. CASE FailedError(w)
  BY <1>12 DEF FailedError
<1>13. CASE Die(w)
  BY <1>13 DEF Die
<1> QED BY <1>1, <1>2, <1>3, <1>4, <1>5, <1>6, <1>7, <1>8, <1>9, <1>10, <1>11, <1>12, <1>13 DEF Still

\* A worker that moves or removes a job keeps the types, and moves the line as
\* LMOVE and LREM do.
LEMMA MoveTypes ==
    ASSUME TypeInv, NEW w \in Workers, Moves(w)
    PROVE  TypeInv' /\ LineMoves
<1>1. ASSUME UNCHANGED <<queue, processing>> PROVE LineKept \/ sent' # sent
  BY <1>1 DEF LineKept, Line
<1>2. CASE Requeue(w)
  BY <1>2, RequeueKeepsLine DEF Requeue, TypeInv, LineMoves, LineKept, history
<1>3. CASE DrainError(w)
  <2>1. CASE processing # <<>> /\ Requeued
    BY <1>3, <2>1, RequeueKeepsLine
       DEF DrainError, TypeInv, LineMoves, LineKept, Goto, Fault, Busy, history
  <2>2. CASE UNCHANGED <<queue, processing>>
    BY <1>1, <1>3, <2>2
       DEF DrainError, TypeInv, LineMoves, Goto, Fault, Busy, history
  <2> QED BY <1>3, <2>1, <2>2 DEF DrainError
<1>4. CASE Poll(w)
  BY <1>4, ClaimKeepsLine
     DEF Poll, TypeInv, LineMoves, LineKept, Goto, Put, Busy, history
<1>5. CASE PollError(w)
  BY <1>5, ClaimKeepsLine DEF PollError, TypeInv, LineMoves, LineKept, Fault, history
<1>6. ASSUME NEW from \in {"discard", "ack"}, Drop(w, from)
      PROVE  TypeInv' /\ LineMoves
  <2>1. pc[w] \in {"discard", "ack"} /\ UNCHANGED queue /\ sent' = sent
    BY <1>6 DEF Drop, Goto
  <2>2. CASE Removed(w) /\ UNCHANGED faults
    BY <1>6, <2>1, <2>2, RemovedLeavesLine
       DEF Drop, TypeInv, LineMoves, LineKept, LineShrinks, Goto, Put, Busy, history
  <2>3. CASE Fault /\ UNCHANGED processing
    BY <1>1, <1>6, <2>1, <2>3
       DEF Drop, TypeInv, LineMoves, Goto, Put, Fault, Busy, history
  <2> QED BY <1>6, <2>2, <2>3 DEF Drop
<1>7. CASE Discard(w) \/ Acknowledge(w)
  BY <1>6, <1>7 DEF Discard, Acknowledge
<1> QED BY <1>2, <1>3, <1>4, <1>5, <1>7 DEF Moves

\* Every step keeps the types and moves the line so.
LEMMA LineStep == TypeInv /\ [Next]_vars => TypeInv' /\ LineMoves
<1> SUFFICES ASSUME TypeInv, [Next]_vars PROVE TypeInv' /\ LineMoves
  OBVIOUS
<1>1. CASE \E w \in Workers : Still(w) \/ Moves(w)
  BY <1>1, StillTypes, MoveTypes DEF LineMoves
<1>2. CASE Enqueue
  BY <1>2, EnqueueAppends, JobsAssumption
     DEF Enqueue, TypeInv, LineMoves, LineGrows, history, Jobs
<1>3. ASSUME NEW j \in Jobs, Expire(j) PROVE TypeInv' /\ LineMoves
  BY <1>3 DEF Expire, TypeInv, LineMoves, LineKept, Line, Fault, Statuses, lists, history
<1>4. CASE UNCHANGED vars
  BY <1>4 DEF vars, TypeInv, LineMoves, LineKept, Line, lists, history
<1> QED BY <1>1, <1>2, <1>3, <1>4, StepSplits

------------------------------------------------------------------------------
(* The invariants.                                                           *)

\* Nothing is queued at first.
LEMMA LineInit == Init => DropInv
<1> SUFFICES ASSUME Init PROVE DropInv
  OBVIOUS
<1>1. Line = <<>>
  BY DEF Init, Line
<1>2. TypeInv
  BY JobsAssumption DEF Init, TypeInv, Busy, Statuses
<1>3. InOrder /\ LineSent
  BY <1>1 DEF InOrder, LineSent, Line, Increasing, ToSet
<1>4. Accounted /\ NoSilentDrop
  BY DEF Init, Accounted, NoSilentDrop
<1> QED BY <1>2, <1>3, <1>4 DEF DropInv, LineInv

\* The line is a sequence of jobs, and so are its elements.
LEMMA LineIsSeq == TypeInv => /\ Line \in Seq(Jobs) /\ Len(Line) \in Nat
                             /\ DOMAIN Line = 1..Len(Line) /\ Jobs \subseteq Int
BY ConcatProperties, LenProperties DEF TypeInv, Line, Jobs

\* The line stays in order, whatever moves it.
LEMMA LineInvStep == LineInv /\ [Next]_vars => LineInv'
<1> SUFFICES ASSUME LineInv, [Next]_vars PROVE InOrder' /\ LineSent'
  BY LineStep DEF LineInv
<1>1. LineMoves /\ TypeInv
  BY LineStep DEF LineInv
<1>2. Line \in Seq(Jobs) /\ Len(Line) \in Nat /\ DOMAIN Line = 1..Len(Line)
  BY <1>1, LineIsSeq
<1>3. Increasing(Line) /\ \A j \in ToSet(Line) : j <= sent
  BY DEF LineInv, InOrder, LineSent, Line
<1>4. SUFFICES Increasing(Line') /\ \A j \in ToSet(Line') : j <= sent'
  BY DEF InOrder, LineSent, Line
<1>5. CASE LineKept
  BY <1>3, <1>5 DEF LineKept
<1>6. CASE LineShrinks
  <2>1. PICK i \in 1..Len(Line) : Line' = RemoveAt(Line, i)
    BY <1>6 DEF LineShrinks
  <2>2. Increasing(Line') /\ ToSet(Line') \subseteq ToSet(Line)
    BY <1>1, <1>2, <1>3, <2>1, LineIsSeq, RemoveAtKeeps
  <2> QED BY <1>3, <1>6, <2>2 DEF LineShrinks
<1>7. CASE LineGrows
  <2>1. sent \in Nat /\ sent' = sent + 1 /\ sent' \in Jobs /\ Line' = Append(Line, sent')
    BY <1>1, <1>7 DEF LineGrows, TypeInv
  <2>2. /\ Len(Line') = Len(Line) + 1 /\ DOMAIN Line' = 1..Len(Line) + 1
        /\ \A i \in 1..Len(Line) : Line'[i] = Line[i]
        /\ Line'[Len(Line) + 1] = sent'
    BY <1>2, <2>1, AppendProperties, LenProperties
  <2>3. \A i \in 1..Len(Line) : Line[i] \in Int /\ Line[i] <= sent
    BY <1>1, <1>2, <1>3, LineIsSeq, ElementOfSeq DEF ToSet
  <2>4. Increasing(Line')
    <3> SUFFICES ASSUME NEW a \in 1..Len(Line) + 1, NEW b \in 1..Len(Line) + 1, a < b
                 PROVE  Line'[a] < Line'[b]
      BY <2>2 DEF Increasing
    <3>1. a \in 1..Len(Line) /\ Line'[a] = Line[a]
      BY <1>2, <2>2
    <3>2. CASE b \in 1..Len(Line)
      BY <1>2, <1>3, <2>2, <3>1, <3>2 DEF Increasing
    <3>3. CASE b = Len(Line) + 1
      BY <2>1, <2>2, <2>3, <3>1, <3>3
    <3> QED BY <1>2, <3>2, <3>3
  <2>5. \A j \in ToSet(Line') : j <= sent'
    BY <1>2, <2>1, <2>2, <2>3 DEF ToSet
  <2> QED BY <2>4, <2>5
<1> QED BY <1>1, <1>5, <1>6, <1>7 DEF LineMoves

\* What a worker is about to drop stays accounted for, and nothing written or
\* failed is forgotten.
LEMMA AccountedStep ==
    TypeInv /\ Accounted /\ [Next]_vars =>
        Accounted' /\ written \subseteq written' /\ failing \subseteq failing'
<1> SUFFICES ASSUME TypeInv, Accounted, [Next]_vars
             PROVE  Accounted' /\ written \subseteq written' /\ failing \subseteq failing'
  OBVIOUS
<1> USE DEF TypeInv, Accounted, history, Busy, Statuses
<1>1. ASSUME NEW w \in Workers, Still(w)
      PROVE  Accounted' /\ written \subseteq written' /\ failing \subseteq failing'
  <2> USE DEF Goto, Put, SetRow
  <2>1. CASE Start(w)
    BY <2>1 DEF Start
  <2>2. CASE Drained(w)
    BY <2>2 DEF Drained
  <2>3. CASE CheckRow(w)
    BY <2>3 DEF CheckRow, Skips
  <2>4. CASE CheckError(w)
    BY <2>4 DEF CheckError
  <2>5. CASE MarkProcessing(w)
    BY <2>5 DEF MarkProcessing
  <2>6. CASE MarkError(w)
    BY <2>6 DEF MarkError
  <2>7. CASE Compute(w)
    BY <2>7 DEF Compute
  <2>8. CASE ComputeError(w)
    BY <2>8 DEF ComputeError
  <2>9. CASE WriteDone(w)
    BY <2>9 DEF WriteDone
  <2>10. CASE DoneError(w)
    BY <2>10 DEF DoneError, MaybeSetRow
  <2>11. CASE WriteFailed(w)
    BY <2>11 DEF WriteFailed
  <2>12. CASE FailedError(w)
    BY <2>12 DEF FailedError
  <2>13. CASE Die(w)
    BY <2>13 DEF Die
  <2> QED BY <1>1, <2>1, <2>2, <2>3, <2>4, <2>5, <2>6, <2>7, <2>8, <2>9, <2>10, <2>11, <2>12, <2>13 DEF Still
<1>2. ASSUME NEW w \in Workers, Moves(w)
      PROVE  Accounted' /\ written \subseteq written' /\ failing \subseteq failing'
  <2>1. CASE Requeue(w)
    BY <2>1 DEF Requeue
  <2>2. CASE DrainError(w)
    BY <2>2 DEF DrainError, Goto
  <2>3. CASE Poll(w)
    BY <2>3 DEF Poll, Goto, Put
  <2>4. CASE PollError(w)
    BY <2>4 DEF PollError
  <2>5. CASE Discard(w) \/ Acknowledge(w)
    BY <2>5 DEF Discard, Acknowledge, Drop, Goto, Put
  <2> QED BY <1>2, <2>1, <2>2, <2>3, <2>4, <2>5 DEF Moves
<1>3. CASE Enqueue
  BY <1>3 DEF Enqueue
<1>4. CASE \E j \in Jobs : Expire(j)
  BY <1>4 DEF Expire
<1>5. CASE UNCHANGED vars
  BY <1>5 DEF vars
<1> QED BY <1>1, <1>2, <1>3, <1>4, <1>5, StepSplits

\* A job leaves the line only when it is accounted for.
LEMMA DropStep == DropInv /\ [Next]_vars => DropInv'
<1> SUFFICES ASSUME DropInv, [Next]_vars PROVE NoSilentDrop'
  BY LineInvStep, AccountedStep DEF DropInv, LineInv
<1>1. TypeInv /\ TypeInv' /\ LineMoves /\ Increasing(Line)
  BY LineStep DEF DropInv, LineInv, InOrder, Line
<1>2. written \subseteq written' /\ failing \subseteq failing'
  BY AccountedStep DEF DropInv, LineInv
<1>3. \A j \in 1..sent \ Malformed : j \in ToSet(Line) \/ j \in written \cup failing
  BY DEF DropInv, NoSilentDrop, Listed, Line
<1>4. SUFFICES \A j \in 1..sent' \ Malformed :
                  j \in ToSet(Line') \/ j \in written' \cup failing'
  BY DEF NoSilentDrop, Listed, Line
<1>5. CASE LineKept
  BY <1>2, <1>3, <1>5 DEF LineKept
<1>6. CASE LineShrinks
  <2>1. PICK w \in Workers, i \in 1..Len(Line) :
           /\ pc[w] \in {"discard", "ack"}
           /\ Line[i] = job[w] /\ Line' = RemoveAt(Line, i)
    BY <1>6 DEF LineShrinks
  <2>2. ToSet(Line) \ {job[w]} \subseteq ToSet(Line')
    BY <1>1, <2>1, LineIsSeq, RemoveAtKeeps
  <2>3. job[w] \in Malformed \cup written \cup failing
    BY <2>1 DEF DropInv, Accounted
  <2> QED BY <1>2, <1>3, <1>6, <2>2, <2>3 DEF LineShrinks
<1>7. CASE LineGrows
  <2>1. ToSet(Line) \cup {sent'} \subseteq ToSet(Line')
    <3>1. /\ Len(Line') = Len(Line) + 1 /\ DOMAIN Line' = 1..Len(Line) + 1
          /\ \A i \in 1..Len(Line) : Line'[i] = Line[i]
          /\ Line'[Len(Line) + 1] = sent'
          /\ DOMAIN Line = 1..Len(Line) /\ Len(Line) \in Nat
      BY <1>1, <1>7, LineIsSeq, AppendProperties, LenProperties DEF LineGrows
    <3> QED BY <3>1 DEF ToSet
  <2>2. \A j \in 1..sent' : j \in 1..sent \/ j = sent'
    BY <1>1, <1>7 DEF LineGrows, TypeInv
  <2> QED BY <1>2, <1>3, <2>1, <2>2
<1> QED BY <1>1, <1>5, <1>6, <1>7 DEF LineMoves

\* All of it holds throughout.
LEMMA QueueInvariant == Spec => []DropInv
BY LineInit, DropStep, PTL DEF Spec

\* The lists hold jobs, the workers jobs or nothing.
THEOREM TypesKept == Spec => []TypeInv
<1>1. DropInv => TypeInv
  BY DEF DropInv, LineInv
<1> QED BY <1>1, QueueInvariant, PTL

\* First in, first out, through every crash, lost answer and requeue.
THEOREM FirstInFirstOut == Spec => []InOrder
<1>1. DropInv => InOrder
  BY DEF DropInv, LineInv
<1> QED BY <1>1, QueueInvariant, PTL

\* No well-formed job is lost without a row or a failed computation.
THEOREM NothingLost == Spec => []NoSilentDrop
<1>1. DropInv => NoSilentDrop
  BY DEF DropInv
<1> QED BY <1>1, QueueInvariant, PTL

------------------------------------------------------------------------------
(* The AIS feed.                                                             *)

Envelopes == [vessel : Vessels, place : Places]

FeedTypes ==
    /\ ring \in Seq(Envelopes) /\ Len(ring) <= Capacity
    /\ table \in [Vessels -> [place : Places, age : 0..Oldest]]
    /\ heard \in [Vessels -> Places]
    /\ ticker \in 0..PruneEvery /\ grace \in Nat
    /\ cycle \in [kind : {"none", "counts_first", "asks_first"}, oldest : Nat]
    /\ relay \in {"running", "draining", "finishing", "stopped"}

\* Where the channel has the vessel last.
Newest(envelopes, v, i) ==
    /\ i \in DOMAIN envelopes
    /\ envelopes[i].vessel = v /\ envelopes[i].place \in Areas
    /\ \A k \in DOMAIN envelopes :
           envelopes[k].vessel = v /\ envelopes[k].place \in Areas => k <= i

\* What was passed on last is the last of it in the channel, or, when the
\* channel has nothing of the vessel, in the table.
Arrives(envelopes, v) ==
    \/ ~ Carries(envelopes, v) /\ table[v].place = heard[v]
    \/ \E i \in DOMAIN envelopes :
           Newest(envelopes, v, i) /\ envelopes[i].place = heard[v]

NothingSkipped ==
    Subscribed => \A v \in Vessels : heard[v] # "nowhere" => Arrives(ring, v)

FeedInv == FeedTypes /\ NothingSkipped

\* The age no fix that is counted has passed, and how far from it the table is
\* at most: the time to the next prune, then what the shutdown may take.
MaxAge == Ttl + PruneEvery + Grace + OtherDrains

Spare == CASE relay = "running"  -> ticker + Grace + OtherDrains
           [] relay = "draining" -> grace + OtherDrains
           [] OTHER              -> grace

AgesBounded ==
    /\ \A v \in Vessels : table[v].age + Spare <= MaxAge
    /\ cycle.oldest <= MaxAge

AgesInv == FeedTypes /\ AgesBounded

\* A bounded set of naturals that has a member has a largest one.
LEMMA MaxExists ==
    ASSUME NEW S, S \subseteq Nat, S # {}, NEW b \in Nat, \A x \in S : x <= b
    PROVE  Max(S) \in S
<1> DEFINE bounds == {u \in Nat : \A x \in S : x <= u}
           least  == Min(bounds)
<1>1. least \in bounds /\ \A u \in bounds : least <= u
  BY MinExists
<1> HIDE DEF least
<1>2. least \in Nat /\ \A x \in S : x \in Nat /\ x <= least
  BY <1>1
<1>3. least \in S
  <2>1. SUFFICES ASSUME least \notin S PROVE FALSE
    OBVIOUS
  <2>2. \A x \in S : x < least
    BY <1>2, <2>1
  <2>3. PICK x \in S : TRUE
    OBVIOUS
  <2>4. least - 1 \in Nat
    BY <1>2, <2>2, <2>3
  <2>5. \A y \in S : y <= least - 1
    BY <1>2, <2>2, <2>4
  <2>6. least - 1 \in bounds
    BY <2>4, <2>5
  <2>7. least <= least - 1
    BY <1>1, <2>6
  <2> QED BY <1>2, <2>7
<1> QED BY <1>2, <1>3 DEF Max

LEMMA CapacityType ==
    /\ {Capacity, Ttl, PruneEvery, Grace, OtherDrains, MaxAge, Oldest} \subseteq Nat
    /\ Capacity > 0 /\ PruneEvery > 0
BY ScheduleAssumption DEF MaxAge, Oldest

\* What a full channel loses, or the consumer takes, is its head: every other
\* envelope moves up by one.
LEMMA TailNewest ==
    ASSUME NEW s \in Seq(Envelopes), s # <<>>, NEW v \in Vessels
    PROVE  /\ Tail(s) \in Seq(Envelopes) /\ Len(Tail(s)) = Len(s) - 1
           /\ Head(s) \in Envelopes /\ Head(s) = s[1]
           /\ Carries(Tail(s), v) => Carries(s, v)
           /\ \A i \in DOMAIN s : Newest(s, v, i) /\ Carries(Tail(s), v) =>
                 /\ i - 1 \in DOMAIN Tail(s) /\ Newest(Tail(s), v, i - 1)
                 /\ Tail(s)[i - 1] = s[i]
           /\ Carries(s, v) /\ ~ Carries(Tail(s), v) =>
                 s[1].vessel = v /\ s[1].place \in Areas /\ Newest(s, v, 1)
           /\ \A i \in DOMAIN s : Newest(s, v, i) /\ ~ Carries(Tail(s), v) => i = 1
<1>1. /\ Tail(s) \in Seq(Envelopes) /\ Len(Tail(s)) = Len(s) - 1
      /\ \A i \in 1..Len(s) - 1 : Tail(s)[i] = s[i + 1]
      /\ Len(s) \in Nat \ {0}
  BY HeadTailProperties, EmptySeq
<1>2. DOMAIN s = 1..Len(s) /\ DOMAIN Tail(s) = 1..Len(s) - 1
  BY <1>1, LenProperties
<1>3. Head(s) \in Envelopes /\ Head(s) = s[1]
  BY HeadTailProperties
<1>4. Carries(Tail(s), v) => Carries(s, v)
  BY <1>1, <1>2 DEF Carries
<1>5. ASSUME NEW i \in DOMAIN s, Newest(s, v, i), i # 1
      PROVE  /\ i - 1 \in DOMAIN Tail(s) /\ Newest(Tail(s), v, i - 1)
             /\ Tail(s)[i - 1] = s[i]
  <2>1. i - 1 \in DOMAIN Tail(s) /\ Tail(s)[i - 1] = s[i] /\ i \in Nat
    BY <1>1, <1>2, <1>5
  <2>2. ASSUME NEW k \in DOMAIN Tail(s),
               Tail(s)[k].vessel = v /\ Tail(s)[k].place \in Areas
        PROVE  k <= i - 1
    <3>1. k \in Nat /\ k + 1 \in DOMAIN s /\ Tail(s)[k] = s[k + 1]
      BY <1>1, <1>2
    <3>2. k + 1 <= i
      BY <1>5, <2>2, <3>1 DEF Newest
    <3> QED BY <2>1, <3>1, <3>2
  <2> QED BY <1>5, <2>1, <2>2 DEF Newest
<1>6. ASSUME NEW i \in DOMAIN s, Newest(s, v, i), i # 1 PROVE Carries(Tail(s), v)
  BY <1>5, <1>6 DEF Newest, Carries
<1>7. ASSUME Newest(s, v, 1) PROVE ~ Carries(Tail(s), v)
  <2>1. SUFFICES ASSUME NEW k \in DOMAIN Tail(s),
                        Tail(s)[k].vessel = v /\ Tail(s)[k].place \in Areas
                 PROVE  FALSE
    BY DEF Carries
  <2>2. k \in Nat \ {0} /\ k + 1 \in DOMAIN s /\ Tail(s)[k] = s[k + 1]
    BY <1>1, <1>2
  <2>3. k + 1 <= 1
    BY <1>7, <2>1, <2>2 DEF Newest
  <2> QED BY <2>2, <2>3
<1>8. ASSUME Carries(s, v), ~ Carries(Tail(s), v)
      PROVE  s[1].vessel = v /\ s[1].place \in Areas /\ Newest(s, v, 1)
  <2>1. ASSUME NEW k \in DOMAIN s, s[k].vessel = v /\ s[k].place \in Areas PROVE k = 1
    <3>1. SUFFICES ASSUME k # 1 PROVE FALSE
      OBVIOUS
    <3>2. k - 1 \in DOMAIN Tail(s) /\ Tail(s)[k - 1] = s[k]
      BY <1>1, <1>2, <3>1
    <3> QED BY <1>8, <2>1, <3>2 DEF Carries
  <2>2. PICK k \in DOMAIN s : s[k].vessel = v /\ s[k].place \in Areas
    BY <1>8 DEF Carries
  <2>3. k = 1
    BY <2>1, <2>2
  <2> QED BY <2>1, <2>2, <2>3 DEF Newest
<1> QED BY <1>1, <1>3, <1>4, <1>5, <1>6, <1>7, <1>8

\* An envelope at the end is the newest of its vessel, when it has a place, and
\* changes nothing for the others.
LEMMA AppendNewest ==
    ASSUME NEW s \in Seq(Envelopes), NEW e \in Envelopes, NEW v \in Vessels
    PROVE  /\ Append(s, e) \in Seq(Envelopes) /\ Len(Append(s, e)) = Len(s) + 1
           /\ e.vessel = v /\ e.place \in Areas =>
                 \E i \in DOMAIN Append(s, e) :
                     Newest(Append(s, e), v, i) /\ Append(s, e)[i] = e
           /\ ~ (e.vessel = v /\ e.place \in Areas) =>
                 /\ Carries(Append(s, e), v) <=> Carries(s, v)
                 /\ \A i \in DOMAIN s : Newest(s, v, i) =>
                       /\ i \in DOMAIN Append(s, e) /\ Newest(Append(s, e), v, i)
                       /\ Append(s, e)[i] = s[i]
<1> DEFINE t == Append(s, e)
<1>1. /\ t \in Seq(Envelopes) /\ Len(t) = Len(s) + 1 /\ Len(s) \in Nat
      /\ \A i \in 1..Len(s) : t[i] = s[i]
      /\ t[Len(s) + 1] = e
  BY AppendProperties, LenProperties
<1>2. DOMAIN s = 1..Len(s) /\ DOMAIN t = 1..Len(s) + 1
  BY <1>1, LenProperties
<1> HIDE DEF t
<1>3. ASSUME e.vessel = v /\ e.place \in Areas
      PROVE  \E i \in DOMAIN t : Newest(t, v, i) /\ t[i] = e
  <2>1. Len(s) + 1 \in DOMAIN t /\ \A k \in DOMAIN t : k <= Len(s) + 1
    BY <1>1, <1>2
  <2> QED BY <1>1, <1>3, <2>1 DEF Newest
<1>4. ASSUME ~ (e.vessel = v /\ e.place \in Areas),
             NEW k \in DOMAIN t, t[k].vessel = v /\ t[k].place \in Areas
      PROVE  k \in DOMAIN s /\ t[k] = s[k]
  BY <1>1, <1>2, <1>4
<1>5. \A k \in DOMAIN s : k \in DOMAIN t /\ t[k] = s[k]
  BY <1>1, <1>2
<1>6. ASSUME ~ (e.vessel = v /\ e.place \in Areas) PROVE Carries(t, v) <=> Carries(s, v)
  BY <1>4, <1>5, <1>6 DEF Carries
<1>7. ASSUME ~ (e.vessel = v /\ e.place \in Areas), NEW i \in DOMAIN s, Newest(s, v, i)
      PROVE  i \in DOMAIN t /\ Newest(t, v, i) /\ t[i] = s[i]
  BY <1>4, <1>5, <1>7 DEF Newest
<1> QED BY <1>1, <1>3, <1>6, <1>7 DEF t

\* What a cycle counts as its oldest fix is the age of a fix, or zero.
LEMMA OldestIsAge ==
    ASSUME FeedTypes
    PROVE  /\ OldestCounted \in Nat
           /\ OldestCounted = 0 \/ \E v \in Vessels : OldestCounted = table[v].age
<1> DEFINE counted == {u \in Known : table[u].place = "in"}
           ages    == {0} \cup {table[v].age : v \in counted}
<1>1. counted \subseteq Vessels /\ \A v \in Vessels : table[v].age \in 0..Oldest
  BY DEF FeedTypes, Known
<1>2. Oldest \in Nat
  BY CapacityType
<1>3. ages \subseteq Nat /\ ages # {} /\ \A x \in ages : x <= Oldest
  BY <1>1, <1>2
<1>4. Max(ages) \in ages
  BY <1>2, <1>3, MaxExists
<1>5. OldestCounted = Max(ages)
  BY DEF OldestCounted
<1> QED BY <1>1, <1>3, <1>4, <1>5

LEMMA FeedInit == AisInit => FeedInv /\ AgesInv
<1> SUFFICES ASSUME AisInit PROVE FeedInv /\ AgesInv
  OBVIOUS
<1>1. ring = <<>> /\ ring \in Seq(Envelopes) /\ Len(ring) = 0
  BY EmptySeq DEF AisInit
<1>2. FeedTypes
  BY <1>1, CapacityType DEF AisInit, FeedTypes, NoFix, NoCycle, Places
<1>3. NothingSkipped
  BY DEF AisInit, NothingSkipped
<1>4. AgesBounded
  BY ScheduleAssumption DEF AisInit, AgesBounded, Spare, MaxAge, NoFix, NoCycle
<1> QED BY <1>2, <1>3, <1>4 DEF FeedInv, AgesInv

\* One step for each way the envelopes and the table change.
LEMMA FrameStep ==
    ASSUME FeedInv, NEW v \in Vessels, NEW place \in Places, Frame(v, place)
    PROVE  FeedInv'
<1> DEFINE kept == IF Len(ring) = Capacity THEN Tail(ring) ELSE ring
           e    == Envelope(v, place)
<1>1. CASE ~ Subscribed
  BY <1>1 DEF FeedInv, FeedTypes, NothingSkipped, Frame, Subscribed
<1>2. CASE Subscribed
  <2>1. /\ ring' = Append(kept, e)
        /\ heard' = [u \in Vessels |->
               IF u = v /\ place \in Areas THEN place
               ELSE IF /\ u \in (IF Len(ring) = Capacity THEN {Head(ring).vessel} ELSE {})
                       /\ Carries(ring, u) /\ ~ Carries(kept, u)
                    THEN "nowhere" ELSE heard[u]]
        /\ UNCHANGED <<session, table, ticker, cycle, relay, grace, calm>>
    BY <1>2 DEF Frame
  <2>2. ring \in Seq(Envelopes) /\ Len(ring) <= Capacity /\ Len(ring) \in Nat
        /\ heard \in [Vessels -> Places]
    BY LenProperties DEF FeedInv, FeedTypes
  <2>3. kept \in Seq(Envelopes) /\ Len(kept) < Capacity
    <3>1. CASE Len(ring) = Capacity
      <4>1. ring # <<>>
        BY <3>1, CapacityType
      <4> QED BY <2>2, <3>1, <4>1, HeadTailProperties, CapacityType
    <3> QED BY <2>2, <3>1, CapacityType
  <2>4. e \in Envelopes /\ e.vessel = v /\ e.place = place
    BY DEF Envelope, Envelopes
  <2>5. ring' \in Seq(Envelopes) /\ Len(ring') <= Capacity
    <3>1. Len(kept) \in Nat
      BY <2>3, LenProperties
    <3> QED BY <2>1, <2>3, <2>4, <3>1, AppendProperties, CapacityType
  <2>6. heard' \in [Vessels -> Places]
    BY <2>1, <2>2 DEF Places
  <2>7. FeedTypes'
    BY <2>1, <2>5, <2>6 DEF FeedInv, FeedTypes
  <2>8. ASSUME NEW u \in Vessels, heard'[u] # "nowhere" PROVE Arrives(ring, u)'
    <3>1. CASE u = v /\ place \in Areas
      <4>1. heard'[u] = place
        BY <2>1, <3>1
      <4>2. PICK i \in DOMAIN ring' : Newest(ring', u, i) /\ ring'[i] = e
        BY <2>1, <2>3, <2>4, <3>1, AppendNewest
      <4> QED BY <2>4, <4>1, <4>2 DEF Arrives
    <3>2. CASE ~ (u = v /\ place \in Areas)
      <4>1. heard'[u] = heard[u] /\ heard[u] # "nowhere"
        BY <2>1, <2>8, <3>2
      <4>2. Arrives(ring, u)
        BY <1>2, <4>1 DEF FeedInv, NothingSkipped
      <4>3. Arrives(kept, u)
        <5>1. CASE Len(ring) # Capacity
          BY <4>2, <5>1
        <5>2. CASE Len(ring) = Capacity
          <6>1. ring # <<>> /\ kept = Tail(ring)
            BY <5>2, CapacityType
          <6>2. Head(ring) = ring[1]
            BY <2>2, <6>1, TailNewest
          <6>3. ~ (ring[1].vessel = u /\ Carries(ring, u) /\ ~ Carries(Tail(ring), u))
            BY <2>1, <2>8, <3>2, <5>2, <6>1, <6>2
          <6>4. ~ (Carries(ring, u) /\ ~ Carries(Tail(ring), u))
            BY <2>2, <6>1, <6>3, TailNewest
          <6>5. CASE ~ Carries(ring, u)
            <7>1. ~ Carries(Tail(ring), u) /\ table[u].place = heard[u]
              BY <2>2, <4>2, <6>1, <6>5, TailNewest DEF Arrives, Newest, Carries
            <7> QED BY <6>1, <7>1 DEF Arrives
          <6>6. CASE Carries(ring, u) /\ Carries(Tail(ring), u)
            <7>1. PICK i \in DOMAIN ring : Newest(ring, u, i) /\ ring[i].place = heard[u]
              BY <4>2, <6>6 DEF Arrives
            <7>2. /\ i - 1 \in DOMAIN Tail(ring) /\ Newest(Tail(ring), u, i - 1)
                  /\ Tail(ring)[i - 1] = ring[i]
              BY <2>2, <6>1, <6>6, <7>1, TailNewest
            <7> QED BY <6>1, <7>1, <7>2 DEF Arrives
          <6> QED BY <6>4, <6>5, <6>6
        <5> QED BY <5>1, <5>2
      <4>4. /\ Carries(ring', u) <=> Carries(kept, u)
            /\ \A i \in DOMAIN kept : Newest(kept, u, i) =>
                  /\ i \in DOMAIN ring' /\ Newest(ring', u, i) /\ ring'[i] = kept[i]
        <5>1. ~ (e.vessel = u /\ e.place \in Areas)
          BY <2>4, <3>2
        <5>2. kept \in Seq(Envelopes) /\ e \in Envelopes /\ ring' = Append(kept, e)
          BY <2>1, <2>3, <2>4
        <5> HIDE DEF kept, e
        <5> QED BY <5>1, <5>2, AppendNewest
      <4>5. table' = table
        BY <2>1
      <4> QED BY <4>1, <4>3, <4>4, <4>5 DEF Arrives
    <3> QED BY <3>1, <3>2
  <2> QED BY <2>7, <2>8 DEF FeedInv, NothingSkipped
<1> QED BY <1>1, <1>2

LEMMA ReceiveStep == FeedInv /\ Receive => FeedInv'
<1> SUFFICES ASSUME FeedInv, Receive PROVE FeedInv'
  OBVIOUS
<1> DEFINE e == Head(ring)
<1>1. /\ Subscribed /\ ring # <<>> /\ ring' = Tail(ring) /\ table' = Apply(e)
      /\ UNCHANGED <<session, ticker, cycle, relay, grace, calm, heard>>
  BY DEF Receive
<1>2. ring \in Seq(Envelopes) /\ Len(ring) <= Capacity /\ Len(ring) \in Nat
  BY LenProperties DEF FeedInv, FeedTypes
<1>3. e \in Envelopes /\ e = ring[1] /\ ring' \in Seq(Envelopes) /\ Len(ring') = Len(ring) - 1
  BY <1>1, <1>2, HeadTailProperties
<1>4. e.vessel \in Vessels /\ e.place \in Places
  BY <1>3 DEF Envelopes
<1>5. table \in [Vessels -> [place : Places, age : 0..Oldest]] /\ 0 \in 0..Oldest
  BY CapacityType DEF FeedInv, FeedTypes
<1>6. table' \in [Vessels -> [place : Places, age : 0..Oldest]]
  BY <1>1, <1>4, <1>5 DEF Apply
<1>7. FeedTypes'
  BY <1>1, <1>2, <1>3, <1>6, CapacityType DEF FeedInv, FeedTypes
<1>8. ASSUME NEW u \in Vessels, heard'[u] # "nowhere" PROVE Arrives(ring, u)'
  <2>1. heard' = heard /\ Arrives(ring, u)
    BY <1>1, <1>8 DEF FeedInv, NothingSkipped
  <2>2. CASE ~ Carries(ring, u)
    <3>1. ~ Carries(ring', u)
      BY <1>1, <1>2, <2>2, TailNewest
    <3>2. table[u].place = heard[u]
      BY <2>1, <2>2 DEF Arrives, Newest, Carries
    <3>3. ~ (e.vessel = u /\ e.place \in Areas)
      <4>1. 1 \in DOMAIN ring
        BY <1>1, <1>2, EmptySeq, LenProperties
      <4> QED BY <1>3, <2>2, <4>1 DEF Carries
    <3>4. table'[u] = table[u]
      BY <1>1, <1>4, <1>5, <3>3 DEF Apply, Places
    <3> QED BY <2>1, <3>1, <3>2, <3>4 DEF Arrives
  <2>3. CASE Carries(ring', u)
    <3>1. Carries(ring, u) /\ ring' = Tail(ring)
      BY <1>1, <1>2, <2>3, TailNewest
    <3>2. PICK i \in DOMAIN ring : Newest(ring, u, i) /\ ring[i].place = heard[u]
      BY <2>1, <3>1 DEF Arrives
    <3>3. /\ i - 1 \in DOMAIN ring' /\ Newest(ring', u, i - 1)
          /\ ring'[i - 1] = ring[i]
      BY <1>1, <1>2, <2>3, <3>1, <3>2, TailNewest
    <3> QED BY <2>1, <3>2, <3>3 DEF Arrives
  <2>4. CASE Carries(ring, u) /\ ~ Carries(ring', u)
    <3>1. PICK i \in DOMAIN ring : Newest(ring, u, i) /\ ring[i].place = heard[u]
      BY <2>1, <2>4 DEF Arrives
    <3>2. i = 1
      BY <1>1, <1>2, <2>4, <3>1, TailNewest
    <3>3. e.vessel = u /\ e.place \in Areas /\ e.place = heard[u]
      BY <1>3, <3>1, <3>2 DEF Newest
    <3>4. table'[u].place = e.place
      BY <1>1, <1>4, <1>5, <3>3 DEF Apply, Areas
    <3> QED BY <2>1, <2>4, <3>3, <3>4 DEF Arrives
  <2> QED BY <2>2, <2>3, <2>4
<1> QED BY <1>7, <1>8 DEF FeedInv, NothingSkipped

LEMMA PruneStep == FeedInv /\ Prune => FeedInv'
<1> SUFFICES ASSUME FeedInv, Prune PROVE FeedInv'
  OBVIOUS
<1>1. /\ table' = [v \in Vessels |-> Retained(table[v], Ttl)]
      /\ heard' = [v \in Vessels |-> IF table'[v] = NoFix /\ ~ Carries(ring, v)
                                     THEN "nowhere" ELSE heard[v]]
      /\ ticker' = PruneEvery
      /\ UNCHANGED <<session, ring, cycle, relay, grace, calm>>
      /\ Subscribed
  BY DEF Prune, PruneTo
<1>2. \A v \in Vessels : table'[v] \in {table[v], NoFix}
  BY <1>1 DEF Retained
<1>3. NoFix \in [place : Places, age : 0..Oldest]
  BY CapacityType DEF NoFix, Places
<1>4. table' \in [Vessels -> [place : Places, age : 0..Oldest]]
  BY <1>1, <1>3 DEF Retained, FeedInv, FeedTypes
<1>5. heard' \in [Vessels -> Places]
  BY <1>1 DEF FeedInv, FeedTypes, Places
<1>6. FeedTypes'
  BY <1>1, <1>4, <1>5, CapacityType DEF FeedInv, FeedTypes
<1>7. ASSUME NEW u \in Vessels, heard'[u] # "nowhere" PROVE Arrives(ring, u)'
  <2>1. heard'[u] = heard[u] /\ (Carries(ring, u) \/ table'[u] # NoFix)
    BY <1>1, <1>7
  <2>2. Arrives(ring, u)
    BY <1>1, <1>7, <2>1 DEF FeedInv, NothingSkipped
  <2>3. Carries(ring, u) \/ table'[u] = table[u]
    BY <1>2, <2>1
  <2>4. ring' = ring
    BY <1>1
  <2> QED BY <2>1, <2>2, <2>3, <2>4 DEF Arrives
<1> QED BY <1>6, <1>7 DEF FeedInv, NothingSkipped

\* Time makes a fix a tick older and leaves it where it was.
LEMMA OlderFix ==
    ASSUME NEW fix \in [place : Places, age : 0..Oldest]
    PROVE  /\ Older(fix) \in [place : Places, age : 0..Oldest]
           /\ Older(fix).place = fix.place /\ Older(fix).age <= fix.age + 1
<1>1. Oldest \in Nat /\ fix.age \in 0..Oldest
  BY CapacityType
<1>2. Lesser(fix.age + 1, Oldest) \in 0..Oldest /\ Lesser(fix.age + 1, Oldest) <= fix.age + 1
  BY <1>1 DEF Lesser
<1> QED BY <1>1, <1>2 DEF Older

LEMMA FeedStep == FeedInv /\ [AisNext]_aisVars => FeedInv'
<1> SUFFICES ASSUME FeedInv, [AisNext]_aisVars PROVE FeedInv'
  OBVIOUS
<1> USE DEF FeedInv, FeedTypes, NothingSkipped, Arrives, Subscribed
<1>1. CASE \/ Connect \/ GoMute \/ Fail \/ Close \/ Wake \/ Settle \/ UNCHANGED aisVars
  BY <1>1 DEF Connect, GoMute, Fail, Close, Wake, Settle, aisVars
<1>2. ASSUME NEW f \in Frames, Frame(f[1], f[2]) PROVE FeedInv'
  <2>1. f[1] \in Vessels /\ f[2] \in Places
    BY FramesAssumption
  <2> QED BY <1>2, <2>1, FrameStep
<1>3. CASE Receive
  BY <1>3, ReceiveStep
<1>4. CASE Prune
  BY <1>4, PruneStep
<1>5. ASSUME NEW kind \in {"counts_first", "asks_first"}, Begin(kind) PROVE FeedInv'
  <2>1. cycle' \in [kind : {"none", "counts_first", "asks_first"}, oldest : Nat]
    BY <1>5, OldestIsAge DEF Begin
  <2> QED BY <1>5, <2>1 DEF Begin
<1>6. CASE Publish \/ EmptyUpstream
  <2>1. NoCycle \in [kind : {"none", "counts_first", "asks_first"}, oldest : Nat]
    BY DEF NoCycle
  <2> QED BY <1>6, <2>1 DEF Publish, EmptyUpstream
<1>7. CASE Shutdown
  BY <1>7, EmptySeq, CapacityType DEF Shutdown
<1>8. CASE ProducerDrained \/ Stop
  <2>1. NoCycle \in [kind : {"none", "counts_first", "asks_first"}, oldest : Nat]
    BY DEF NoCycle
  <2> QED BY <1>8, <2>1, CapacityType DEF ProducerDrained, Stop
<1>9. CASE Tick
  <2>1. \A v \in Vessels : table'[v].place = table[v].place
    BY <1>9, OlderFix DEF Tick
  <2>2. table' \in [Vessels -> [place : Places, age : 0..Oldest]]
    BY <1>9, OlderFix DEF Tick
  <2>3. ticker' \in 0..PruneEvery /\ grace' \in Nat
    BY <1>9, CapacityType DEF Tick, Quiet
  <2> QED BY <1>9, <2>1, <2>2, <2>3 DEF Tick
<1> QED BY <1>1, <1>2, <1>3, <1>4, <1>5, <1>6, <1>7, <1>8, <1>9 DEF AisNext, Seed

LEMMA AgesStep == AgesInv /\ FeedInv /\ [AisNext]_aisVars => AgesInv'
<1> SUFFICES ASSUME AgesInv, FeedInv, [AisNext]_aisVars PROVE AgesBounded'
  BY FeedStep DEF AgesInv, FeedInv
<1>1. FeedTypes /\ FeedTypes' /\ AgesBounded
  BY FeedStep DEF AgesInv, FeedInv
<1>2. /\ {Ttl, PruneEvery, Grace, OtherDrains, MaxAge} \subseteq Nat
      /\ MaxAge = Ttl + PruneEvery + Grace + OtherDrains
      /\ Spare \in Nat /\ Spare' \in Nat
      /\ cycle.oldest \in Nat /\ ticker \in 0..PruneEvery /\ grace \in Nat
      /\ \A v \in Vessels : table[v].age \in Nat /\ table'[v].age \in Nat
  <2>1. /\ {Ttl, PruneEvery, Grace, OtherDrains, MaxAge} \subseteq Nat
        /\ MaxAge = Ttl + PruneEvery + Grace + OtherDrains
    BY CapacityType DEF MaxAge
  <2>2. /\ ticker \in 0..PruneEvery /\ grace \in Nat
        /\ ticker' \in 0..PruneEvery /\ grace' \in Nat
        /\ cycle.oldest \in Nat
    BY <1>1 DEF FeedTypes
  <2>3. /\ \A v \in Vessels : table[v].age \in 0..Oldest
        /\ \A v \in Vessels : table'[v].age \in 0..Oldest
    BY <1>1 DEF FeedTypes
  <2>4. Spare \in Nat /\ Spare' \in Nat
    BY <2>1, <2>2 DEF Spare
  <2> QED BY <2>1, <2>2, <2>3, <2>4
<1>3. CASE \/ Connect \/ GoMute \/ Fail \/ Close \/ Wake \/ Settle \/ UNCHANGED aisVars
           \/ \E f \in Frames : Frame(f[1], f[2])
  BY <1>1, <1>3 DEF AgesBounded, Spare, Connect, GoMute, Fail, Close, Wake, Settle, Frame, aisVars
<1>4. CASE Receive
  <2>1. Spare' = Spare /\ Spare + 0 <= MaxAge /\ cycle' = cycle
    BY <1>1, <1>2, <1>4 DEF Receive, Spare, Subscribed
  <2>2. \A v \in Vessels : table'[v].age \in {table[v].age, 0}
    BY <1>1, <1>4 DEF Receive, Apply, FeedTypes
  <2> QED BY <1>1, <1>2, <2>1, <2>2 DEF AgesBounded
<1>5. CASE Prune
  <2>1. Spare' = PruneEvery + Grace + OtherDrains /\ cycle' = cycle
    BY <1>5 DEF Prune, PruneTo, Spare, Subscribed
  <2>2. \A v \in Vessels : table'[v].age <= Ttl
    BY <1>1, <1>2, <1>5 DEF Prune, PruneTo, Retained, NoFix
  <2> QED BY <1>1, <1>2, <2>1, <2>2 DEF AgesBounded
<1>6. ASSUME NEW kind \in {"counts_first", "asks_first"}, Begin(kind) PROVE AgesBounded'
  <2>1. table' = table /\ Spare' = Spare /\ cycle'.oldest \in {OldestCounted, 0}
    BY <1>6 DEF Begin, Spare
  <2>2. OldestCounted <= MaxAge
    BY <1>1, <1>2, OldestIsAge DEF AgesBounded
  <2> QED BY <1>1, <1>2, <2>1, <2>2 DEF AgesBounded
<1>7. CASE Publish \/ EmptyUpstream
  BY <1>1, <1>2, <1>7 DEF AgesBounded, Spare, Publish, EmptyUpstream, NoCycle
<1>8. CASE Shutdown \/ ProducerDrained \/ Stop
  <2>1. table' = table /\ (cycle' = cycle \/ cycle' = NoCycle) /\ Spare' <= Spare
    BY <1>1, <1>2, <1>8 DEF Shutdown, ProducerDrained, Stop, Spare
  <2> QED BY <1>1, <1>2, <2>1 DEF AgesBounded, NoCycle
<1>9. CASE Tick
  <2>1. Spare' = Spare - 1 /\ cycle' = cycle
    <3>1. CASE Subscribed
      BY <1>2, <1>9, <3>1 DEF Tick, Quiet, Spare, Subscribed
    <3>2. CASE ~ Subscribed
      BY <1>2, <1>9, <3>2 DEF Tick, Quiet, Spare, Subscribed
    <3> QED BY <3>1, <3>2
  <2>2. \A v \in Vessels : table'[v].age <= table[v].age + 1
    BY <1>1, <1>9, OlderFix DEF Tick, FeedTypes
  <2> QED BY <1>1, <1>2, <2>1, <2>2 DEF AgesBounded
<1> QED BY <1>3, <1>4, <1>5, <1>6, <1>7, <1>8, <1>9 DEF AisNext, Seed

LEMMA FeedInvariant == AisSpec => []FeedInv
<1>1. AisInit => FeedInv
  BY FeedInit
<1> QED BY <1>1, FeedStep, PTL DEF AisSpec

\* The types of the feed; the channel never has more than it holds.
THEOREM FeedTypesKept == AisSpec => []FeedTypes
<1>1. FeedInv => FeedTypes
  BY DEF FeedInv
<1> QED BY <1>1, FeedInvariant, PTL

\* However far the consumer lags and whatever the channel drops: with nothing
\* left to receive, the table has the last place of each vessel.
THEOREM TableCatchesUp == AisSpec => []TableIsCurrent
<1>1. FeedInv => TableIsCurrent
  <2> SUFFICES ASSUME FeedInv, Subscribed, ring = <<>>, NEW v \in Vessels, heard[v] # "nowhere"
               PROVE  table[v].place = heard[v]
    BY DEF TableIsCurrent
  <2>1. Arrives(<<>>, v)
    BY DEF FeedInv, NothingSkipped
  <2> QED BY <2>1 DEF Arrives
<1> QED BY <1>1, FeedInvariant, PTL

\* No published count has a fix older than its life, the time to the next prune
\* and the graces of a shutdown.
THEOREM CountsAreRecent == AisSpec => CountsTheRecent
<1>1. AisInit => FeedInv /\ AgesInv
  BY FeedInit
<1>2. FeedInv /\ AgesInv /\ [AisNext]_aisVars => FeedInv' /\ AgesInv'
  BY FeedStep, AgesStep
<1>3. AgesInv /\ [AisNext]_aisVars
        => [Publish => Published <= Ttl + PruneEvery + Grace + OtherDrains]_aisVars
  <2> SUFFICES ASSUME AgesInv PROVE Published <= MaxAge
    BY DEF MaxAge
  <2>1. Spare \in Nat /\ MaxAge \in Nat /\ \A v \in Vessels : table[v].age \in Nat
    BY CapacityType DEF AgesInv, FeedTypes, Spare
  <2>2. \A v \in Vessels : table[v].age <= MaxAge
    BY <2>1 DEF AgesInv, AgesBounded
  <2>3. OldestCounted <= MaxAge
    BY <2>1, <2>2, OldestIsAge DEF AgesInv
  <2> QED BY <2>3 DEF Published, AgesInv, AgesBounded
<1> QED BY <1>1, <1>2, <1>3, PTL DEF AisSpec, CountsTheRecent

===============================================================================
