---------------------------- MODULE RateLimitProofs ----------------------------
(***************************************************************************)
(* Proofs about RateLimit, for every set of requests and paths, all limits *)
(* and windows, every wait for the write lock and every clock.  The cap is *)
(* not inductive: it counts admissions, and the code counts rows that it   *)
(* stamped by old clock readings and deletes by others.  What links them   *)
(* is Covered: since any moment that the window less the wait still        *)
(* reaches, no more requests were let in than there are rows stamped after *)
(* it less the wait, and no reading there can be deletes one of those.     *)
(***************************************************************************)
EXTENDS RateLimit, FiniteSetTheorems, TLAPS

\* Let in since t, and the rows stamped since t.
LetInSince(b, t) ==
    {r \in Requests : /\ decision[r] \in {"Allowed", "Collision"}
                       /\ b \in Counts(r) /\ at[r] >= t}
RowsSince(b, t) == {s \in bucket[b] : s >= t}

Covered ==
    \A b \in Buckets : \A t \in Int :
        t > clock - Window[b] + MaxWait =>
            Cardinality(LetInSince(b, t)) <= Cardinality(RowsSince(b, t - MaxWait))

\* No clock reading and no admission is in the future.
PastOnly == \A r \in Requests : now[r] <= clock /\ at[r] <= clock

\* Stamps do not grow without end, so a bucket has a newest row.
Bounded == \E top \in Nat : \A b \in Buckets : \A s \in bucket[b] : s <= top

\* A request is decided once.
DecidedWhenDone == \A r \in Requests : pc[r] # "done" => decision[r] = "none"

CapInv == TypeOK /\ PastOnly /\ Bounded /\ DecidedWhenDone /\ Covered /\ SlidingCap

------------------------------------------------------------------------------
\* A bounded set of naturals that has a member has a greatest one.
LEMMA MaxExists ==
    ASSUME NEW T, T \subseteq Nat, T # {}, NEW top \in Nat, \A s \in T : s <= top
    PROVE  Max(T) \in T /\ \A s \in T : s <= Max(T)
<1> DEFINE less == {p \in Nat \X Nat : p[1] < p[2]}
           gaps == {top - s : s \in T}
<1>1. IsWellFoundedOn(less, Nat)
  BY NatLessThanWellFounded DEF OpToRel
<1>2. gaps \subseteq Nat /\ gaps # {}
  <2>1. \A s \in T : top - s \in Nat
    OBVIOUS
  <2>2. \E s \in T : top - s \in gaps
    OBVIOUS
  <2> QED BY <2>1, <2>2
<1>3. PICK d \in gaps : \A y \in gaps : <<y, d>> \notin less
  BY <1>1, <1>2, WFMin
<1>4. PICK x \in T : d = top - x
  OBVIOUS
<1>5. ASSUME NEW s \in T PROVE s <= x
  <2>1. /\ top - s \in gaps /\ top - s \in Nat /\ d \in Nat /\ s \in Nat /\ x \in Nat
        /\ <<top - s, d>> \in Nat \X Nat
    BY <1>2
  <2>2. ~ (top - s < d)
    BY <1>3, <2>1
  <2> QED BY <1>4, <2>1, <2>2
<1> QED BY <1>4, <1>5 DEF Max

\* The buckets of a request are buckets, and the constants are what the code's
\* configuration is.
LEMMA ConfigTyped ==
    /\ \A r \in Requests : Counts(r) \subseteq Buckets
    /\ \A b \in Buckets : Limit[b] \in Nat /\ Window[b] \in Nat /\ Window[b] > 0
    /\ MaxWait \in Nat
BY ConfigAssumption DEF Counts, Buckets

\* The rows of a bucket are finitely many.
LEMMA FiniteRows ==
    ASSUME TypeOK, Bounded, NEW b \in Buckets, NEW X, X \subseteq bucket[b]
    PROVE  IsFiniteSet(X) /\ Cardinality(X) \in Nat
<1>1. PICK top \in Nat : \A s \in bucket[b] : s <= top
  BY DEF Bounded
<1>2. X \subseteq Nat
  BY DEF TypeOK
<1>3. IsFiniteSet(X)
  BY <1>1, <1>2, FS_BoundedSetOfNaturals
<1> QED BY <1>3, FS_CardinalityType

\* And so are the requests.
LEMMA FiniteRequests ==
    ASSUME NEW X, X \subseteq Requests
    PROVE  IsFiniteSet(X) /\ Cardinality(X) \in Nat
BY RequestsAssumption, FS_Subset, FS_CardinalityType

\* next_request_at gives a stamp that no row of the window has, not before the
\* reading, and the next after the newest if it is after the reading.
LEMMA NextAtIsNew ==
    ASSUME TypeOK, NEW r \in Requests, NEW b \in Buckets,
           NEW top \in Nat, \A s \in bucket[b] : s <= top
    PROVE  /\ NextAt(r, b) \in Nat /\ NextAt(r, b) >= now[r]
           /\ NextAt(r, b) \notin InWindow(r, b)
           /\ NextAt(r, b) <= top + 1 + now[r]
<1> DEFINE rows == InWindow(r, b)
<1>1. now[r] \in Nat /\ rows \subseteq Nat /\ rows \subseteq bucket[b]
  BY DEF TypeOK, InWindow
<1> HIDE DEF rows
<1>2. CASE \E s \in rows : s >= now[r]
  <2>1. Max(rows) \in rows /\ \A s \in rows : s <= Max(rows)
    <3>1. rows # {} /\ \A s \in rows : s <= top
      BY <1>1, <1>2
    <3> QED BY <1>1, <3>1, MaxExists
  <2>2. NextAt(r, b) = Max(rows) + 1
    BY <1>2 DEF NextAt, rows
  <2>3. Max(rows) \in Nat /\ Max(rows) <= top /\ Max(rows) >= now[r]
    <3>1. PICK s \in rows : s >= now[r]
      BY <1>2
    <3>2. Max(rows) \in Nat /\ s \in Nat /\ s <= Max(rows)
      BY <1>1, <2>1, <3>1
    <3> QED BY <1>1, <2>1, <3>1, <3>2
  <2>4. Max(rows) + 1 \notin rows
    BY <1>1, <2>1, <2>3
  <2> QED BY <1>1, <2>2, <2>3, <2>4 DEF rows
<1>3. CASE ~ \E s \in rows : s >= now[r]
  <2>1. NextAt(r, b) = now[r]
    BY <1>3 DEF NextAt, rows
  <2> QED BY <1>1, <1>3, <2>1 DEF rows
<1> QED BY <1>2, <1>3

\* The insert never meets a row of its own stamp.
LEMMA NeverCollides ==
    ASSUME TypeOK, Bounded, NEW r \in Requests
    PROVE  ~Collides(r)
<1>1. PICK top \in Nat : \A b \in Buckets : \A s \in bucket[b] : s <= top
  BY DEF Bounded
<1>2. \A b \in Counts(r) : NextAt(r, b) \notin InWindow(r, b)
  BY <1>1, NextAtIsNew, ConfigTyped
<1> QED BY <1>2 DEF Collides

\* Nothing is counted at first.
LEMMA CapInit == Init => CapInv
<1> SUFFICES ASSUME Init PROVE CapInv
  OBVIOUS
<1>1. TypeOK /\ PastOnly /\ Bounded /\ DecidedWhenDone
  BY DEF Init, TypeOK, PastOnly, Bounded, DecidedWhenDone, Decisions
<1>2. \A b \in Buckets : \A t \in Int :
         LetInSince(b, t) = {} /\ RowsSince(b, t - MaxWait) = {}
  BY DEF Init, LetInSince, RowsSince
<1>3. Covered
  BY <1>2, FS_EmptySet DEF Covered
<1>4. \A b \in Buckets : \A t, u \in Int : LetIn(b, t, u) = {}
  BY DEF Init, LetIn
<1>5. SlidingCap
  <2> SUFFICES ASSUME NEW b \in Buckets, NEW t \in 0..clock
               PROVE  Cardinality(LetIn(b, t, t + Window[b] - MaxWait - 1)) <= Limit[b]
    BY DEF SlidingCap
  <2>1. t \in Int /\ t + Window[b] - MaxWait - 1 \in Int
    BY <1>1, ConfigTyped DEF TypeOK
  <2>2. LetIn(b, t, t + Window[b] - MaxWait - 1) = {}
    BY <1>4, <2>1
  <2>3. Cardinality({}) = 0
    BY FS_EmptySet
  <2>4. Limit[b] \in Nat
    BY ConfigTyped
  <2> QED BY <2>2, <2>3, <2>4
<1> QED BY <1>1, <1>3, <1>5 DEF CapInv

------------------------------------------------------------------------------
(* A request that is let in.                                                 *)

\* What Allow changes: the row of each of the request's buckets is new, and
\* only rows before the window of its reading are gone.
LEMMA AllowedRows ==
    ASSUME CapInv, NEW r \in Requests, Allow(r), NEW b \in Counts(r)
    PROVE  /\ b \in Buckets /\ Cardinality(InWindow(r, b)) < Limit[b]
           /\ bucket'[b] = InWindow(r, b) \cup {NextAt(r, b)}
           /\ NextAt(r, b) \in Nat /\ NextAt(r, b) >= clock - MaxWait
           /\ NextAt(r, b) \notin InWindow(r, b)
           /\ \A s \in bucket[b] : s > clock - Window[b] => s \in InWindow(r, b)
<1>1. b \in Buckets /\ TypeOK /\ Bounded /\ PastOnly
  BY ConfigTyped DEF CapInv
<1>2. PICK top \in Nat : \A c \in Buckets : \A s \in bucket[c] : s <= top
  BY <1>1 DEF Bounded
<1>3. /\ NextAt(r, b) \in Nat /\ NextAt(r, b) >= now[r]
      /\ NextAt(r, b) \notin InWindow(r, b)
  BY <1>1, <1>2, NextAtIsNew
<1>4. ~Collides(r)
  BY <1>1, NeverCollides
<1>5. clock \in Nat /\ now[r] \in Nat /\ now[r] <= clock /\ MaxWait \in Nat
      /\ Window[b] \in Nat /\ Limit[b] \in Nat /\ bucket[b] \subseteq Nat
  BY <1>1, ConfigTyped DEF TypeOK, PastOnly
<1>6. clock <= now[r] + MaxWait /\ ~Full(r, b)
  BY DEF Allow, HasLock
<1>7. Cardinality(InWindow(r, b)) \in Nat
  BY <1>1, FiniteRows DEF InWindow
<1>8. bucket'[b] = InWindow(r, b) \cup {NextAt(r, b)}
  BY <1>1, <1>4 DEF Allow
<1>9. \A s \in bucket[b] : s > clock - Window[b] => s \in InWindow(r, b)
  BY <1>5 DEF InWindow
<1> QED BY <1>1, <1>3, <1>5, <1>6, <1>7, <1>8, <1>9 DEF Full

\* The types after it.
LEMMA AllowTypes ==
    ASSUME CapInv, NEW r \in Requests, Allow(r)
    PROVE  TypeOK' /\ PastOnly' /\ Bounded' /\ DecidedWhenDone'
<1>1. TypeOK /\ PastOnly /\ Bounded /\ DecidedWhenDone
  BY DEF CapInv
<1>2. \A b \in Counts(r) : b \in Buckets /\ NextAt(r, b) \in Nat
  BY AllowedRows
<1>3. bucket' \in [Buckets -> SUBSET Nat]
  BY <1>1, <1>2 DEF TypeOK, Allow, InWindow
<1>4. TypeOK'
  BY <1>1, <1>3 DEF TypeOK, Allow, Decide, Goto, Decisions
<1>5. PastOnly' /\ DecidedWhenDone'
  BY <1>1 DEF TypeOK, PastOnly, DecidedWhenDone, Allow, Decide, Goto
<1>6. PICK top \in Nat : \A b \in Buckets : \A s \in bucket[b] : s <= top
  BY <1>1 DEF Bounded
<1>7. now[r] \in Nat /\ top + 1 + now[r] \in Nat
  BY <1>1 DEF TypeOK
<1>8. ASSUME NEW b \in Buckets, NEW s \in bucket'[b] PROVE s <= top + 1 + now[r]
  <2>1. NextAt(r, b) <= top + 1 + now[r]
    BY <1>1, <1>6, NextAtIsNew
  <2>2. CASE s = NextAt(r, b)
    BY <2>1, <2>2
  <2>3. CASE s \in bucket[b]
    <3>1. s \in Nat /\ s <= top
      BY <1>1, <1>6, <2>3 DEF TypeOK
    <3> QED BY <1>7, <3>1
  <2>4. bucket'[b] \subseteq bucket[b] \cup {NextAt(r, b)}
    BY DEF Allow, InWindow
  <2> QED BY <1>8, <2>2, <2>3, <2>4
<1>9. Bounded'
  BY <1>7, <1>8 DEF Bounded
<1> QED BY <1>4, <1>5, <1>9

\* Who is let in after it: those before, and the request now.
LEMMA AllowLetsIn ==
    ASSUME CapInv, NEW r \in Requests, Allow(r), NEW b \in Buckets, NEW t \in Int
    PROVE  /\ LetInSince(b, t)' =
                 IF b \in Counts(r) /\ clock >= t THEN LetInSince(b, t) \cup {r}
                 ELSE LetInSince(b, t)
           /\ \A u \in Int : LetIn(b, t, u)' =
                 IF b \in Counts(r) /\ clock \in t..u THEN LetIn(b, t, u) \cup {r}
                 ELSE LetIn(b, t, u)
<1>1. /\ decision \in [Requests -> Decisions] /\ at \in [Requests -> Nat]
      /\ clock \in Nat /\ decision[r] = "none"
  BY DEF CapInv, TypeOK, DecidedWhenDone, Allow, HasLock
<1>2. /\ decision'[r] \in {"Allowed", "Collision"} /\ at'[r] = clock
      /\ \A q \in Requests \ {r} : decision'[q] = decision[q] /\ at'[q] = at[q]
  BY <1>1 DEF Allow, Decide
<1>3. \A q \in Requests : Counts(q)' = Counts(q)
  BY DEF Counts
<1> QED BY <1>1, <1>2 DEF LetInSince, LetIn, Counts

\* It adds a row that counts for it since every moment it counts since, and
\* takes none away there.
LEMMA AllowCovered ==
    ASSUME CapInv, NEW r \in Requests, Allow(r)
    PROVE  Covered'
<1> SUFFICES ASSUME NEW b \in Buckets, NEW t \in Int, t > clock - Window[b] + MaxWait
             PROVE  Cardinality(LetInSince(b, t)') <= Cardinality(RowsSince(b, t - MaxWait)')
  BY DEF Covered, Allow
<1> DEFINE old == RowsSince(b, t - MaxWait)
           new == RowsSince(b, t - MaxWait)'
           in  == LetInSince(b, t)
<1>1. /\ clock \in Nat /\ MaxWait \in Nat /\ Window[b] \in Nat
      /\ bucket \in [Buckets -> SUBSET Nat] /\ TypeOK /\ Bounded /\ TypeOK' /\ Bounded'
  BY ConfigTyped, AllowTypes DEF CapInv, TypeOK
<1>2. Cardinality(in) <= Cardinality(old)
  BY DEF CapInv, Covered
<1>3. IsFiniteSet(old) /\ Cardinality(old) \in Nat
  BY <1>1, FiniteRows DEF RowsSince
<1>4. /\ IsFiniteSet(in) /\ Cardinality(in) \in Nat
      /\ r \notin in
  BY FiniteRequests DEF LetInSince, CapInv, DecidedWhenDone, Allow, HasLock
<1>5. CASE b \notin Counts(r)
  <2>1. new = old
    BY <1>5 DEF RowsSince, Allow
  <2> QED BY <1>2, <1>5, <2>1, AllowLetsIn
<1>6. CASE b \in Counts(r)
  <2>1. /\ bucket'[b] = InWindow(r, b) \cup {NextAt(r, b)}
        /\ NextAt(r, b) \in Nat /\ NextAt(r, b) >= clock - MaxWait
        /\ NextAt(r, b) \notin InWindow(r, b)
        /\ \A s \in bucket[b] : s > clock - Window[b] => s \in InWindow(r, b)
    BY <1>6, AllowedRows
  <2>2. old \subseteq InWindow(r, b)
    <3> SUFFICES ASSUME NEW s \in bucket[b], s >= t - MaxWait PROVE s \in InWindow(r, b)
      BY DEF RowsSince
    <3>1. s \in Nat
      BY <1>1
    <3> QED BY <1>1, <2>1, <3>1
  <2>3. IsFiniteSet(new) /\ Cardinality(new) \in Nat
    <3>1. bucket'[b] \subseteq bucket[b] \cup {NextAt(r, b)}
      BY <2>1 DEF InWindow
    <3>2. IsFiniteSet(bucket[b] \cup {NextAt(r, b)})
      BY <1>1, FiniteRows, FS_AddElement
    <3> QED BY <3>1, <3>2, FS_Subset, FS_CardinalityType DEF RowsSince
  <2>4. old \subseteq new
    BY <2>1, <2>2 DEF RowsSince
  <2>5. CASE clock >= t
    <3>1. old \cup {NextAt(r, b)} \subseteq new /\ NextAt(r, b) \notin old
      <4>1. NextAt(r, b) >= t - MaxWait
        BY <1>1, <2>1, <2>5
      <4> QED BY <2>1, <2>2, <2>4, <4>1 DEF RowsSince
    <3>2. /\ Cardinality(old \cup {NextAt(r, b)}) = Cardinality(old) + 1
      BY <1>3, <3>1, FS_AddElement
    <3>3. Cardinality(old) + 1 <= Cardinality(new)
      BY <2>3, <3>1, <3>2, FS_Subset
    <3>4. LetInSince(b, t)' = in \cup {r}
      BY <1>6, <2>5, AllowLetsIn
    <3>5. Cardinality(in \cup {r}) = Cardinality(in) + 1
      BY <1>4, FS_AddElement
    <3> HIDE DEF old, new, in
    <3> QED BY <1>2, <1>3, <1>4, <2>3, <3>3, <3>4, <3>5 DEF new
  <2>6. CASE ~(clock >= t)
    <3>1. LetInSince(b, t)' = in
      BY <2>6, AllowLetsIn
    <3>2. Cardinality(old) <= Cardinality(new)
      BY <2>3, <2>4, FS_Subset
    <3> HIDE DEF old, new, in
    <3> QED BY <1>2, <1>3, <1>4, <2>3, <3>1, <3>2 DEF new
  <2> QED BY <2>5, <2>6
<1> QED BY <1>5, <1>6

\* It is let in only while fewer than the limit were, in every stretch it
\* falls into.
LEMMA AllowCapped ==
    ASSUME CapInv, NEW r \in Requests, Allow(r)
    PROVE  SlidingCap'
<1> SUFFICES ASSUME NEW b \in Buckets, NEW t \in 0..clock
             PROVE  Cardinality(LetIn(b, t, t + Window[b] - MaxWait - 1)') <= Limit[b]
  BY DEF SlidingCap, Allow
<1> DEFINE u == t + Window[b] - MaxWait - 1
           in == LetIn(b, t, u)
           rows == RowsSince(b, t - MaxWait)
<1>1. /\ clock \in Nat /\ MaxWait \in Nat /\ Window[b] \in Nat /\ Limit[b] \in Nat
      /\ t \in Int /\ u \in Int
      /\ bucket \in [Buckets -> SUBSET Nat] /\ TypeOK /\ Bounded
  BY ConfigTyped DEF CapInv, TypeOK
<1>2. Cardinality(in) <= Limit[b]
  BY DEF CapInv, SlidingCap
<1>3. CASE ~(b \in Counts(r) /\ clock \in t..u)
  BY <1>1, <1>2, <1>3, AllowLetsIn
<1>4. CASE b \in Counts(r) /\ clock \in t..u
  <2>1. LetIn(b, t, u)' = in \cup {r}
    BY <1>1, <1>4, AllowLetsIn
  <2>2. t > clock - Window[b] + MaxWait
    BY <1>1, <1>4
  <2>3. Cardinality(LetInSince(b, t)) <= Cardinality(rows)
    BY <1>1, <2>2 DEF CapInv, Covered
  <2>4. in \subseteq LetInSince(b, t)
    BY <1>1 DEF LetIn, LetInSince, CapInv, TypeOK
  <2>5. /\ Cardinality(in) <= Cardinality(LetInSince(b, t))
        /\ Cardinality(LetInSince(b, t)) \in Nat
        /\ IsFiniteSet(in) /\ Cardinality(in) \in Nat
    <3>1. IsFiniteSet(LetInSince(b, t)) /\ Cardinality(LetInSince(b, t)) \in Nat
      BY FiniteRequests DEF LetInSince
    <3> QED BY <2>4, <3>1, FS_Subset, FS_CardinalityType
  <2>6. rows \subseteq InWindow(r, b)
    <3> SUFFICES ASSUME NEW s \in bucket[b], s >= t - MaxWait PROVE s \in InWindow(r, b)
      BY DEF RowsSince
    <3>1. s \in Nat
      BY <1>1
    <3> QED BY <1>1, <1>4, <2>2, <3>1, AllowedRows
  <2>7. /\ IsFiniteSet(InWindow(r, b)) /\ Cardinality(InWindow(r, b)) \in Nat
        /\ Cardinality(InWindow(r, b)) < Limit[b]
    BY <1>1, <1>4, FiniteRows, AllowedRows DEF InWindow
  <2>8. Cardinality(rows) <= Cardinality(InWindow(r, b)) /\ Cardinality(rows) \in Nat
    BY <2>6, <2>7, FS_Subset, FS_CardinalityType
  <2>9. Cardinality(in \cup {r}) <= Cardinality(in) + 1
        /\ Cardinality(in \cup {r}) \in Nat
    <3> HIDE DEF in
    <3>1. /\ IsFiniteSet(in \cup {r})
          /\ Cardinality(in \cup {r}) = IF r \in in THEN Cardinality(in)
                                         ELSE Cardinality(in) + 1
      BY <2>5, FS_AddElement
    <3> QED BY <2>5, <3>1
  <2> HIDE DEF in, rows, u
  <2>10. Cardinality(LetIn(b, t, u)') <= Limit[b]
    BY <1>1, <2>1, <2>3, <2>5, <2>7, <2>8, <2>9
  <2> QED BY <2>10 DEF u
<1> QED BY <1>3, <1>4

------------------------------------------------------------------------------
(* Every step.                                                               *)

\* The steps that let nobody in and leave the table alone.
Uncounted(r) == Arrive(r) \/ Deny(r) \/ FailOpen(r) \/ Drop(r)

\* They change neither who was let in nor the rows.
LEMMA UncountedStep ==
    ASSUME CapInv, NEW r \in Requests, Uncounted(r)
    PROVE  CapInv'
<1>1. TypeOK /\ PastOnly /\ DecidedWhenDone /\ clock \in Nat
  BY DEF CapInv, TypeOK
<1>2. TypeOK' /\ PastOnly' /\ DecidedWhenDone'
  <2> USE DEF TypeOK, PastOnly, DecidedWhenDone, Goto, Decisions
  <2>1. CASE Arrive(r)
    BY <1>1, <2>1 DEF Arrive
  <2>2. CASE Deny(r)
    BY <1>1, <2>2 DEF Deny, Decide
  <2>3. CASE FailOpen(r)
    BY <1>1, <2>3 DEF FailOpen, Decide
  <2>4. CASE Drop(r)
    BY <1>1, <2>4 DEF Drop
  <2> QED BY <2>1, <2>2, <2>3, <2>4 DEF Uncounted
<1>3. UNCHANGED <<clock, bucket, at>>
  BY DEF Uncounted, Arrive, Deny, FailOpen, Drop
<1>4. \A q \in Requests : decision'[q] \in {"Allowed", "Collision"}
                          <=> decision[q] \in {"Allowed", "Collision"}
  <2>1. CASE Arrive(r) \/ Drop(r)
    BY <2>1 DEF Arrive, Drop
  <2>2. CASE Deny(r) \/ FailOpen(r)
    BY <1>1, <2>2 DEF Deny, FailOpen, Decide, Goto, DecidedWhenDone, TypeOK
  <2> QED BY <2>1, <2>2 DEF Uncounted
<1>5. /\ \A b \in Buckets : \A t \in Int :
            LetInSince(b, t)' = LetInSince(b, t) /\ RowsSince(b, t)' = RowsSince(b, t)
      /\ \A b \in Buckets : \A t, u \in Int : LetIn(b, t, u)' = LetIn(b, t, u)
  BY <1>3, <1>4 DEF LetInSince, RowsSince, LetIn, Counts
<1>6. Bounded'
  BY <1>3 DEF CapInv, Bounded
<1>7. Covered'
  BY <1>3, <1>5, ConfigTyped DEF CapInv, Covered
<1>8. SlidingCap'
  <2> SUFFICES ASSUME NEW b \in Buckets, NEW t \in 0..clock
               PROVE  Cardinality(LetIn(b, t, t + Window[b] - MaxWait - 1)') <= Limit[b]
    BY <1>3 DEF SlidingCap
  <2>1. t \in Int /\ t + Window[b] - MaxWait - 1 \in Int
    BY <1>1, ConfigTyped
  <2> QED BY <1>5, <2>1 DEF CapInv, SlidingCap
<1> QED BY <1>2, <1>6, <1>7, <1>8 DEF CapInv

\* As time goes on the stretches to be covered get shorter, and nobody was let
\* in at a moment to come.
LEMMA TickStep == ASSUME CapInv, Tick PROVE CapInv'
<1>1. /\ TypeOK /\ PastOnly /\ clock \in Nat /\ clock' = clock + 1
      /\ UNCHANGED <<bucket, pc, now, decision, at>>
  BY DEF CapInv, TypeOK, Tick
<1>2. TypeOK' /\ DecidedWhenDone' /\ Bounded'
  BY <1>1 DEF CapInv, TypeOK, DecidedWhenDone, Bounded
<1>3. /\ \A b \in Buckets : \A t \in Int :
            LetInSince(b, t)' = LetInSince(b, t) /\ RowsSince(b, t)' = RowsSince(b, t)
      /\ \A b \in Buckets : \A t, u \in Int : LetIn(b, t, u)' = LetIn(b, t, u)
  BY <1>1 DEF LetInSince, RowsSince, LetIn, Counts
<1>4. Covered'
  BY <1>1, <1>3, ConfigTyped DEF CapInv, Covered
<1>5. SlidingCap'
  <2> SUFFICES ASSUME NEW b \in Buckets, NEW t \in 0..clock'
               PROVE  Cardinality(LetIn(b, t, t + Window[b] - MaxWait - 1)') <= Limit[b]
    BY DEF SlidingCap
  <2> DEFINE u == t + Window[b] - MaxWait - 1
  <2>1. t \in Int /\ u \in Int /\ Limit[b] \in Nat
    BY <1>1, ConfigTyped
  <2>2. CASE t \in 0..clock
    BY <1>3, <2>1, <2>2 DEF CapInv, SlidingCap
  <2>3. CASE t = clock + 1
    <3>1. \A q \in Requests : at[q] \in Nat /\ at[q] <= clock
      BY <1>1 DEF TypeOK, PastOnly
    <3>2. LetIn(b, t, u) = {}
      BY <1>1, <2>1, <2>3, <3>1 DEF LetIn
    <3>3. Cardinality({}) = 0
      BY FS_EmptySet
    <3>4. LetIn(b, t, u)' = LetIn(b, t, u)
      BY <1>3, <2>1
    <3> HIDE DEF u
    <3>5. Cardinality(LetIn(b, t, u)') <= Limit[b]
      BY <2>1, <3>2, <3>3, <3>4
    <3> QED BY <3>5 DEF u
  <2> QED BY <1>1, <2>2, <2>3
<1>6. PastOnly'
  <2>1. \A r \in Requests : now[r] \in Nat /\ at[r] \in Nat
                          /\ now[r] <= clock /\ at[r] <= clock
    BY <1>1 DEF TypeOK, PastOnly
  <2> QED BY <1>1, <2>1 DEF PastOnly
<1> QED BY <1>2, <1>4, <1>5, <1>6 DEF CapInv

\* Every step keeps the invariant.
LEMMA CapStep == CapInv /\ [Next]_vars => CapInv'
<1> SUFFICES ASSUME CapInv, [Next]_vars PROVE CapInv'
  OBVIOUS
<1>1. CASE Tick
  BY <1>1, TickStep
<1>2. ASSUME NEW r \in Requests, Allow(r) PROVE CapInv'
  BY <1>2, AllowTypes, AllowCovered, AllowCapped DEF CapInv
<1>3. ASSUME NEW r \in Requests, Uncounted(r) PROVE CapInv'
  BY <1>3, UncountedStep
<1>4. CASE UNCHANGED vars
  BY <1>4 DEF vars, CapInv, TypeOK, PastOnly, Bounded, DecidedWhenDone, Covered,
              SlidingCap, LetInSince, RowsSince, LetIn, Counts
<1> QED BY <1>1, <1>2, <1>3, <1>4 DEF Next, Check, Uncounted

\* The invariant holds throughout.
LEMMA CapsKept == Spec => []CapInv
BY CapInit, CapStep, PTL DEF Spec

\* The table of the limiter and its requests keep their types.
THEOREM TypeCorrect == Spec => []TypeOK
<1>1. CapInv => TypeOK
  BY DEF CapInv
<1> QED BY <1>1, CapsKept, PTL

\* In no stretch shorter than the window by the longest wait are more requests
\* let in than the limit.
THEOREM CapHolds == Spec => []SlidingCap
<1>1. CapInv => SlidingCap
  BY DEF CapInv
<1> QED BY <1>1, CapsKept, PTL

\* No request goes through because its row could not be inserted.
THEOREM NoneUncounted == Spec => [](\A r \in Requests : ~Collides(r))
<1>1. CapInv => \A r \in Requests : ~Collides(r)
  BY NeverCollides DEF CapInv
<1> QED BY <1>1, CapsKept, PTL

===============================================================================
