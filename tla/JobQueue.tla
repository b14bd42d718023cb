------------------------------- MODULE JobQueue -------------------------------
(***************************************************************************)
(* The job queue of the workers crate: run_worker, requeue_orphaned_jobs   *)
(* and poll_once of scenario.rs (deep_forecast.rs and simulation.rs repeat *)
(* them around a driver) over two Redis lists and the result rows.         *)
(*                                                                         *)
(* Every Redis command is one HTTP request: it is executed and answered,   *)
(* or it fails for the worker, and then it was executed or it was not.     *)
(* Each worker is the loop of one process with the Upstash credentials.    *)
(***************************************************************************)
EXTENDS Integers, Sequences, FiniteSets, SequencesExt

CONSTANTS
    Workers,     \* processes that run the loop
    NJobs,       \* jobs are numbered in the order they are pushed
    Malformed,   \* the jobs that do not parse or do not validate
    MaxFaults,   \* bound: failed requests, dead processes, results outlived
    NoJob

Jobs == 1..NJobs

ASSUME JobsAssumption ==
    NJobs \in Nat /\ Malformed \subseteq Jobs /\ MaxFaults \in Nat /\ NoJob \notin Jobs

VARIABLES
    sent,        \* how many jobs were pushed
    queue,       \* QUEUE_KEY
    processing,  \* PROCESSING_KEY
    row,         \* scenario-result:<job_id>: its status
    pc,
    job,         \* what each worker dequeued
    faults,
    written,     \* history: jobs whose row was written at least once
    failing      \* history: jobs whose computation failed

lists == <<sent, queue, processing>>
history == <<written, failing>>
vars == <<lists, row, pc, job, faults, history>>

Init ==
    /\ sent = 0
    /\ queue = <<>> /\ processing = <<>>
    /\ row = [j \in Jobs |-> "none"]
    /\ pc = [w \in Workers |-> "down"]
    /\ job = [w \in Workers |-> NoJob]
    /\ faults = 0
    /\ written = {} /\ failing = {}

Goto(w, from, to) == pc[w] = from /\ pc' = [pc EXCEPT ![w] = to]
Put(w, j) == job' = [job EXCEPT ![w] = j]
Fault == faults < MaxFaults /\ faults' = faults + 1

\* SETEX of the row of w's job.
SetRow(w, status) ==
    /\ row' = [row EXCEPT ![job[w]] = status]
    /\ written' = written \cup {job[w]}
    /\ UNCHANGED failing

\* What a failed SETEX leaves.
MaybeSetRow(w, status) == SetRow(w, status) \/ UNCHANGED <<row, history>>

------------------------------------------------------------------------------
(* run_worker starts: requeue_orphaned_jobs.                                 *)

Start(w) ==
    /\ Goto(w, "down", "drain")
    /\ UNCHANGED <<lists, row, job, faults, history>>

\* LMOVE processing queue RIGHT LEFT
Requeued_FromLeft == /\ queue' = <<Head(processing)>> \o queue
                     /\ processing' = Tail(processing)
Requeued == /\ queue' = <<Last(processing)>> \o queue
            /\ processing' = Front(processing)

Requeue(w) ==
    /\ pc[w] = "drain" /\ processing # <<>>
    /\ Requeued
    /\ UNCHANGED <<sent, row, pc, job, faults, history>>

Drained(w) ==
    /\ Goto(w, "drain", "poll") /\ processing = <<>>
    /\ UNCHANGED <<lists, row, job, faults, history>>

\* The ? of run_worker: a failed LMOVE ends the loop before it began.
DrainError(w) ==
    /\ Goto(w, "drain", "exited")
    /\ Fault
    /\ (processing # <<>> /\ Requeued) \/ UNCHANGED <<queue, processing>>
    /\ UNCHANGED <<sent, row, job, history>>

------------------------------------------------------------------------------
(* poll_once.                                                                *)

\* BLMOVE queue processing LEFT RIGHT
Claimed_SameList == queue' = Append(Tail(queue), Head(queue)) /\ UNCHANGED processing
Claimed == queue' = Tail(queue) /\ processing' = Append(processing, Head(queue))

Poll(w) ==
    /\ queue # <<>>
    /\ Goto(w, "poll", IF Head(queue) \in Malformed THEN "discard" ELSE "check")
    /\ Claimed
    /\ Put(w, Head(queue))
    /\ UNCHANGED <<sent, row, faults, history>>

\* The job was moved and the answer lost: nobody works on it.
PollError(w) ==
    /\ pc[w] = "poll" /\ queue # <<>>
    /\ Fault
    /\ Claimed
    /\ UNCHANGED <<sent, row, pc, job, history>>

\* LREM processing 1 raw
Removed(w) == processing' = RemoveFirst(processing, job[w])

\* Both exits that drop a job: the request's failure is ignored.
Drop(w, from) ==
    /\ Goto(w, from, "poll") /\ Put(w, NoJob)
    /\ \/ Removed(w) /\ UNCHANGED faults
       \/ Fault /\ UNCHANGED processing
    /\ UNCHANGED <<sent, queue, row, history>>

Discard(w) == Drop(w, "discard")
Acknowledge(w) == Drop(w, "ack")

\* GET of the row: any status counts as already processed.
Skips(w) == row[job[w]] # "none"

CheckRow(w) ==
    /\ Goto(w, "check", IF Skips(w) THEN "ack" ELSE "claim")
    /\ UNCHANGED <<lists, row, job, faults, history>>

\* A failed GET counts as no row.
CheckError(w) ==
    /\ Goto(w, "check", "claim")
    /\ Fault
    /\ UNCHANGED <<lists, row, job, history>>

MarkProcessing(w) ==
    /\ Goto(w, "claim", "compute")
    /\ SetRow(w, "processing")
    /\ UNCHANGED <<lists, job, faults>>

MarkError(w) ==
    /\ Goto(w, "claim", "compute")
    /\ Fault
    /\ UNCHANGED <<lists, row, job, history>>

Compute(w) ==
    /\ Goto(w, "compute", "done")
    /\ UNCHANGED <<lists, row, job, faults, history>>

ComputeError(w) ==
    /\ Goto(w, "compute", "failed")
    /\ failing' = failing \cup {job[w]}
    /\ UNCHANGED <<lists, row, job, faults, written>>

WriteDone(w) ==
    /\ Goto(w, "done", "ack")
    /\ SetRow(w, "done")
    /\ UNCHANGED <<lists, job, faults>>

\* The ? of the done write: the job stays on the processing list.
DoneError_Ignored(w) ==
    /\ Goto(w, "done", "ack")
    /\ Fault
    /\ MaybeSetRow(w, "done")
    /\ UNCHANGED <<lists, job>>
DoneError(w) ==
    /\ Goto(w, "done", "poll") /\ Put(w, NoJob)
    /\ Fault
    /\ MaybeSetRow(w, "done")
    /\ UNCHANGED lists

WriteFailed(w) ==
    /\ Goto(w, "failed", "ack")
    /\ SetRow(w, "failed")
    /\ UNCHANGED <<lists, job, faults>>

FailedError(w) ==
    /\ Goto(w, "failed", "ack")
    /\ Fault
    /\ UNCHANGED <<lists, row, job, history>>

------------------------------------------------------------------------------

\* The process dies, or the relay shuts down and aborts the task.
Die(w) ==
    /\ pc[w] # "down"
    /\ pc' = [pc EXCEPT ![w] = "down"]
    /\ Put(w, NoJob)
    /\ Fault
    /\ UNCHANGED <<lists, row, history>>

\* Whoever asks for a scenario pushes a job of its own id at the tail.
Enqueue ==
    /\ sent < NJobs
    /\ sent' = sent + 1
    /\ queue' = Append(queue, sent')
    /\ UNCHANGED <<processing, row, pc, job, faults, history>>

\* RESULT_TTL_SECONDS are over.
Expire(j) ==
    /\ row[j] # "none"
    /\ row' = [row EXCEPT ![j] = "none"]
    /\ Fault
    /\ UNCHANGED <<lists, pc, job, history>>

Drain(w) == Requeue(w) \/ Drained(w) \/ DrainError(w)
PollOnce(w) ==
    \/ Poll(w) \/ PollError(w) \/ Discard(w) \/ CheckRow(w) \/ CheckError(w)
    \/ MarkProcessing(w) \/ MarkError(w) \/ Compute(w) \/ ComputeError(w)
    \/ WriteDone(w) \/ DoneError(w) \/ WriteFailed(w) \/ FailedError(w)
    \/ Acknowledge(w)

Next ==
    \/ \E w \in Workers : Start(w) \/ Drain(w) \/ PollOnce(w) \/ Die(w)
    \/ Enqueue
    \/ \E j \in Jobs : Expire(j)

Spec == Init /\ [][Next]_vars

\* A loop that runs goes on: its sleeps and its requests end.  Nobody has to
\* start a process, to push a job or to let a result expire.
FairSpec == Spec /\ \A w \in Workers : WF_vars(Drain(w)) /\ WF_vars(PollOnce(w))

------------------------------------------------------------------------------
(* Properties.                                                               *)

Held(j) == \E w \in Workers : job[w] = j
Listed(j) == j \in ToSet(processing \o queue)
Increasing(s) == \A a, b \in DOMAIN s : a < b => s[a] < s[b]

\* First in, first out, through every crash and every requeue: the jobs under
\* way, followed by those that wait, stand in the order they were pushed, each
\* once.
InOrder == Increasing(processing \o queue)

\* A well-formed job leaves the lists only if its result row was written at
\* some time or its computation failed, whatever requests and processes fail.
NoSilentDrop ==
    \A j \in 1..sent \ Malformed : Listed(j) \/ j \in written \cup failing

\* The queue does not stall: once no worker is in its startup drain, a job at
\* rest on the queue is taken, unless every worker is down or has left its loop.
\* (A drain can put back for ever what the other workers take.)
EveryJobIsTaken ==
    <>[](\A w \in Workers : pc[w] # "drain") =>
        \A j \in Jobs : j \in ToSet(queue)
            ~> j \notin ToSet(queue) \/ \A w \in Workers : pc[w] \in {"down", "exited"}

(* Claims of the repository that the code does not keep.                     *)

\* The processing list is there "for orphan recovery" (scenario.rs): a row says
\* "processing" only while its job is on a list or in a worker's hands, unless
\* its computation failed and the row could not be told so. In the code a job
\* whose worker died after it had marked the row is requeued, found to be
\* "already processed" by that mark and dropped, its row left at processing.
OrphansAreRecovered ==
    \A j \in Jobs \ failing : row[j] = "processing" => Listed(j) \/ Held(j)

==============================================================================
