----------------------------- MODULE MCJobQueue ------------------------------
(* Instances of JobQueue: the relay alone, or two relays on one Redis.         *)
EXTENDS JobQueue

CONSTANTS w1, w2

OneWorker == {w1}
TwoWorkers == {w1, w2}
LastMalformed == {NJobs}
==============================================================================
