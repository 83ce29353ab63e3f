----------------------------- MODULE QuickBench -----------------------------
(***************************************************************************)
(* quick_bench.py: build the server, start it, load it through two thread  *)
(* pools, one after the other, save the rates and stop the server.         *)
(*                                                                         *)
(* The main thread submits jobs and counts the results that as_completed   *)
(* yields; the workers take the jobs from a queue.  A KeyboardInterrupt    *)
(* reaches the main thread only, and a bare "except:" swallows it.  Leaving*)
(* the "with" block of a pool waits for all of its jobs.                   *)
(***************************************************************************)
EXTENDS LocalServer, LatencyStats

CONSTANTS
    SingleCount, SingleWorkers,         \* benchmark_single_parallel
    BatchItems, BatchLen, BatchWorkers, \* benchmark_batch_parallel
    StartAttempts,                      \* polls of /metrics in start_server
    MaxInterrupts                       \* bound: interrupts of one script

ASSUME QuickAssumption ==
    /\ SingleCount \in Nat /\ SingleWorkers \in Nat \ {0}
    /\ BatchItems \in Nat /\ BatchLen \in Nat \ {0} /\ BatchWorkers \in Nat \ {0}
    /\ StartAttempts \in Nat \ {0} /\ MaxInterrupts \in Nat

VARIABLES
    qpc,            \* the main thread's label
    attempts,       \* polls of /metrics that are left
    kind,           \* the current benchmark
    pool,           \* the states of the jobs submitted to its executor
    tally,          \* BenchmarkMetrics and total_success
    stored,         \* history: items of the benchmark that a server stored
    rates,          \* by benchmark that ended: the items its rate counts
    qsaved,         \* results.json: "old" (of an earlier run), "torn" or "new"
    qexit,          \* the exit code, or the one an exception will lead to
    qinterrupts     \* history: the labels at which main was interrupted

poolVars == <<kind, pool, tally, stored, rates>>
quickVars == <<qpc, attempts, poolVars, qsaved, qexit, qinterrupts>>

Kinds == {"single", "batch"}
Jobs(k) == IF k = "single" THEN SingleCount ELSE NumBatches(BatchItems, BatchLen)
Workers(k) == IF k = "single" THEN SingleWorkers ELSE BatchWorkers
Items(k) == IF k = "single" THEN 1 ELSE BatchLen

NoTally == [success |-> 0, errors |-> 0, items |-> 0]

(* label is "build", or "off" if the script is not run.                    *)
QuickInit(label) ==
    /\ qpc = label /\ attempts = StartAttempts
    /\ kind = "single" /\ pool = <<>> /\ tally = NoTally /\ stored = 0
    /\ rates = <<>>
    /\ qsaved = "old" /\ qexit = 0 /\ qinterrupts = {}

Main(from, to) == qpc = from /\ qpc' = to

BuildServer ==
    /\ \/ Main("build", "popen") /\ UNCHANGED qexit
       \/ Main("build", "exit") /\ qexit' = 1
    /\ UNCHANGED <<attempts, poolVars, qsaved, qinterrupts, serverVars>>

(* start_server: Popen, which may raise, and a sleep of 2 s.               *)
StartServer ==
    /\ \/ Main("popen", "poll") /\ Popen /\ UNCHANGED qexit
       \/ Main("popen", "exit") /\ UNCHANGED serverVars /\ qexit' = 1
    /\ UNCHANGED <<attempts, poolVars, qsaved, qinterrupts>>

(* Mutant: a poll without an answer is not one of the five.                *)
PollAgain == attempts

NextAttempt == attempts - 1

(* Whoever listens on the port may answer.                                 *)
PollMetrics ==
    /\ attempts > 0
    /\ \E answer \in Answers : Main("poll", IF answer = "success" THEN "session" ELSE "poll")
    /\ attempts' = NextAttempt
    /\ UNCHANGED <<poolVars, qsaved, qexit, qinterrupts, serverVars>>

(* Mutant: the process that does not answer is left alone.                 *)
GiveUpQuietly == UNCHANGED serverVars

(* proc.kill() at the end of start_server.                                 *)
GiveUp == Kill

StartFails ==
    /\ Main("poll", "exit") /\ attempts = 0
    /\ GiveUp
    /\ qexit' = 1
    /\ UNCHANGED <<attempts, poolVars, qsaved, qinterrupts>>

InitSession ==
    /\ Main("session", "submit")
    /\ UNCHANGED <<attempts, poolVars, qsaved, qexit, qinterrupts, serverVars>>

-----------------------------------------------------------------------------
(* The jobs of a pool are queued, running, ok, failed or counted.          *)
InState(states) == {i \in DOMAIN pool : pool[i] \in states}
Busy == InState({"queued", "running"}) # {}

JobsToSubmit == Len(pool) < Jobs(kind)

SubmitJob ==
    /\ Main("submit", "submit") /\ JobsToSubmit
    /\ pool' = Append(pool, "queued")
    /\ UNCHANGED <<attempts, kind, tally, stored, rates, qsaved, qexit, qinterrupts, serverVars>>

AllSubmitted ==
    /\ Main("submit", "collect") /\ ~JobsToSubmit
    /\ UNCHANGED <<attempts, poolVars, qsaved, qexit, qinterrupts, serverVars>>

(* A worker takes the job at the head of the queue.                        *)
RunJob ==
    /\ Cardinality(InState({"running"})) < Workers(kind)
    /\ \E i \in InState({"queued"}) :
          /\ \A j \in InState({"queued"}) : i <= j
          /\ pool' = [pool EXCEPT ![i] = "running"]
    /\ UNCHANGED <<qpc, attempts, kind, tally, stored, rates, qsaved, qexit, qinterrupts, serverVars>>

(* Mutant: an answer counts, whatever its status.                          *)
AnyAnswerOk(answer) == answer # "none"

(* resp.status_code == 201                                                 *)
AnswerOk(answer) == answer = "success"

(* single_put_request or batch_put_request ends.                           *)
EndJob ==
    /\ \E i \in InState({"running"}), answer \in Answers :
          /\ pool' = [pool EXCEPT ![i] = IF AnswerOk(answer) THEN "ok" ELSE "failed"]
          /\ \E done \in CarriedOut(answer) :
                stored' = IF done THEN stored + Items(kind) ELSE stored
    /\ UNCHANGED <<qpc, attempts, kind, tally, rates, qsaved, qexit, qinterrupts, serverVars>>

(* metrics.add_success or metrics.add_error                                *)
AddResult(state) ==
    IF state = "ok" THEN [tally EXCEPT !.success = @ + 1, !.items = @ + Items(kind)]
                    ELSE [tally EXCEPT !.errors = @ + 1]

(* The next future that as_completed yields.                               *)
CountJob ==
    /\ Main("collect", "collect")
    /\ \E i \in InState({"ok", "failed"}) :
          /\ tally' = AddResult(pool[i])
          /\ pool' = [pool EXCEPT ![i] = "counted"]
    /\ UNCHANGED <<attempts, kind, stored, rates, qsaved, qexit, qinterrupts, serverVars>>

AllCounted ==
    /\ Main("collect", "leave")
    /\ InState({"counted"}) = 1..Jobs(kind)
    /\ UNCHANGED <<attempts, poolVars, qsaved, qexit, qinterrupts, serverVars>>

(* Mutant: executor.shutdown(wait=False).                                  *)
NoShutdown == TRUE

(* executor.shutdown(wait=True)                                            *)
Shutdown == ~Busy

(* The end of a benchmark: its rate is printed, and the next one begins.   *)
LeavePool ==
    /\ Shutdown /\ qexit = 0
    /\ rates' = Append(rates, tally.items)
    /\ \/ /\ kind = "single" /\ Main("leave", "submit")
          /\ kind' = "batch" /\ pool' = <<>> /\ tally' = NoTally /\ stored' = 0
       \/ /\ kind = "batch" /\ Main("leave", "save")
          /\ UNCHANGED <<kind, pool, tally, stored>>
    /\ UNCHANGED <<attempts, qsaved, qexit, qinterrupts, serverVars>>

(* Mutant: what has been measured so far is saved.                         *)
ToSave == Main("leave", "save")

(* An exception leads to main's finally block.                             *)
ToFinally == Main("leave", "terminate")

LeavePoolInterrupted ==
    /\ ToFinally /\ Shutdown /\ qexit = 1
    /\ UNCHANGED <<attempts, poolVars, qsaved, qexit, qinterrupts, serverVars>>

SaveResults ==
    /\ Main("save", "terminate")
    /\ qsaved' = "new"
    /\ UNCHANGED <<attempts, poolVars, qexit, qinterrupts, serverVars>>

(* What results.json may be when save_results does not return: open has    *)
(* truncated it or not, json.dump has written it or not.                   *)
SaveOutcomes == {qsaved, "torn", "new"}

(* open, json.dump or print raises; the handler at the end of the script   *)
(* exits with 1.                                                           *)
SaveFails ==
    /\ Main("save", "terminate")
    /\ qsaved' \in SaveOutcomes /\ qexit' = 1
    /\ UNCHANGED <<attempts, poolVars, qinterrupts, serverVars>>

-----------------------------------------------------------------------------
(* main's finally block: terminate, wait, and kill if the wait fails.      *)
TerminateServer ==
    /\ Main("terminate", "wait")
    /\ Terminate
    /\ UNCHANGED <<attempts, poolVars, qsaved, qexit, qinterrupts>>

(* The wait times out after 5 s, or an interrupt ends it.                  *)
WaitServer ==
    /\ (Main("wait", "exit") /\ Ended) \/ Main("wait", "kill")
    /\ UNCHANGED <<attempts, poolVars, qsaved, qexit, qinterrupts, serverVars>>

(* Mutant: "except: pass" after the wait.                                  *)
WaitedEnough == UNCHANGED serverVars

(* server_proc.kill()                                                      *)
ForceEnd == Kill

KillServer ==
    /\ Main("kill", "exit")
    /\ ForceEnd
    /\ UNCHANGED <<attempts, poolVars, qsaved, qexit, qinterrupts>>

(* Labels with main's try block around them and a pool's "with" inside it. *)
PoolLabels == {"submit", "collect"}

(* Labels at which an interrupt leaves the server alone: before main's try *)
(* block, and in its finally block before terminate.                       *)
Window == {"popen", "poll", "session", "terminate"}

(* With the ones at which the server has been sent SIGTERM only.           *)
KillWindow == Window \cup {"kill"}

(* KeyboardInterrupt.  In the pool it waits for the jobs, at "leave" it    *)
(* ends this wait; during server_proc.wait it is swallowed (WaitServer).   *)
QuickInterrupt ==
    /\ Cardinality(qinterrupts) < MaxInterrupts
    /\ qpc \notin {"off", "wait", "exit"} \cup qinterrupts
    /\ qinterrupts' = qinterrupts \cup {qpc}
    /\ qpc' = CASE qpc \in PoolLabels         -> "leave"
                [] qpc \in {"leave", "save"}  -> "terminate"
                [] OTHER                      -> "exit"
    /\ qexit' = 1
    /\ qsaved' \in IF qpc = "save" THEN SaveOutcomes ELSE {qsaved}
    /\ \/ qpc = "popen" /\ Popen
       \/ qpc = "terminate" /\ Terminate
       \/ UNCHANGED serverVars
    /\ UNCHANGED <<attempts, poolVars>>

MainStep ==
    \/ BuildServer \/ StartServer \/ PollMetrics \/ StartFails \/ InitSession
    \/ SubmitJob \/ AllSubmitted \/ CountJob \/ AllCounted
    \/ LeavePool \/ LeavePoolInterrupted \/ SaveResults \/ SaveFails
    \/ TerminateServer \/ WaitServer \/ KillServer

WorkerStep == RunJob \/ EndJob

QuickNext == MainStep \/ WorkerStep \/ QuickInterrupt

(* Requests and the wait have timeouts, go build is assumed to end, and    *)
(* the interpreter runs every thread.                                      *)
QuickFairness ==
    /\ WF_<<quickVars, serverVars>>(MainStep)
    /\ WF_<<quickVars, serverVars>>(WorkerStep)

-----------------------------------------------------------------------------
JobStates == {"queued", "running", "ok", "failed", "counted"}
QuickLabels == {"off", "build", "popen", "poll", "session", "submit", "collect",
                "leave", "save", "terminate", "wait", "kill", "exit"}

(* Nothing is lost between the workers and the metrics: every counted job  *)
(* is a success or an error, a success is one that a server carried out,   *)
(* and a rate is made of all jobs of its benchmark.                        *)
QuickCountsHold ==
    /\ tally.success + tally.errors = Cardinality(InState({"counted"}))
    /\ tally.items + Items(kind) * Cardinality(InState({"ok"})) <= stored
    /\ Len(rates) = 2 => rates[2] = tally.items /\ InState({"counted"}) = 1..Jobs(kind)

(* The server is stopped when no request is on its way to it any more,     *)
(* unless main was interrupted while it waited for the workers.            *)
DrainedBeforeStop ==
    qpc \in {"terminate", "wait", "kill", "exit"} /\ Busy => "leave" \in qinterrupts

(* results.json is replaced only by the rates of both benchmarks, and exit *)
(* code 0 means that it was; a file that save_results has left truncated   *)
(* comes with exit code 1.                                                 *)
QuickResultsComplete ==
    /\ qsaved = "new" => Len(rates) = 2
    /\ qsaved = "torn" => qexit = 1
    /\ qpc = "exit" /\ qexit = 0 => qsaved = "new"

=============================================================================
