------------------------- MODULE LocalScriptsProofs -------------------------
(***************************************************************************)
(* The invariants of quick_bench.py and profile_server.py, for every       *)
(* number of jobs, workers, polls, requests and interrupts.                *)
(***************************************************************************)
EXTENDS LocalScripts, FiniteSetTheorems, TLAPS

(* Only one of the scripts is run.                                         *)
OneScript == qpc = "off" \/ ppc = "off"

(* What profile_server.py knows of its server at each label: there is no   *)
(* process before Popen, and after terminate it has been told to end.      *)
ProfileServerKnown ==
    /\ ppc \in ProfileLabels
    /\ ppc \in {"build", "popen"} => proc = "none"
    /\ ppc = "wait" => ~Left
    /\ ppc = "exit" /\ Left => pinterrupts \cap ProfileWindow # {}

(* How profile_server.py comes to its exit code.                           *)
ProfileOutcome ==
    /\ ppc = "analyze" => Captured
    /\ pexit = 0 /\ ppc \in {"terminate", "wait", "exit"} => Captured
    /\ pexit = 0 /\ ppc = "exit" => Ended

(* An interrupt is never forgotten, and without pprof no profile arrives.  *)
ProfileHonest ==
    /\ pexit = 0 => pinterrupts = {}
    /\ EnablePprof \/ profiles.saved = {}

ProfileLoad ==
    /\ load \in [i : Nat, success : Nat] /\ carried \in Nat
    /\ LoadCountsHold

(* The same for quick_bench.py.                                            *)
QuickServerKnown ==
    /\ qpc \in QuickLabels
    /\ qpc \in {"build", "popen"} => proc = "none"
    /\ qpc \in {"wait", "kill"} => ~Left
    /\ qpc = "exit" /\ Left => qinterrupts \cap Window # {}
    /\ qpc = "exit" /\ proc = "terminated" => qinterrupts \cap KillWindow # {}

(* The benchmarks come one after the other, and results.json last.         *)
QuickOutcome ==
    /\ rates \in Seq(Nat) /\ kind \in Kinds
    /\ qpc \in {"off", "build", "popen", "poll", "session"} => kind = "single"
    /\ kind = "single" => rates = <<>>
    /\ kind = "batch" => Len(rates) \in {1, 2}
    /\ kind = "batch" /\ qpc \in {"submit", "collect", "leave"} => Len(rates) = 1
    /\ qpc = "save" => Len(rates) = 2
    /\ qsaved = "new" => Len(rates) = 2 /\ qpc \in {"terminate", "wait", "kill", "exit"}
    /\ qsaved = "torn" => qexit = 1
    /\ qpc \in {"terminate", "wait", "kill", "exit"} /\ qexit = 0 => qsaved = "new"

(* No job outlives its pool.                                               *)
QuickDrained ==
    /\ qpc \in {"off", "build", "popen", "poll", "session"} => pool = <<>>
    /\ qpc = "save" => ~Busy
    /\ DrainedBeforeStop

(* The counting of a benchmark.                                            *)
QuickCounts ==
    /\ pool \in Seq(JobStates)
    /\ tally \in [success : Nat, errors : Nat, items : Nat] /\ stored \in Nat
    /\ Len(pool) <= Jobs(kind)
    /\ qpc = "leave" /\ qexit = 0 => InState({"counted"}) = 1..Jobs(kind)
    /\ Len(rates) = 2 => qpc \in {"save", "terminate", "wait", "kill", "exit"}
    /\ QuickCountsHold

ScriptsInv ==
    /\ OneScript
    /\ ProfileServerKnown /\ ProfileOutcome /\ ProfileHonest /\ ProfileLoad
    /\ QuickServerKnown /\ QuickOutcome /\ QuickDrained /\ QuickCounts
-----------------------------------------------------------------------------
(* Of a script that is not run nothing moves but, to the letter of the     *)
(* model, its workers, and they leave the server alone.                    *)
LEMMA QuickOffWorks == QuickNext /\ qpc = "off" => WorkerStep
BY DEF QuickNext, MainStep, QuickInterrupt, BuildServer, StartServer, PollMetrics,
   StartFails, InitSession, SubmitJob, AllSubmitted, CountJob, AllCounted, LeavePool,
   LeavePoolInterrupted, ToFinally, SaveResults, SaveFails, TerminateServer, WaitServer,
   KillServer, Main

LEMMA ProfileOffRests == ProfileNext => ppc # "off"
BY DEF ProfileNext, ProfileStep, ProfileInterrupt, BuildProfiled, StartProfiled,
   CheckAlive, LoadRequest, LoopEnds, NextLoop, CaptureProfile, CaptureFails,
   CaptureTimesOut, CaptureEnds, AnalyzeProfiles, TerminateProfiled, WaitProfiled, Go

LEMMA OneScriptStep == OneScript /\ [Next]_vars => OneScript'
<1> SUFFICES ASSUME OneScript, [Next]_vars PROVE OneScript'
  OBVIOUS
<1>1. CASE QuickNext /\ UNCHANGED profileVars
  <2>1. CASE qpc = "off"
    <3>1. WorkerStep
      BY <1>1, <2>1, QuickOffWorks
    <3> QED
      BY <2>1, <3>1 DEF WorkerStep, RunJob, EndJob, OneScript
  <2>2. CASE ppc = "off"
    BY <1>1, <2>2 DEF OneScript, profileVars
  <2> QED
    BY <2>1, <2>2 DEF OneScript
<1>2. CASE ProfileNext /\ UNCHANGED quickVars
  <2>1. ppc # "off"
    BY <1>2, ProfileOffRests
  <2> QED
    BY <1>2, <2>1 DEF OneScript, quickVars
<1>3. CASE ServerNext /\ UNCHANGED <<quickVars, profileVars>>
  BY <1>3 DEF OneScript, quickVars, profileVars
<1>4. CASE UNCHANGED vars
  BY <1>4 DEF OneScript, vars, quickVars, profileVars
<1> QED
  BY <1>1, <1>2, <1>3, <1>4 DEF Next, Finished

(* A server process that has ended, or was told to, stays so, and before   *)
(* Popen there is none, whatever the processes do.                         *)
LEMMA ServerSteps ==
    ServerNext => /\ proc = "none" => proc' = "none"
                  /\ Left' => Left
                  /\ proc' = "terminated" => proc = "terminated"
                  /\ Ended => Ended'
BY DEF ServerNext, ServerListens, ServerEnds, StrangerListens, StrangerEnds, Left, Ended

LEMMA ProfileServerStep ==
    OneScript /\ ProfileServerKnown /\ [Next]_vars => ProfileServerKnown'
<1> SUFFICES ASSUME OneScript, ProfileServerKnown, [Next]_vars
             PROVE  ProfileServerKnown'
  OBVIOUS
<1>1. CASE QuickNext /\ UNCHANGED profileVars
  <2>1. CASE ppc = "off"
    BY <1>1, <2>1 DEF ProfileServerKnown, profileVars
  <2>2. CASE qpc = "off"
    <3>1. WorkerStep
      BY <1>1, <2>2, QuickOffWorks
    <3> QED
      BY <1>1, <3>1 DEF ProfileServerKnown, profileVars, WorkerStep, RunJob, EndJob,
         serverVars, Left
  <2> QED
    BY <2>1, <2>2 DEF OneScript
<1>2. CASE ProfileStep /\ UNCHANGED quickVars
  <2>1. CASE BuildProfiled
    BY <2>1 DEF ProfileServerKnown, ProfileLabels, BuildProfiled, Go, serverVars, Left
  <2>2. CASE StartProfiled
    BY <2>2 DEF ProfileServerKnown, ProfileLabels, ProfileTry, StartProfiled, Go, serverVars, Left
  <2>3. CASE CheckAlive
    BY <2>3 DEF ProfileServerKnown, ProfileLabels, ProfileTry, CheckAlive, KillUnready,
       Kill, Signal, Go, Left
  <2>4. CASE LoadRequest
    BY <2>4 DEF ProfileServerKnown, LoadRequest
  <2>5. CASE LoopEnds
    BY <2>5 DEF ProfileServerKnown, ProfileLabels, ProfileTry, LoopEnds, NextLoop, Go
  <2>6. CASE \E p \in ProfileNames : CaptureProfile(p)
    BY <2>6 DEF ProfileServerKnown, CaptureProfile
  <2>7. CASE CaptureFails \/ CaptureEnds \/ AnalyzeProfiles
    BY <2>7 DEF ProfileServerKnown, ProfileLabels, ProfileTry, CaptureFails, CaptureTimesOut, CaptureEnds,
       AnalyzeProfiles, Go
  <2>8. CASE TerminateProfiled
    BY <2>8 DEF ProfileServerKnown, ProfileLabels, TerminateProfiled, Terminate,
       Signal, Go, Left
  <2>9. CASE WaitProfiled
    BY <2>9 DEF ProfileServerKnown, ProfileLabels, WaitProfiled, Go, serverVars, Left
  <2> QED
    BY <1>2, <2>1, <2>2, <2>3, <2>4, <2>5, <2>6, <2>7, <2>8, <2>9 DEF ProfileStep
<1>3. CASE ProfileInterrupt /\ UNCHANGED quickVars
  <2>1. CASE ppc \in ProfileWindow
    BY <1>3, <2>1 DEF ProfileServerKnown, ProfileLabels, ProfileInterrupt, ProfileWindow, ProfileTry
  <2>2. CASE ppc \notin ProfileWindow
    BY <1>3, <2>2 DEF ProfileServerKnown, ProfileLabels, ProfileInterrupt, ProfileWindow, ProfileTry,
       serverVars, Left
  <2> QED
    BY <2>1, <2>2
<1>4. CASE ServerNext /\ UNCHANGED <<quickVars, profileVars>>
  BY <1>4, ServerSteps DEF ProfileServerKnown, profileVars
<1>5. CASE UNCHANGED vars
  BY <1>5 DEF ProfileServerKnown, vars, profileVars, serverVars, Left
<1> QED
  BY <1>1, <1>2, <1>3, <1>4, <1>5 DEF Next, ProfileNext, Finished
LEMMA ProfileOutcomeStep ==
    OneScript /\ ProfileOutcome /\ [Next]_vars => ProfileOutcome'
<1> SUFFICES ASSUME OneScript, ProfileOutcome, [Next]_vars
             PROVE  ProfileOutcome'
  OBVIOUS
<1>1. CASE QuickNext /\ UNCHANGED profileVars
  <2>1. CASE ppc = "off"
    BY <1>1, <2>1 DEF ProfileOutcome, profileVars
  <2>2. CASE qpc = "off"
    <3>1. WorkerStep
      BY <1>1, <2>2, QuickOffWorks
    <3> QED
      BY <1>1, <3>1 DEF ProfileOutcome, profileVars, WorkerStep, RunJob, EndJob,
         serverVars, Ended, Captured
  <2> QED
    BY <2>1, <2>2 DEF OneScript
<1>2. CASE ProfileStep /\ UNCHANGED quickVars
  <2>1. CASE BuildProfiled \/ StartProfiled \/ CheckAlive
    BY <2>1 DEF ProfileOutcome, BuildProfiled, StartProfiled, CheckAlive, Fail, Go
  <2>2. CASE LoadRequest \/ LoopEnds
    BY <2>2 DEF ProfileOutcome, LoadRequest, LoopEnds, NextLoop, Go
  <2>3. CASE \E p \in ProfileNames : CaptureProfile(p)
    BY <2>3 DEF ProfileOutcome, CaptureProfile
  <2>4. CASE CaptureFails
    BY <2>4 DEF ProfileOutcome, CaptureFails, CaptureTimesOut, Fail, Go
  <2>5. CASE CaptureEnds \/ AnalyzeProfiles \/ TerminateProfiled
    BY <2>5 DEF ProfileOutcome, CaptureEnds, AnalyzeProfiles, TerminateProfiled,
       Unchanged, Captured, Go
  <2>6. CASE WaitProfiled
    BY <2>6 DEF ProfileOutcome, WaitProfiled, Unchanged, Captured, Ended, Fail,
       serverVars, Go
  <2> QED
    BY <1>2, <2>1, <2>2, <2>3, <2>4, <2>5, <2>6 DEF ProfileStep
<1>3. CASE ProfileInterrupt /\ UNCHANGED quickVars
  BY <1>3 DEF ProfileOutcome, ProfileInterrupt, Fail
<1>4. CASE ServerNext /\ UNCHANGED <<quickVars, profileVars>>
  BY <1>4, ServerSteps DEF ProfileOutcome, profileVars, Captured
<1>5. CASE UNCHANGED vars
  BY <1>5 DEF ProfileOutcome, vars, profileVars, serverVars, Captured, Ended
<1> QED
  BY <1>1, <1>2, <1>3, <1>4, <1>5 DEF Next, ProfileNext, Finished

LEMMA ProfileHonestStep == ProfileHonest /\ [Next]_vars => ProfileHonest'
<1> SUFFICES ASSUME ProfileHonest, [Next]_vars PROVE ProfileHonest'
  OBVIOUS
<1>1. CASE UNCHANGED <<profiles, pinterrupts>> /\ (UNCHANGED pexit \/ Fail)
  BY <1>1 DEF ProfileHonest, Fail
<1>2. CASE \E p \in ProfileNames : CaptureProfile(p)
  <2>1. PICK p \in ProfileNames : CaptureProfile(p)
    BY <1>2
  <2>2. ~EnablePprof => profiles'.saved = profiles.saved
    BY <2>1 DEF CaptureProfile, Arriving
  <2> QED
    BY <2>1, <2>2 DEF ProfileHonest, CaptureProfile
<1>3. CASE ProfileInterrupt
  BY <1>3 DEF ProfileInterrupt, ProfileHonest, Fail
<1> QED
  BY <1>1, <1>2, <1>3 DEF Next, vars, Finished, ProfileNext, ProfileStep, profileVars,
     BuildProfiled, StartProfiled, CheckAlive, LoadRequest, LoopEnds, CaptureFails,
     CaptureTimesOut, CaptureEnds, AnalyzeProfiles, TerminateProfiled, WaitProfiled,
     Unchanged

LEMMA ProfileLoadStep == ProfileLoad /\ [Next]_vars => ProfileLoad'
<1> SUFFICES ASSUME ProfileLoad, [Next]_vars PROVE ProfileLoad'
  OBVIOUS
<1>1. CASE UNCHANGED <<load, carried>>
  BY <1>1 DEF ProfileLoad, LoadCountsHold
<1>2. CASE LoadRequest
  <2>1. ItemsOf \in Nat
    BY ProfileAssumption DEF ItemsOf
  <2>2. PICK answer \in Answers : \E done \in CarriedOut(answer) :
          /\ load' = [i |-> load.i + 1, success |-> load.success + Counted(answer)]
          /\ carried' = IF done THEN carried + ItemsOf ELSE carried
    BY <1>2 DEF LoadRequest
  <2>3. CASE answer = "success"
    <3>1. CarriedOut(answer) = {TRUE}
      BY <2>3 DEF CarriedOut
    <3>2. carried' = carried + ItemsOf
      BY <2>2, <3>1
    <3> QED
      BY <2>1, <2>2, <2>3, <3>2 DEF ProfileLoad, LoadCountsHold, Counted
  <2>4. CASE answer # "success"
    <3>1. carried' \in {carried, carried + ItemsOf}
      BY <2>2
    <3> QED
      BY <2>1, <2>2, <2>4, <3>1 DEF ProfileLoad, LoadCountsHold, Counted
  <2> QED
    BY <2>3, <2>4
<1>3. CASE LoopEnds
  BY <1>3 DEF LoopEnds, ProfileLoad, LoadCountsHold
<1> QED
  BY <1>1, <1>2, <1>3 DEF Next, vars, Finished, ProfileNext, ProfileStep, profileVars,
     ProfileInterrupt, BuildProfiled, StartProfiled, CheckAlive, CaptureProfile,
     CaptureFails, CaptureEnds, AnalyzeProfiles, TerminateProfiled, WaitProfiled,
     Unchanged
-----------------------------------------------------------------------------
LEMMA QuickServerStep ==
    OneScript /\ QuickServerKnown /\ [Next]_vars => QuickServerKnown'
<1> SUFFICES ASSUME OneScript, QuickServerKnown, [Next]_vars
             PROVE  QuickServerKnown'
  OBVIOUS
<1>1. CASE ProfileNext /\ UNCHANGED quickVars
  <2>1. qpc = "off" /\ qpc' = "off"
    BY <1>1, ProfileOffRests DEF OneScript, quickVars
  <2> QED
    BY <2>1 DEF QuickServerKnown, QuickLabels
<1>2. CASE MainStep
  <2>1. CASE BuildServer
    BY <2>1 DEF QuickServerKnown, QuickLabels, BuildServer, Main, serverVars, Left
  <2>2. CASE StartServer
    BY <2>2 DEF QuickServerKnown, QuickLabels, StartServer, Main, serverVars, Left
  <2>3. CASE PollMetrics
    BY <2>3 DEF QuickServerKnown, QuickLabels, PollMetrics, Main
  <2>4. CASE StartFails
    BY <2>4 DEF QuickServerKnown, QuickLabels, StartFails, GiveUp, Kill,
       Signal, Main, Left
  <2>5. CASE InitSession \/ SubmitJob \/ AllSubmitted \/ CountJob \/ AllCounted
    BY <2>5 DEF QuickServerKnown, QuickLabels, InitSession, SubmitJob, AllSubmitted,
       CountJob, AllCounted, Main
  <2>6. CASE LeavePool \/ LeavePoolInterrupted \/ SaveResults \/ SaveFails
    BY <2>6 DEF QuickServerKnown, QuickLabels, LeavePool, LeavePoolInterrupted,
       ToFinally, SaveResults, SaveFails, Main
  <2>7. CASE TerminateServer
    BY <2>7 DEF QuickServerKnown, QuickLabels, TerminateServer, Terminate, Signal, Main,
       Left
  <2>8. CASE WaitServer
    BY <2>8 DEF QuickServerKnown, QuickLabels, WaitServer, Ended, Main, serverVars, Left
  <2>9. CASE KillServer
    BY <2>9 DEF QuickServerKnown, QuickLabels, KillServer, ForceEnd, Kill, Signal, Main,
       Left
  <2> QED
    BY <1>2, <2>1, <2>2, <2>3, <2>4, <2>5, <2>6, <2>7, <2>8, <2>9 DEF MainStep
<1>3. CASE WorkerStep
  BY <1>3 DEF QuickServerKnown, WorkerStep, RunJob, EndJob, serverVars, Left
<1>4. CASE QuickInterrupt
  <2>1. CASE qpc \in Window
    BY <1>4, <2>1 DEF QuickServerKnown, QuickLabels, QuickInterrupt, Window, KillWindow,
       PoolLabels
  <2>2. CASE qpc \notin Window
    BY <1>4, <2>2 DEF QuickServerKnown, QuickLabels, QuickInterrupt, Window, KillWindow,
       PoolLabels, serverVars, Left
  <2> QED
    BY <2>1, <2>2
<1>5. CASE ServerNext /\ UNCHANGED <<quickVars, profileVars>>
  BY <1>5, ServerSteps DEF QuickServerKnown, quickVars
<1>6. CASE UNCHANGED vars
  BY <1>6 DEF QuickServerKnown, vars, quickVars, serverVars, Left
<1> QED
  BY <1>1, <1>2, <1>3, <1>4, <1>5, <1>6 DEF Next, QuickNext, Finished

LEMMA QuickOutcomeStep ==
    QuickCounts /\ QuickOutcome /\ [Next]_vars => QuickOutcome'
<1> SUFFICES ASSUME QuickCounts, QuickOutcome, [Next]_vars PROVE QuickOutcome'
  OBVIOUS
<1>1. CASE UNCHANGED <<rates, kind, qpc, qsaved, qinterrupts, qexit>>
  BY <1>1 DEF QuickOutcome
<1>2. CASE BuildServer \/ StartServer \/ PollMetrics \/ StartFails \/ InitSession
  <2>1. CASE BuildServer
    BY <2>1 DEF QuickOutcome, BuildServer, Main, poolVars
  <2>2. CASE StartServer
    BY <2>2 DEF QuickOutcome, StartServer, Main, poolVars
  <2>3. CASE PollMetrics
    BY <2>3 DEF QuickOutcome, PollMetrics, Main, poolVars
  <2>4. CASE StartFails \/ InitSession
    BY <2>4 DEF QuickOutcome, StartFails, InitSession, Main, poolVars
  <2> QED
    BY <1>2, <2>1, <2>2, <2>3, <2>4
<1>3. CASE SubmitJob \/ AllSubmitted \/ CountJob \/ AllCounted
  BY <1>3 DEF QuickOutcome, SubmitJob, AllSubmitted, CountJob, AllCounted, Main, poolVars
<1>4. CASE LeavePool
  <2>1. tally.items \in Nat
    BY DEF QuickCounts
  <2>2. rates' \in Seq(Nat) /\ Len(rates') = Len(rates) + 1
    BY <1>4, <2>1 DEF LeavePool, QuickOutcome
  <2>3. qpc = "leave" /\ qpc' \in {"submit", "save"}
    BY <1>4 DEF LeavePool, Main
  <2>4. CASE kind = "single"
    <3>1. kind' = "batch" /\ qpc' = "submit" /\ Len(rates') = 1
      BY <1>4, <2>2, <2>4 DEF LeavePool, Main, QuickOutcome
    <3> QED
      BY <1>4, <2>2, <2>3, <3>1 DEF LeavePool, QuickOutcome, Kinds
  <2>5. CASE kind = "batch"
    <3>0. Len(rates) = 1
      BY <2>3, <2>5 DEF QuickOutcome
    <3>1. kind' = "batch" /\ qpc' = "save" /\ Len(rates') = 2
      <4>1. kind' = "batch" /\ qpc' = "save"
        BY <1>4, <2>5 DEF LeavePool, Main
      <4> QED
        BY <2>2, <3>0, <4>1
    <3> QED
      BY <1>4, <2>2, <2>3, <3>1 DEF LeavePool, QuickOutcome, Kinds
  <2> QED
    BY <2>4, <2>5 DEF QuickOutcome, Kinds
<1>5. CASE LeavePoolInterrupted \/ SaveResults \/ SaveFails
  BY <1>5 DEF QuickOutcome, LeavePoolInterrupted, ToFinally, SaveResults, SaveFails,
     SaveOutcomes, Main, poolVars
<1>6. CASE TerminateServer \/ WaitServer \/ KillServer
  BY <1>6 DEF QuickOutcome, TerminateServer, WaitServer, KillServer, Main, poolVars
<1>7. CASE QuickInterrupt
  BY <1>7 DEF QuickOutcome, QuickInterrupt, SaveOutcomes, PoolLabels, poolVars
<1> QED
  BY <1>1, <1>2, <1>3, <1>4, <1>5, <1>6, <1>7 DEF Next, vars, Finished, QuickNext,
     MainStep, WorkerStep, RunJob, EndJob, quickVars, poolVars
LEMMA WorkersAreBusy == WorkerStep => Busy
BY DEF WorkerStep, RunJob, EndJob, InState, Busy

LEMMA QuickDrainedStep ==
    QuickServerKnown /\ QuickDrained /\ [Next]_vars => QuickDrained'
<1> SUFFICES ASSUME QuickServerKnown, QuickDrained, [Next]_vars PROVE QuickDrained'
  OBVIOUS
<1>1. CASE UNCHANGED <<qpc, pool, qinterrupts>>
  BY <1>1 DEF QuickDrained, DrainedBeforeStop, Busy, InState
<1>2. CASE BuildServer \/ StartServer \/ PollMetrics \/ StartFails \/ InitSession
  <2>1. pool = <<>> /\ pool' = <<>> /\ qpc' # "save"
    BY <1>2 DEF QuickDrained, BuildServer, StartServer, PollMetrics, StartFails,
       InitSession, Main, poolVars
  <2>2. ~Busy'
    BY <2>1 DEF Busy, InState
  <2> QED
    BY <2>1, <2>2 DEF QuickDrained, DrainedBeforeStop
<1>3. CASE SubmitJob \/ AllSubmitted \/ CountJob \/ AllCounted
  BY <1>3 DEF QuickDrained, DrainedBeforeStop, SubmitJob, AllSubmitted, CountJob,
     AllCounted, Main
<1>4. CASE LeavePool
  <2>1. ~Busy /\ qpc' \in {"submit", "save"}
    BY <1>4 DEF LeavePool, Shutdown, Main
  <2>2. pool' = pool \/ qpc' = "submit"
    BY <1>4 DEF LeavePool, Main
  <2> QED
    BY <2>1, <2>2 DEF QuickDrained, DrainedBeforeStop, Busy, InState
<1>5. CASE \/ LeavePoolInterrupted \/ SaveResults \/ SaveFails
          \/ TerminateServer \/ WaitServer \/ KillServer
  <2>1. UNCHANGED <<pool, qinterrupts>> /\ qpc' \in {"terminate", "wait", "kill", "exit"}
    BY <1>5 DEF LeavePoolInterrupted, ToFinally, SaveResults, SaveFails,
       TerminateServer, WaitServer, KillServer, Main, poolVars
  <2>2. Busy => "leave" \in qinterrupts
    BY <1>5 DEF LeavePoolInterrupted, ToFinally, SaveResults, SaveFails,
       TerminateServer, WaitServer, KillServer, Main, Shutdown, QuickDrained, DrainedBeforeStop
  <2> QED
    BY <2>1, <2>2 DEF QuickDrained, DrainedBeforeStop, Busy, InState
<1>6. CASE WorkerStep
  <2>1. Busy /\ UNCHANGED <<qpc, qinterrupts>>
    BY <1>6, WorkersAreBusy DEF WorkerStep, RunJob, EndJob
  <2>2. qpc \notin {"off", "build", "popen", "poll", "session", "save"}
    BY <2>1 DEF QuickDrained, Busy, InState
  <2> QED
    BY <2>1, <2>2 DEF QuickDrained, DrainedBeforeStop
<1>7. CASE QuickInterrupt
  <2>1. UNCHANGED pool /\ qinterrupts' = qinterrupts \cup {qpc}
    BY <1>7 DEF QuickInterrupt, poolVars
  <2>2. qpc' \in {"leave", "terminate", "exit"}
    BY <1>7 DEF QuickInterrupt
  <2>3. CASE qpc \in PoolLabels
    BY <1>7, <2>1, <2>3 DEF QuickInterrupt, PoolLabels, QuickDrained, DrainedBeforeStop
  <2>4. CASE qpc \notin PoolLabels
    <3>1. CASE qpc = "leave"
      BY <2>1, <2>2, <3>1 DEF QuickDrained, DrainedBeforeStop
    <3>2. CASE qpc # "leave"
      <4>1. ~Busy \/ "leave" \in qinterrupts
        BY <1>7, <2>4, <3>2 DEF QuickInterrupt, PoolLabels, QuickDrained,
           DrainedBeforeStop, QuickServerKnown, QuickLabels, Busy, InState
      <4> QED
        BY <2>1, <2>2, <4>1 DEF QuickDrained, DrainedBeforeStop, Busy, InState
    <3> QED
      BY <3>1, <3>2
  <2> QED
    BY <2>3, <2>4
<1> QED
  BY <1>1, <1>2, <1>3, <1>4, <1>5, <1>6, <1>7 DEF Next, vars, Finished, QuickNext,
     MainStep, quickVars, poolVars
-----------------------------------------------------------------------------
LEMMA JobsType == Jobs("single") \in Nat /\ Jobs("batch") \in Nat
BY QuickAssumption DEF Jobs, NumBatches

LEMMA ItemsType == Items(kind) \in Nat
BY QuickAssumption DEF Items

LEMMA InStateFinite ==
    ASSUME pool \in Seq(JobStates), NEW S
    PROVE  IsFiniteSet(InState(S)) /\ Cardinality(InState(S)) \in Nat
<1>1. InState(S) \subseteq 1..Len(pool)
  BY DEF InState
<1>2. IsFiniteSet(1..Len(pool))
  BY FS_Interval
<1> QED
  BY <1>1, <1>2, FS_Subset, FS_CardinalityType

(* A job that changes its state enters one of the sets of jobs and leaves  *)
(* another.                                                                *)
LEMMA Marked ==
    ASSUME pool \in Seq(JobStates), NEW i \in DOMAIN pool, NEW st \in JobStates,
           pool' = [pool EXCEPT ![i] = st]
    PROVE  /\ pool' \in Seq(JobStates) /\ Len(pool') = Len(pool)
           /\ \A S : InState(S)' = IF st \in S THEN InState(S) \cup {i}
                                             ELSE InState(S) \ {i}
<1>1. pool' \in Seq(JobStates) /\ Len(pool') = Len(pool)
  OBVIOUS
<1>2. DOMAIN pool' = DOMAIN pool
  OBVIOUS
<1>3. pool'[i] = st /\ \A j \in DOMAIN pool : j # i => pool'[j] = pool[j]
  OBVIOUS
<1>4. ASSUME NEW S
      PROVE  InState(S)' = IF st \in S THEN InState(S) \cup {i} ELSE InState(S) \ {i}
  BY <1>2, <1>3 DEF InState
<1> QED
  BY <1>1, <1>4

(* When everything is counted, no worker has anything to do.               *)
LEMMA AllCountedIdle ==
    ASSUME pool \in Seq(JobStates), Len(pool) <= Jobs(kind), kind \in Kinds,
           InState({"counted"}) = 1..Jobs(kind)
    PROVE  ~Busy
<1>1. Jobs(kind) \in Nat
  BY JobsType DEF Kinds
<1>2. \A i \in DOMAIN pool : i \in InState({"counted"})
  BY <1>1
<1> QED
  BY <1>2 DEF InState, Busy
(* A worker changes the state of one job; what is counted stays counted.   *)
LEMMA WorkerCounts ==
    ASSUME QuickOutcome, QuickCounts, WorkerStep
    PROVE  QuickCounts'
<1> DEFINE Ok == InState({"ok"})
           Done == InState({"counted"})
<1>1. UNCHANGED <<qpc, qexit, kind, tally, rates>> /\ kind \in Kinds
  BY DEF WorkerStep, RunJob, EndJob, QuickOutcome
<1>2. ~(qpc = "leave" /\ qexit = 0) /\ Len(rates) # 2
  BY WorkersAreBusy, AllCountedIdle, <1>1 DEF QuickCounts, QuickCountsHold
<1>3. ASSUME NEW i \in DOMAIN pool, NEW st \in {"running", "ok", "failed"},
             pool[i] \in {"queued", "running"}, pool' = [pool EXCEPT ![i] = st]
      PROVE  /\ pool' \in Seq(JobStates) /\ Len(pool') <= Jobs(kind)
             /\ Done' = Done
             /\ Cardinality(Ok') = Cardinality(Ok) + (IF st = "ok" THEN 1 ELSE 0)
  <2>1. st \in JobStates /\ pool \in Seq(JobStates)
    BY DEF JobStates, QuickCounts
  <2>2. /\ pool' \in Seq(JobStates) /\ Len(pool') = Len(pool)
        /\ \A S : InState(S)' = IF st \in S THEN InState(S) \cup {i} ELSE InState(S) \ {i}
    BY <1>3, <2>1, Marked
  <2>3. i \notin Ok /\ i \notin Done
    BY <1>3 DEF InState
  <2>4. Done' = Done
    BY <2>2, <2>3
  <2>5. Ok' = IF st = "ok" THEN Ok \cup {i} ELSE Ok
    BY <2>2, <2>3
  <2>6. IsFiniteSet(Ok) /\ Cardinality(Ok) \in Nat
    BY <2>1, InStateFinite
  <2>7. Cardinality(Ok \cup {i}) = Cardinality(Ok) + 1
    BY <2>3, <2>6, FS_AddElement
  <2> HIDE DEF Ok, Done
  <2> QED
    BY <2>2, <2>4, <2>5, <2>6, <2>7 DEF QuickCounts
<1>4. ASSUME stored' \in Nat, pool' \in Seq(JobStates), Len(pool') <= Jobs(kind),
             Done' = Done,
             tally.items + Items(kind) * Cardinality(Ok') <= stored'
      PROVE  QuickCounts'
  BY <1>1, <1>2, <1>4 DEF QuickCounts, QuickCountsHold, Items, Jobs
<1>5. CASE RunJob
  <2>1. PICK i \in InState({"queued"}) : pool' = [pool EXCEPT ![i] = "running"]
    BY <1>5 DEF RunJob
  <2>2. i \in DOMAIN pool /\ pool[i] = "queued"
    BY DEF InState
  <2>3. /\ pool' \in Seq(JobStates) /\ Len(pool') <= Jobs(kind)
        /\ Done' = Done /\ Cardinality(Ok') = Cardinality(Ok) + 0
    BY <1>3, <2>1, <2>2
  <2>4. stored' = stored /\ stored \in Nat
    BY <1>5 DEF RunJob, QuickCounts
  <2>5. Cardinality(Ok) \in Nat
    BY InStateFinite DEF QuickCounts
  <2>6. tally.items + Items(kind) * Cardinality(Ok') <= stored'
    BY <2>3, <2>4, <2>5 DEF QuickCounts, QuickCountsHold
  <2> QED
    BY <1>4, <2>3, <2>4, <2>6
<1>6. CASE EndJob
  <2>1. PICK i \in InState({"running"}), answer \in Answers :
          /\ pool' = [pool EXCEPT ![i] = IF AnswerOk(answer) THEN "ok" ELSE "failed"]
          /\ \E done \in CarriedOut(answer) :
                stored' = IF done THEN stored + Items(kind) ELSE stored
    BY <1>6 DEF EndJob
  <2>2. i \in DOMAIN pool /\ pool[i] = "running"
    BY DEF InState
  <2> DEFINE st == IF AnswerOk(answer) THEN "ok" ELSE "failed"
  <2>3. /\ pool' \in Seq(JobStates) /\ Len(pool') <= Jobs(kind) /\ Done' = Done
        /\ Cardinality(Ok') = Cardinality(Ok) + (IF st = "ok" THEN 1 ELSE 0)
    BY <1>3, <2>1, <2>2
  <2>4. stored \in Nat /\ Items(kind) \in Nat /\ tally.items \in Nat
    BY ItemsType DEF QuickCounts
  <2>5. Cardinality(Ok) \in Nat
    BY InStateFinite DEF QuickCounts
  <2>6. stored' \in {stored, stored + Items(kind)}
    BY <2>1
  <2>7. st = "ok" => stored' = stored + Items(kind)
    BY <2>1 DEF AnswerOk, CarriedOut
  <2>8. tally.items + Items(kind) * Cardinality(Ok) <= stored
    BY DEF QuickCounts, QuickCountsHold
  <2> DEFINE n == Items(kind)
             c == Cardinality(Ok)
  <2>9. tally.items + n * Cardinality(Ok') <= stored'
    <3>1. n \in Nat /\ c \in Nat /\ n * (c + 1) = n * c + n /\ n * c \in Nat
      BY <2>4, <2>5
    <3> HIDE DEF n, c
    <3>2. CASE st = "ok"
      BY <2>3, <2>4, <2>7, <2>8, <3>1, <3>2 DEF n, c
    <3>3. CASE st # "ok"
      BY <2>3, <2>4, <2>6, <2>8, <3>1, <3>3 DEF n, c
    <3> QED
      BY <3>2, <3>3
  <2>10. stored' \in Nat
    BY <2>4, <2>6
  <2> QED
    BY <1>4, <2>3, <2>9, <2>10
<1> QED
  BY <1>5, <1>6 DEF WorkerStep
LEMMA AddSuccess ==
    ASSUME NEW t \in [success : Nat, errors : Nat, items : Nat], NEW n \in Nat, NEW u,
           u = [t EXCEPT !.success = @ + 1, !.items = @ + n]
    PROVE  /\ u \in [success : Nat, errors : Nat, items : Nat]
           /\ u.success = t.success + 1 /\ u.errors = t.errors /\ u.items = t.items + n
<1>1. u.success = t.success + 1 /\ u.errors = t.errors /\ u.items = t.items + n
  OBVIOUS
<1>2. t.success \in Nat /\ t.errors \in Nat /\ t.items \in Nat
  OBVIOUS
<1>3. u = [success |-> t.success + 1, errors |-> t.errors, items |-> t.items + n]
  OBVIOUS
<1> QED
  BY <1>1, <1>2, <1>3

(* The main thread takes a finished job and adds it to the metrics.        *)
LEMMA CountJobCounts ==
    ASSUME QuickOutcome, QuickCounts, CountJob
    PROVE  QuickCounts'
<1> DEFINE Ok == InState({"ok"})
           Done == InState({"counted"})
           n == Items(kind)
           c == Cardinality(Ok)
<1>1. qpc = "collect" /\ qpc' = "collect" /\ UNCHANGED <<kind, stored, rates>>
  BY DEF CountJob, Main
<1>2. PICK i \in InState({"ok", "failed"}) :
        tally' = AddResult(pool[i]) /\ pool' = [pool EXCEPT ![i] = "counted"]
  BY DEF CountJob
<1>3. i \in DOMAIN pool /\ pool[i] \in {"ok", "failed"} /\ pool \in Seq(JobStates)
  BY DEF InState, QuickCounts
<1>4. /\ pool' \in Seq(JobStates) /\ Len(pool') = Len(pool)
      /\ Done' = Done \cup {i} /\ Ok' = Ok \ {i}
  BY <1>2, <1>3, Marked DEF JobStates
<1>5. i \notin Done /\ (i \in Ok <=> pool[i] = "ok")
  BY <1>3 DEF InState
<1>6. /\ IsFiniteSet(Ok) /\ c \in Nat
      /\ IsFiniteSet(Done) /\ Cardinality(Done) \in Nat
  BY <1>3, InStateFinite
<1>7. Cardinality(Done') = Cardinality(Done) + 1
  BY <1>4, <1>5, <1>6, FS_AddElement
<1>8. Cardinality(Ok') = IF pool[i] = "ok" THEN c - 1 ELSE c
  BY <1>4, <1>5, <1>6, FS_RemoveElement
<1>9. /\ n \in Nat /\ stored \in Nat
      /\ tally \in [success : Nat, errors : Nat, items : Nat]
      /\ tally.success + tally.errors = Cardinality(Done)
      /\ tally.items + n * c <= stored
  BY ItemsType DEF QuickCounts, QuickCountsHold
<1>10. n * (c - 1) = n * c - n /\ n * c \in Nat
  BY <1>6, <1>9
<1>11. /\ tally' \in [success : Nat, errors : Nat, items : Nat]
       /\ tally'.success + tally'.errors = Cardinality(Done')
       /\ tally'.items + n * Cardinality(Ok') <= stored
  <2>1. CASE pool[i] = "ok"
    <3>1. tally' = [tally EXCEPT !.success = @ + 1, !.items = @ + n]
      BY <1>2, <2>1 DEF AddResult
    <3> HIDE DEF n
    <3>2. /\ tally'.success = tally.success + 1 /\ tally'.errors = tally.errors
          /\ tally'.items = tally.items + n
          /\ tally' \in [success : Nat, errors : Nat, items : Nat]
      BY <1>9, <3>1, AddSuccess
    <3>3. Cardinality(Ok') = c - 1
      BY <1>8, <2>1
    <3> HIDE DEF Ok, Done, n, c
    <3>4. n * Cardinality(Ok') = n * c - n
      BY <1>10, <3>3
    <3>5. tally'.success + tally'.errors = Cardinality(Done')
      BY <1>6, <1>7, <1>9, <3>2
    <3>6. tally'.items + n * Cardinality(Ok') <= stored
      <4>1. tally.items \in Nat
        BY <1>9
      <4> QED
        BY <1>9, <1>10, <3>2, <3>4, <4>1
    <3> QED
      BY <3>2, <3>5, <3>6
  <2>2. CASE pool[i] = "failed"
    <3>1. tally' = [tally EXCEPT !.errors = @ + 1]
      BY <1>2, <2>2 DEF AddResult
    <3>2. /\ tally'.success = tally.success /\ tally'.errors = tally.errors + 1
          /\ tally'.items = tally.items
          /\ tally' \in [success : Nat, errors : Nat, items : Nat]
      BY <1>9, <3>1
    <3>3. Cardinality(Ok') = c
      BY <1>8, <2>2
    <3> HIDE DEF Ok, Done, n, c
    <3> QED
      BY <1>6, <1>7, <1>9, <1>10, <3>2, <3>3
  <2> QED
    BY <1>3, <2>1, <2>2
<1>12. Len(rates) # 2
  BY <1>1 DEF QuickCounts
<1> QED
  BY <1>1, <1>4, <1>9, <1>11, <1>12 DEF QuickCounts, QuickCountsHold, Items, Jobs

LEMMA SubmitJobCounts ==
    ASSUME QuickOutcome, QuickCounts, SubmitJob
    PROVE  QuickCounts'
<1>1. /\ qpc = "submit" /\ qpc' = "submit" /\ Len(pool) < Jobs(kind)
      /\ pool' = Append(pool, "queued")
      /\ UNCHANGED <<kind, tally, stored, rates>>
  BY DEF SubmitJob, Main, JobsToSubmit
<1>2. pool \in Seq(JobStates) /\ Jobs(kind) \in Nat
  BY JobsType DEF QuickCounts, QuickOutcome, Kinds
<1>3. /\ pool' \in Seq(JobStates) /\ Len(pool') = Len(pool) + 1
      /\ DOMAIN pool' = DOMAIN pool \cup {Len(pool) + 1}
  BY <1>1, <1>2 DEF JobStates
<1>4. pool'[Len(pool) + 1] = "queued" /\ \A j \in DOMAIN pool : pool'[j] = pool[j]
  BY <1>1, <1>2
<1>5. InState({"ok"})' = InState({"ok"}) /\ InState({"counted"})' = InState({"counted"})
  BY <1>3, <1>4 DEF InState
<1>6. Len(pool') <= Jobs(kind)
  BY <1>1, <1>2, <1>3
<1>7. Len(rates) # 2
  BY <1>1 DEF QuickCounts
<1> QED
  BY <1>1, <1>3, <1>5, <1>6, <1>7 DEF QuickCounts, QuickCountsHold, Items, Jobs

LEMMA AppendedLast ==
    ASSUME NEW l \in Seq(Nat), NEW x \in Nat
    PROVE  Len(Append(l, x)) = Len(l) + 1 /\ Append(l, x)[Len(l) + 1] = x
OBVIOUS

(* A benchmark ends and the next begins with nothing counted.              *)
LEMMA LeavePoolCounts ==
    ASSUME QuickOutcome, QuickCounts, LeavePool
    PROVE  QuickCounts'
<1>1. qpc = "leave" /\ qexit = 0 /\ rates' = Append(rates, tally.items)
  BY DEF LeavePool, Main
<1>2. CASE kind = "single"
  <2>1. /\ qpc' = "submit" /\ kind' = "batch" /\ pool' = <<>> /\ tally' = NoTally
        /\ stored' = 0 /\ Len(rates') = 1
    BY <1>1, <1>2 DEF LeavePool, Main, QuickOutcome, QuickCounts
  <2>2. InState({"ok"})' = {} /\ InState({"counted"})' = {}
    BY <2>1 DEF InState
  <2>3. Cardinality({}) = 0
    BY FS_EmptySet
  <2>4. Jobs(kind') \in Nat /\ Items(kind') \in Nat
    BY <2>1, JobsType, QuickAssumption DEF Items
  <2>5. QuickCountsHold'
    <3>1. (tally.success + tally.errors = Cardinality(InState({"counted"})))'
      BY SMTT(30), <2>1, <2>2, <2>3 DEF NoTally
    <3>2. (tally.items + Items(kind) * Cardinality(InState({"ok"})) <= stored)'
      <4> DEFINE m == Items(kind)'
      <4>1. m \in Nat
        BY <2>4 DEF Items
      <4> HIDE DEF m
      <4>2. m * 0 = 0
        BY <4>1
      <4>3. tally'.items = 0 /\ Cardinality(InState({"ok"}))' = 0
        BY <2>1, <2>2, <2>3 DEF NoTally
      <4>4. tally'.items + m * Cardinality(InState({"ok"}))' <= stored'
        BY <2>1, <4>2, <4>3
      <4> QED
        BY <4>4 DEF m
    <3>3. Len(rates)' # 2
      BY <2>1
    <3> QED
      BY <3>1, <3>2, <3>3 DEF QuickCountsHold
  <2>6. /\ tally' \in [success : Nat, errors : Nat, items : Nat]
        /\ pool' \in Seq(JobStates) /\ Len(pool') <= Jobs(kind')
    BY <2>1, <2>4 DEF NoTally
  <2>7. (Len(pool) <= Jobs(kind))'
    BY <2>6 DEF Jobs
  <2> QED
    BY <2>1, <2>5, <2>6, <2>7 DEF QuickCounts
<1>3. CASE kind = "batch"
  <2>1. qpc' = "save" /\ UNCHANGED <<kind, pool, tally, stored>>
    BY <1>3 DEF LeavePool, Main
  <2>2. Len(rates) = 1 /\ rates \in Seq(Nat) /\ tally.items \in Nat
    BY <1>1, <1>3 DEF QuickOutcome, QuickCounts
  <2>3. Len(rates') = 2 /\ rates'[2] = tally.items
    <3>1. /\ Len(rates') = Len(rates) + 1
          /\ rates'[Len(rates) + 1] = tally.items
      BY <1>1, <2>2, AppendedLast
    <3>2. Len(rates) + 1 = 2
      BY <2>2
    <3> QED
      BY <3>1, <3>2
  <2>4. InState({"counted"}) = 1..Jobs(kind)
    BY <1>1 DEF QuickCounts
  <2> QED
    BY <2>1, <2>3, <2>4 DEF QuickCounts, QuickCountsHold, InState, Items, Jobs
<1> QED
  BY <1>2, <1>3 DEF QuickOutcome, Kinds
LEMMA QuickCountsStep ==
    QuickOutcome /\ QuickCounts /\ [Next]_vars => QuickCounts'
<1> SUFFICES ASSUME QuickOutcome, QuickCounts, [Next]_vars PROVE QuickCounts'
  OBVIOUS
<1>1. ASSUME UNCHANGED poolVars,
             qpc' = "leave" /\ qexit' = 0 => InState({"counted"}) = 1..Jobs(kind),
             Len(rates) = 2 => qpc' \in {"save", "terminate", "wait", "kill", "exit"}
      PROVE  QuickCounts'
  BY <1>1 DEF QuickCounts, QuickCountsHold, poolVars, InState, Items, Jobs
<1>2. CASE UNCHANGED <<qpc, qexit, poolVars>>
  <2>1. qpc' = "leave" /\ qexit' = 0 => InState({"counted"}) = 1..Jobs(kind)
    BY <1>2 DEF QuickCounts
  <2>2. Len(rates) = 2 => qpc' \in {"save", "terminate", "wait", "kill", "exit"}
    BY <1>2 DEF QuickCounts
  <2> QED
    BY <1>1, <1>2, <2>1, <2>2
<1>3. CASE BuildServer \/ StartServer \/ PollMetrics \/ StartFails \/ InitSession
  <2>1. UNCHANGED poolVars /\ qpc \in {"build", "popen", "poll", "session"}
        /\ qpc' # "leave"
    BY <1>3 DEF BuildServer, StartServer, PollMetrics, StartFails, InitSession, Main
  <2>2. Len(rates) # 2
    BY <2>1 DEF QuickCounts
  <2> QED
    BY <1>1, <2>1, <2>2
<1>4. CASE SubmitJob
  BY <1>4, SubmitJobCounts
<1>5. CASE CountJob
  BY <1>5, CountJobCounts
<1>6. CASE AllSubmitted \/ AllCounted
  <2>1. UNCHANGED poolVars /\ qpc \in {"submit", "collect"}
    BY <1>6 DEF AllSubmitted, AllCounted, Main
  <2>2. qpc' = "leave" => InState({"counted"}) = 1..Jobs(kind)
    BY <1>6 DEF AllSubmitted, AllCounted, Main
  <2>3. Len(rates) # 2
    BY <2>1 DEF QuickCounts
  <2> QED
    BY <1>1, <2>1, <2>2, <2>3
<1>7. CASE LeavePool
  BY <1>7, LeavePoolCounts
<1>8. CASE \/ LeavePoolInterrupted \/ SaveResults \/ SaveFails
          \/ TerminateServer \/ WaitServer \/ KillServer
  <2>1. UNCHANGED poolVars /\ qpc' \in {"terminate", "wait", "kill", "exit"}
    BY <1>8 DEF LeavePoolInterrupted, ToFinally, SaveResults, SaveFails,
       TerminateServer, WaitServer, KillServer, Main
  <2> QED
    BY <1>1, <2>1
<1>9. CASE QuickInterrupt
  <2>1. UNCHANGED poolVars /\ qexit' = 1
    BY <1>9 DEF QuickInterrupt
  <2>2. qpc' \in {"terminate", "exit"} \/ qpc \in {"submit", "collect"}
    BY <1>9 DEF QuickInterrupt, PoolLabels
  <2>3. Len(rates) = 2 => qpc' \in {"save", "terminate", "wait", "kill", "exit"}
    BY <2>2 DEF QuickCounts
  <2> QED
    BY <1>1, <2>1, <2>3
<1>10. CASE WorkerStep
  BY <1>10, WorkerCounts
<1> QED
  BY <1>2, <1>3, <1>4, <1>5, <1>6, <1>7, <1>8, <1>9, <1>10 DEF Next, vars, Finished,
     QuickNext, MainStep, quickVars

-----------------------------------------------------------------------------
LEMMA ScriptsInit == Init => ScriptsInv
<1> SUFFICES ASSUME Init PROVE ScriptsInv
  OBVIOUS
<1>1. /\ qpc \in {"off", "build"} /\ ppc \in {"off", "build"} /\ OneScript
      /\ proc = "none" /\ pool = <<>> /\ rates = <<>> /\ kind = "single"
      /\ qsaved = "old" /\ tally = NoTally /\ stored = 0
      /\ load = [i |-> 0, success |-> 0] /\ carried = 0
      /\ pinterrupts = {} /\ profiles.saved = {}
  BY DEF Init, QuickInit, ProfileInit, ServerInit, OneScript
<1>2. ProfileServerKnown /\ ProfileOutcome /\ ProfileHonest
  BY <1>1 DEF ProfileServerKnown, ProfileOutcome, ProfileHonest, ProfileLabels
<1>3. ProfileLoad
  BY <1>1 DEF ProfileLoad, LoadCountsHold
<1>4. QuickServerKnown /\ QuickOutcome /\ QuickDrained
  BY <1>1 DEF QuickServerKnown, QuickLabels, QuickOutcome, Kinds, QuickDrained,
     DrainedBeforeStop
<1>5. QuickCounts
  <2>1. InState({"ok"}) = {} /\ InState({"counted"}) = {} /\ Cardinality({}) = 0
    BY <1>1, FS_EmptySet DEF InState
  <2>2. Items("single") = 1 /\ Jobs("single") \in Nat
    BY JobsType DEF Items
  <2>3. QuickCountsHold
    <3>1. tally.success = 0 /\ tally.errors = 0 /\ tally.items = 0
      BY <1>1 DEF NoTally
    <3>2. tally.items + Items(kind) * Cardinality(InState({"ok"})) = 0 + 1 * 0
      BY <1>1, <2>1, <2>2, <3>1
    <3>3. Len(rates) # 2
      BY <1>1
    <3>4. tally.success + tally.errors = Cardinality(InState({"counted"}))
      BY <2>1, <3>1
    <3>5. tally.items + Items(kind) * Cardinality(InState({"ok"})) <= stored
      BY <1>1, <3>2
    <3> QED
      BY <3>3, <3>4, <3>5 DEF QuickCountsHold
  <2>4. tally \in [success : Nat, errors : Nat, items : Nat] /\ stored \in Nat
    BY <1>1 DEF NoTally
  <2>5. pool \in Seq(JobStates) /\ Len(pool) = 0 /\ Len(rates) = 0
    BY <1>1
  <2>6. Len(pool) <= Jobs(kind)
    BY <1>1, <2>2, <2>5
  <2> QED
    BY <1>1, <2>3, <2>4, <2>5, <2>6 DEF QuickCounts
<1> QED
  BY <1>1, <1>2, <1>3, <1>4, <1>5 DEF ScriptsInv

(* The parts of ScriptsInv together are inductive: at every label the      *)
(* script knows what has become of its server and of its jobs.             *)
THEOREM ScriptsInvariant == Spec => []ScriptsInv
<1>1. ScriptsInv /\ [Next]_vars => ScriptsInv'
  BY OneScriptStep, ProfileServerStep, ProfileOutcomeStep, ProfileHonestStep,
     ProfileLoadStep,
     QuickServerStep, QuickOutcomeStep, QuickDrainedStep, QuickCountsStep DEF ScriptsInv
<1> QED
  BY <1>1, ScriptsInit, PTL DEF Spec

(* CountsHold for any number of jobs and workers: nothing is lost between  *)
(* the workers and the metrics of quick_bench.py, and neither script       *)
(* counts a request that no server has carried out.                        *)
THEOREM CountsAlwaysHold == Spec => []CountsHold
<1>1. ScriptsInv => CountsHold
  BY DEF ScriptsInv, ProfileLoad, QuickCounts, CountsHold
<1> QED
  BY <1>1, ScriptsInvariant, PTL

(* DrainedBeforeStop: main's finally block never stops the server under a  *)
(* job of the pools, unless the wait for them was interrupted.             *)
THEOREM PoolsAreDrained == Spec => []DrainedBeforeStop
<1>1. ScriptsInv => DrainedBeforeStop
  BY DEF ScriptsInv, QuickDrained
<1> QED
  BY <1>1, ScriptsInvariant, PTL

(* QuickResultsComplete: results.json and the exit code of quick_bench.py  *)
(* agree, on every path.                                                   *)
THEOREM ResultsAreComplete == Spec => []QuickResultsComplete
<1>1. ScriptsInv => QuickResultsComplete
  BY DEF ScriptsInv, QuickOutcome, QuickResultsComplete
<1> QED
  BY <1>1, ScriptsInvariant, PTL

(* ProfileExitZero: exit code 0 of profile_server.py means that three      *)
(* captures and the server have ended, undisturbed.  It does not mean that *)
(* there are profiles: none arrives with pprof off.                        *)
THEOREM ExitZeroMeansEnded == Spec => []ProfileExitZero
<1>1. ScriptsInv => ProfileExitZero
  BY DEF ScriptsInv, ProfileOutcome, ProfileHonest, ProfileExitZero
<1> QED
  BY <1>1, ScriptsInvariant, PTL

(* NoServerLeft: however a script ends, its server was told to end, unless *)
(* it was interrupted in the window around main's try block.  The server   *)
(* of quick_bench.py has ended or is killed, if SIGTERM does not end it.   *)
THEOREM ServersAreStopped == Spec => []NoServerLeft
<1>1. ScriptsInv => NoServerLeft
  BY DEF ScriptsInv, QuickServerKnown, ProfileServerKnown, NoServerLeft
<1> QED
  BY <1>1, ScriptsInvariant, PTL
=============================================================================
