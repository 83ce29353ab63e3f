--------------------------- MODULE ProfileServer ---------------------------
(***************************************************************************)
(* profile_server.py: build and start a server, load it, fetch three       *)
(* profiles from its pprof port, print them and stop the server.           *)
(***************************************************************************)
EXTENDS LocalServer

CONSTANTS
    PutCount, BatchCount,   \* requests of the two loops of run_load_test
    BatchKeys,              \* items of a batch
    EnablePprof,            \* enable_pprof_profiling of config_fast.json
    MaxProfileInterrupts    \* bound: interrupts of the script

ASSUME ProfileAssumption ==
    /\ PutCount \in Nat /\ BatchCount \in Nat /\ BatchKeys \in Nat
    /\ EnablePprof \in BOOLEAN /\ MaxProfileInterrupts \in Nat

VARIABLES
    ppc,            \* its label
    load,           \* request, and success of the current loop
    carried,        \* history: items of the current loop that were stored
    profiles,       \* the captures that ended, and the files that hold a profile
    pexit,          \* the exit code, or the one an exception will lead to
    pinterrupts     \* history: the labels at which it was interrupted

profileVars == <<ppc, load, carried, profiles, pexit, pinterrupts>>

ProfileNames == {"cpu", "heap", "goroutine"}

(* label is "build", or "off" if the script is not run.                    *)
ProfileInit(label) ==
    /\ ppc = label
    /\ load = [i |-> 0, success |-> 0] /\ carried = 0
    /\ profiles = [ended |-> {}, saved |-> {}]
    /\ pexit = 0 /\ pinterrupts = {}

Go(from, to) == ppc = from /\ ppc' = to
Fail == pexit' = 1
Unchanged == UNCHANGED <<load, carried, profiles, pinterrupts>>

(* go build, whose failure ends the script.                                *)
BuildProfiled ==
    /\ \/ Go("build", "popen") /\ UNCHANGED pexit
       \/ Go("build", "exit") /\ Fail
    /\ Unchanged /\ UNCHANGED serverVars

(* Popen, which may raise, and a sleep of 3 s.                             *)
StartProfiled ==
    /\ \/ Go("popen", "check") /\ Popen /\ UNCHANGED pexit
       \/ Go("popen", "exit") /\ Fail /\ UNCHANGED serverVars
    /\ Unchanged

(* proc.kill() at the end of start_server_with_profiling.                  *)
KillUnready == Kill

(* One request decides whether the server has started.                     *)
CheckAlive ==
    /\ \/ /\ Go("check", "put") /\ "success" \in Answers
          /\ UNCHANGED <<pexit, serverVars>>
       \/ Go("check", "exit") /\ KillUnready /\ Fail
    /\ Unchanged

LoopCount == IF ppc = "put" THEN PutCount ELSE BatchCount
ItemsOf == IF ppc = "put" THEN 1 ELSE BatchKeys

(* if resp.status_code == 201                                              *)
Counted(answer) == IF answer = "success" THEN ItemsOf ELSE 0

LoadRequest ==
    /\ ppc \in {"put", "batch"} /\ load.i < LoopCount
    /\ \E answer \in Answers :
          /\ load' = [i |-> load.i + 1, success |-> load.success + Counted(answer)]
          /\ \E done \in CarriedOut(answer) :
                carried' = IF done THEN carried + ItemsOf ELSE carried
    /\ UNCHANGED <<ppc, profiles, pexit, pinterrupts, serverVars>>

(* After the puts the batches, and then the profiles.                      *)
NextLoop == Go("put", "batch") \/ Go("batch", "capture")

LoopEnds ==
    /\ load.i = LoopCount
    /\ NextLoop
    /\ load' = [i |-> 0, success |-> 0] /\ carried' = 0
    /\ UNCHANGED <<profiles, pexit, pinterrupts, serverVars>>

-----------------------------------------------------------------------------
(* curl; its exit status is not looked at.  A profile arrives only from a  *)
(* server with pprof, which the script's own config_fast.json leaves off.  *)
Arriving(p) == IF EnablePprof /\ port # "free" THEN {{}, {p}} ELSE {{}}

CaptureProfile(p) ==
    /\ ppc = "capture" /\ p \notin profiles.ended
    /\ p = "heap" => "cpu" \in profiles.ended
    /\ p = "goroutine" => "heap" \in profiles.ended
    /\ \E new \in Arriving(p) :
          profiles' = [ended |-> profiles.ended \cup {p},
                       saved |-> profiles.saved \cup new]
    /\ UNCHANGED <<ppc, load, carried, pexit, pinterrupts, serverVars>>

(* Three times "profile saved" has been printed: curl has ended in time,   *)
(* with a profile or without.                                              *)
Captured == profiles.ended = ProfileNames

(* Mutant: a capture that failed is analysed all the same.                 *)
CaptureGoesOn == Go("capture", "analyze") /\ UNCHANGED pexit

(* curl does not end in time: capture_profiles returns False.              *)
CaptureTimesOut == Go("capture", "terminate") /\ Fail

CaptureFails ==
    /\ ~Captured
    /\ CaptureTimesOut
    /\ Unchanged /\ UNCHANGED serverVars

CaptureEnds ==
    /\ Go("capture", "analyze") /\ Captured
    /\ Unchanged /\ UNCHANGED <<pexit, serverVars>>

(* go tool pprof, whose exit status is not looked at either.               *)
AnalyzeProfiles ==
    /\ Go("analyze", "terminate")
    /\ UNCHANGED pexit \/ Fail
    /\ Unchanged /\ UNCHANGED serverVars

(* main's finally block: proc.wait raises TimeoutExpired after 5 s, and    *)
(* nothing is killed then.                                                 *)
TerminateProfiled ==
    /\ Go("terminate", "wait")
    /\ Terminate
    /\ Unchanged /\ UNCHANGED pexit

WaitProfiled ==
    /\ Go("wait", "exit")
    /\ (Ended /\ UNCHANGED pexit) \/ Fail
    /\ Unchanged /\ UNCHANGED serverVars

ProfileTry == {"put", "batch", "capture", "analyze"}
ProfileWindow == {"popen", "check", "terminate"}

(* KeyboardInterrupt, where no bare "except:" swallows it.                 *)
ProfileInterrupt ==
    /\ Cardinality(pinterrupts) < MaxProfileInterrupts
    /\ ppc \notin {"off", "exit"}
    /\ pinterrupts' = pinterrupts \cup {ppc}
    /\ ppc' = IF ppc \in ProfileTry THEN "terminate" ELSE "exit"
    /\ Fail
    /\ \/ ppc = "popen" /\ Popen
       \/ ppc = "terminate" /\ Terminate
       \/ UNCHANGED serverVars
    /\ UNCHANGED <<load, carried, profiles>>

ProfileStep ==
    \/ BuildProfiled \/ StartProfiled \/ CheckAlive \/ LoadRequest \/ LoopEnds
    \/ \E p \in ProfileNames : CaptureProfile(p)
    \/ CaptureFails \/ CaptureEnds \/ AnalyzeProfiles
    \/ TerminateProfiled \/ WaitProfiled

ProfileNext == ProfileStep \/ ProfileInterrupt

(* Requests, curl and the wait have timeouts; go build and go tool pprof   *)
(* have none and are assumed to end.                                       *)
ProfileFairness == WF_<<profileVars, serverVars>>(ProfileStep)

-----------------------------------------------------------------------------
ProfileLabels ==
    ProfileTry \cup {"off", "build", "popen", "check", "terminate", "wait", "exit"}

(* run_load_test counts no item that no server has stored.                 *)
LoadCountsHold == load.success <= carried

(* What exit code 0 means: nobody has interrupted, three curl commands     *)
(* have ended in time, and the server has ended, not only been told to.    *)
(* It does not mean what the script prints with it ("DONE - Profile files  *)
(* saved"): without enable_pprof_profiling no file holds a profile.        *)
ProfileExitZero ==
    ppc = "exit" /\ pexit = 0 =>
        /\ Captured /\ Ended /\ pinterrupts = {}
        /\ EnablePprof \/ profiles.saved = {}

=============================================================================
