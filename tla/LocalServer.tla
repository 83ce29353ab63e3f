---------------------------- MODULE LocalServer ----------------------------
(***************************************************************************)
(* The server that quick_bench.py or profile_server.py starts.  It listens *)
(* on port 8080 (config_fast.json), where other servers come and go: one   *)
(* that was left running, or the one of the other script.  A server that   *)
(* cannot listen ends (startHttpServer returns the error and main calls    *)
(* log.Fatal).  The processes take steps of their own.                     *)
(***************************************************************************)
EXTENDS Naturals, FiniteSets, Sequences

CONSTANT MaxStrangers   \* bound: other servers that start in a behaviour

ASSUME StrangersAssumption == MaxStrangers \in Nat

VARIABLES
    proc,       \* the process that the script has started
    port,       \* who listens on port 8080
    strangers   \* other servers that have started so far

serverVars == <<proc, port, strangers>>

(* proc is "none" (not started), "starting", "serving", "terminated"       *)
(* (SIGTERM was sent), "killed" (SIGKILL was sent) or "dead".              *)

ServerInit ==
    /\ proc = "none"
    /\ port \in {"free", "stranger"}
    /\ strangers = 0

(* subprocess.Popen, terminate and kill.  A process that has ended is left *)
(* alone.                                                                  *)
Popen == proc' = "starting" /\ UNCHANGED <<port, strangers>>
Signal(state) ==
    /\ proc' = IF proc = "dead" THEN proc ELSE state
    /\ UNCHANGED <<port, strangers>>
Terminate == Signal("terminated")
Kill == Signal("killed")

Ended == proc = "dead"
Left == proc \in {"starting", "serving"}

(* The answers that a request to port 8080 may get.  Without a listener    *)
(* there is none; a listener may also answer too late.                     *)
Answers == IF port = "free" THEN {"none"} ELSE {"success", "error", "none"}

(* Whether the request may have been carried out, by a server whose log    *)
(* does not fail (a batch is answered 201 also when it fails: HttpApi).    *)
CarriedOut(answer) ==
    CASE answer = "success" -> {TRUE}
      [] answer = "none" /\ port # "free" -> BOOLEAN
      [] OTHER -> {FALSE}

-----------------------------------------------------------------------------
ServerListens ==
    /\ proc = "starting"
    /\ \/ port = "free" /\ port' = "own" /\ proc' = "serving"
       \/ port # "free" /\ proc' = "dead" /\ UNCHANGED port
    /\ UNCHANGED strangers

(* The socket goes with the process that opened it.                        *)
PortAfter == IF port = "own" THEN "free" ELSE port

(* It crashes, or ends because it has been told to.                        *)
ServerEnds ==
    /\ proc \in {"starting", "serving", "terminated", "killed"}
    /\ proc' = "dead"
    /\ port' = PortAfter
    /\ UNCHANGED strangers

StrangerListens ==
    /\ port = "free" /\ strangers < MaxStrangers
    /\ port' = "stranger" /\ strangers' = strangers + 1
    /\ UNCHANGED proc

StrangerEnds ==
    /\ port = "stranger"
    /\ port' = "free"
    /\ UNCHANGED <<proc, strangers>>

ServerNext == ServerListens \/ ServerEnds \/ StrangerListens \/ StrangerEnds

(* SIGKILL ends a process.  SIGTERM, for which the server has no handler,  *)
(* ends it too unless it is stopped: nothing is promised of it here.       *)
KillArrives == WF_serverVars(proc = "killed" /\ ServerEnds)
=============================================================================
