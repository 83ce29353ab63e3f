---------------------------- MODULE LocalScripts ----------------------------
(***************************************************************************)
(* One of quick_bench.py and profile_server.py is run against a server of  *)
(* its own, on a machine where other servers take and leave port 8080: the *)
(* script may find one of them behind the port instead of its own server,  *)
(* and may lose either at any time.                                        *)
(***************************************************************************)
EXTENDS QuickBench, ProfileServer

vars == <<quickVars, profileVars, serverVars>>

Init ==
    /\ \/ QuickInit("build") /\ ProfileInit("off")
       \/ QuickInit("off") /\ ProfileInit("build")
    /\ ServerInit

Finished ==
    /\ qpc \in {"off", "exit"} /\ ppc \in {"off", "exit"}
    /\ UNCHANGED vars

Next ==
    \/ QuickNext /\ UNCHANGED profileVars
    \/ ProfileNext /\ UNCHANGED quickVars
    \/ ServerNext /\ UNCHANGED <<quickVars, profileVars>>
    \/ Finished

Spec == Init /\ [][Next]_vars /\ QuickFairness /\ ProfileFairness /\ KillArrives

(* The rates that the scripts print are made of requests that a server has *)
(* carried out.                                                            *)
CountsHold == QuickCountsHold /\ LoadCountsHold

(* However a script ends, it has told its server to end, unless it was     *)
(* interrupted in the window around main's try block.  quick_bench.py has  *)
(* even seen it end or killed it, unless the interrupt came before kill.   *)
NoServerLeft ==
    /\ qpc = "exit" /\ Left => qinterrupts \cap Window # {}
    /\ qpc = "exit" /\ proc = "terminated" => qinterrupts \cap KillWindow # {}
    /\ ppc = "exit" /\ Left => pinterrupts \cap ProfileWindow # {}

(* The script ends, and so do its workers.                                 *)
ScriptsEnd == <>(qpc \in {"off", "exit"} /\ ppc \in {"off", "exit"} /\ ~Busy)

(* A server that SIGTERM does not end, when profile_server.py has ended:   *)
(* its wait has raised TimeoutExpired or was interrupted.                  *)
NotKilled == ppc = "exit" /\ proc = "terminated"

(* A script gives port 8080 back, also if SIGTERM does not end its server: *)
(* quick_bench.py then kills it.  The exceptions are interrupts in the     *)
(* named windows, and profile_server.py, which never kills a server that   *)
(* it has terminated.                                                      *)
PortIsReleased ==
    <>[](port # "own" \/ NotKilled \/ qinterrupts \cap KillWindow # {}
                      \/ pinterrupts \cap ProfileWindow # {})
=============================================================================
