----------------------------- MODULE ApiClients -----------------------------
(***************************************************************************)
(* Clients of the Python library and the integration test use one server   *)
(* at the same time; they meet in its store.                               *)
(***************************************************************************)
EXTENDS SndvClient, IntegrationTest

vars == <<store, clientVars, testVars>>

Init == StoreInit /\ ClientInit /\ TestInit

Next ==
    \/ ClientNext /\ UNCHANGED testVars
    \/ TestNext /\ UNCHANGED clientVars
    \/ tpc = "exit" /\ stage = [c \in Client |-> "idle"] /\ UNCHANGED vars

Spec == Init /\ [][Next]_vars /\ TestFairness
=============================================================================
