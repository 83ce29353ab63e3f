-------------------------- MODULE IntegrationTest --------------------------
(***************************************************************************)
(* scripts/docker_integration.py: wait for the server, read the token, run *)
(* two tests and two benchmarks, save the results and exit.  Every request *)
(* is one step: it is answered, or it raises, having been handled or not.  *)
(* save_results writes two files, and each may be cut short.               *)
(*                                                                         *)
(* wait_for_ready asks for /health.  The router has no such path, so the   *)
(* tests start only if the URL on the command line leads to something in   *)
(* front of it that has (health).                                          *)
(***************************************************************************)
EXTENDS HttpApi, Sequences

CONSTANTS
    TestKey, TestValue,         \* of test_happy_path
    CriticalKeys,               \* of test_critical_path, in order
    BenchKey,                   \* stands for the keys of the benchmarks
    BenchPuts, BenchBatches, BenchBatchSize

ASSUME TestAssumption ==
    /\ TestKey \in Key /\ TestValue \in Value \ Unescaped
    /\ CriticalKeys \in Seq(Key) /\ BenchKey \in Key
    /\ BenchPuts \in Nat /\ BenchBatches \in Nat /\ BenchBatchSize \in Nat

VARIABLES
    tpc,        \* the label of run_all
    health,     \* something answers /health
    token,      \* self.token
    loop,       \* index and count of the current loop
    tests,      \* self.results["tests"]: passed, verified, success, success
    error,      \* self.results["error"], NoError if it is not set
    artifacts,  \* integration_results.json and SUMMARY.txt
    texit,      \* the exit code
    escaped,    \* history: the label at which an exception or an interrupt
                \* left run_all, Returned if none did
    truth       \* history: what the store and the replies were at that time

testVars == <<tpc, health, token, loop, tests, error, artifacts, texit, escaped, truth>>

Start == [i |-> 0, count |-> 0, truth |-> 0]
NoError == "no error"
Returned == "returned"
File(state, results, e) == [state |-> state, tests |-> results, error |-> e]
NoFile == File("none", <<>>, NoError)
Torn == File("torn", <<>>, NoError)

TestInit ==
    /\ tpc = "ready" /\ health \in BOOLEAN /\ token = ""
    /\ loop = Start /\ tests = <<>> /\ truth = <<>>
    /\ error = NoError /\ artifacts = [json |-> NoFile, summary |-> NoFile]
    /\ texit = 0 /\ escaped = Returned

To(from, to) == tpc = from /\ tpc' = to
Unsaved == UNCHANGED <<error, artifacts, texit, escaped>>
Continue == UNCHANGED <<health, token>> /\ Unsaved
SameResults == UNCHANGED <<loop, tests, truth>>

(* Mutant: an error returns without saving.                                *)
AbortQuietly == "return"

(* self.save_results()                                                     *)
AbortSaves == "saveJson"

(* run_all records an error, saves the results and returns False.          *)
Abort ==
    /\ error' = "recorded"
    /\ tpc' = AbortSaves
    /\ loop' = Start
    /\ UNCHANGED <<health, token, tests, artifacts, texit, escaped, truth>>

(* What a write that does not come to its end leaves behind.               *)
CutShort ==
    {artifacts} \cup
    (CASE tpc = "saveJson"    -> {[artifacts EXCEPT !.json = Torn]}
       [] tpc = "saveSummary" -> {[artifacts EXCEPT !.summary = Torn]}
       [] OTHER               -> {})

(* run_all does not return: the script ends with that code.                *)
Escape(code) ==
    /\ tpc' = "exit" /\ texit' = code /\ escaped' = tpc
    /\ artifacts' \in CutShort
    /\ loop' = Start
    /\ UNCHANGED <<health, token, tests, error, truth>>

(* Mutant: the loop has no timeout.                                        *)
WaitForHealth ==
    /\ \/ To("ready", "token") /\ health /\ Continue /\ SameResults
       \/ tpc = "ready" /\ UNCHANGED testVars
    /\ UNCHANGED store

WaitForReady ==
    /\ \/ To("ready", "token") /\ health /\ Continue /\ SameResults
       \/ tpc = "ready" /\ Abort
    /\ UNCHANGED store

(* The token is printed to standard output, which may or may not be the    *)
(* log file; without it a placeholder is used.                             *)
GetTokenFromLogs ==
    /\ To("token", "put")
    /\ token' \in {"valid", "placeholder"}
    /\ UNCHANGED <<health, store>> /\ Unsaved /\ SameResults

(* The file cannot be read: outside of the try block.                      *)
GetTokenRaises == tpc = "token" /\ Escape(1) /\ UNCHANGED store

-----------------------------------------------------------------------------
Ask(key) == HandleRequest(Request("GET", "/get", token, key, NoItems))
Send(path, keys) ==
    HandleRequest(Request("POST", path, token, NoKey, [k \in keys |-> TestValue]))

(* The request that writes, at each label that does.                       *)
WriteReplies ==
    CASE tpc = "put"      -> Send("/put", {TestKey})
      [] tpc = "critical" -> Send("/batch", {CriticalKeys[i] : i \in DOMAIN CriticalKeys})
      [] tpc = "single"   -> Send("/put", {BenchKey})
      [] tpc = "batch"    -> Send("/batch", {BenchKey})
      [] OTHER            -> {}

(* The put of test_happy_path and the batch of test_critical_path, whose   *)
(* status is not looked at.                                                *)
TestWrite ==
    /\ To("put", "get") \/ To("critical", "verify")
    /\ \E r \in WriteReplies : store' = r[2]
    /\ Continue /\ SameResults

(* resp.status_code == 200 and resp.json().get("val") == "value"           *)
HappyPassed(reply, v) == reply.status = 200 /\ v = TestValue

(* If the body is not JSON, resp.json() raises: RequestFails.              *)
HappyGet ==
    /\ To("get", "critical")
    /\ \E r \in Ask(TestKey) : \E v \in Decoded(r[1].val) :
          /\ r[1].status = 200 => v # NoValue
          /\ tests' = Append(tests, HappyPassed(r[1], v))
    /\ truth' = Append(truth, store[TestKey])
    /\ UNCHANGED <<loop, store>> /\ Continue

Verify ==
    /\ tpc = "verify" /\ loop.i < Len(CriticalKeys)
    /\ LET key == CriticalKeys[loop.i + 1]
       IN  \E r \in Ask(key) :
             loop' = [i |-> loop.i + 1,
                      count |-> loop.count + (IF r[1].status = 200 THEN 1 ELSE 0),
                      truth |-> loop.truth + (IF store[key] # NoValue THEN 1 ELSE 0)]
    /\ UNCHANGED <<tpc, tests, truth, store>> /\ Continue

(* benchmark_single and benchmark_batch                                    *)
BenchSize == IF tpc = "single" THEN 1 ELSE BenchBatchSize

(* Mutant: requests count, not successes.                                  *)
CountAll(reply) == BenchSize

(* if resp.status_code == 201                                              *)
CountCreated(reply) == IF reply.status = 201 THEN BenchSize ELSE 0

BenchRequest ==
    /\ \/ tpc = "single" /\ loop.i < BenchPuts
       \/ tpc = "batch" /\ loop.i < BenchBatches
    /\ \E r \in WriteReplies :
          /\ loop' = [i |-> loop.i + 1, count |-> loop.count + CountCreated(r[1]),
                      truth |-> loop.truth + (IF r[1].status = 201 THEN BenchSize ELSE 0)]
          /\ store' = r[2]
    /\ UNCHANGED <<tpc, tests, truth>> /\ Continue

LoopEnds ==
    /\ \/ To("verify", "single") /\ loop.i = Len(CriticalKeys)
       \/ To("single", "batch") /\ loop.i = BenchPuts
       \/ To("batch", "saveJson") /\ loop.i = BenchBatches
    /\ tests' = Append(tests, loop.count) /\ truth' = Append(truth, loop.truth)
    /\ loop' = Start
    /\ UNCHANGED store /\ Continue

(* A request raises, having had its effect or not.                         *)
RequestFails ==
    /\ tpc \in {"put", "get", "critical", "verify", "single", "batch"}
    /\ Abort
    /\ store' \in {store} \cup {r[2] : r \in WriteReplies}

(* save_results: the summary has the tests, but not the error.             *)
SaveResults ==
    /\ \/ /\ To("saveJson", "saveSummary")
          /\ artifacts' = [artifacts EXCEPT !.json = File("complete", tests, error)]
       \/ /\ To("saveSummary", "return")
          /\ artifacts' = [artifacts EXCEPT !.summary = File("complete", tests, NoError)]
    /\ UNCHANGED <<health, token, error, texit, escaped, store>> /\ SameResults

(* It is called outside of the try block, or in its handler.               *)
SaveRaises ==
    /\ tpc \in {"saveJson", "saveSummary"}
    /\ Escape(1)
    /\ UNCHANGED store

(* sys.exit(0 if test.run_all() else 1)                                    *)
Exit ==
    /\ To("return", "exit")
    /\ texit' = IF error = NoError THEN 0 ELSE 1
    /\ UNCHANGED <<health, token, error, artifacts, escaped, store>> /\ SameResults

(* KeyboardInterrupt is not an Exception: no handler saves the results.    *)
Interrupted == tpc # "exit" /\ Escape(130) /\ UNCHANGED store

TestStep ==
    \/ WaitForReady \/ GetTokenFromLogs \/ GetTokenRaises
    \/ TestWrite \/ HappyGet \/ Verify \/ BenchRequest \/ LoopEnds \/ RequestFails
    \/ SaveResults \/ SaveRaises \/ Exit

TestNext == TestStep \/ Interrupted

(* Requests end because the server answers or the connection breaks.       *)
TestFairness == WF_<<testVars, store>>(TestStep)

-----------------------------------------------------------------------------
(* What the tests record is what happened, whatever other clients do to    *)
(* the same keys meanwhile: a test passes only if the store held the value *)
(* then, and nothing passes or counts with a token that is not accepted.   *)
TestsTellTruth ==
    \A i \in DOMAIN tests :
        IF i = 1 THEN tests[1] => truth[1] \in {TestValue} \cup Unescaped /\ token = "valid"
                 ELSE tests[i] = IF token = "valid" THEN truth[i] ELSE 0

(* If run_all returns, both files are complete and the exit code says      *)
(* whether the JSON has an error.  Whatever else ends the script, the JSON *)
(* is complete exactly if that was after it was written; it is written     *)
(* before the summary; and who finds it complete can rely on it: it has    *)
(* the tests that ran to their end, and no error only if those are all     *)
(* four.  (An exit code of 1 alone does not tell that a JSON was saved:    *)
(* the token file or save_results may have raised.)                        *)
ArtifactsMatchExit ==
    tpc = "exit" =>
        LET json == artifacts.json
            summary == artifacts.summary
        IN  /\ escaped = Returned =>
                  /\ summary = File("complete", tests, NoError)
                  /\ texit = IF json.error = NoError THEN 0 ELSE 1
            /\ texit = 0 => escaped = Returned
            /\ json.state = "complete" <=> escaped \in {Returned, "saveSummary", "return"}
            /\ summary.state # "none" => json.state = "complete"
            /\ json.state = "complete" =>
                  json.tests = tests /\ (json.error = NoError <=> Len(tests) = 4)

(* The script ends.                                                        *)
TestEnds == <>(tpc = "exit")
=============================================================================
