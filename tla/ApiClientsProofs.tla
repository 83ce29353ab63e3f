-------------------------- MODULE ApiClientsProofs --------------------------
(***************************************************************************)
(* What clients are told, for every set of keys and values, any number of  *)
(* clients and calls, and any sizes of the loops of docker_integration.py. *)
(***************************************************************************)
EXTENDS ApiClients, TLAPS

-----------------------------------------------------------------------------
(* The replies of the router.                                              *)

LEMMA GetReply ==
    ASSUME NEW t, NEW k \in Key,
           NEW r \in HandleRequest(Request("GET", "/get", t, k, NoItems))
    PROVE  /\ r[2] = store
           /\ ~CheckAuth(t) => r[1] = Reply(401, NoValue)
           /\ CheckAuth(t) => r[1] = IF store[k] = NoValue THEN Reply(404, NoValue)
                                                          ELSE Reply(200, store[k])
<1> DEFINE req == Request("GET", "/get", t, k, NoItems)
<1>1. /\ req.method = "GET" /\ req.path = "/get" /\ req.token = t /\ req.key = k
      /\ k # NoKey
  BY ApiAssumption DEF Request
<1>2. "/get" \in DOMAIN Methods /\ "GET" \in Methods["/get"]
  BY DEF Methods
<1>3. Read(req) = IF store[k] = NoValue THEN Reply(404, NoValue) ELSE Reply(200, store[k])
  BY <1>1 DEF Read
<1>4. HandleRequest(req) = IF CheckAuth(t) THEN {<<Read(req), store>>}
                                           ELSE {<<Reply(401, NoValue), store>>}
  <2> HIDE DEF req
  <2> QED
    BY <1>1, <1>2 DEF HandleRequest, Refusal
<1> QED
  BY <1>3, <1>4

LEMMA PutReply ==
    ASSUME NEW t, NEW k \in Key, NEW val, NEW items, items = [j \in {k} |-> val],
           NEW r \in HandleRequest(Request("POST", "/put", t, NoKey, items))
    PROVE  /\ r[1].status \in {201, 401, 500}
           /\ r[1].status = 201 => r[2][k] = val
           /\ r[1].status # 201 => r[2] = store
<1> DEFINE req == Request("POST", "/put", t, NoKey, items)
<1>1. req.method = "POST" /\ req.path = "/put" /\ req.items = items
  BY DEF Request
<1>2. "/put" \in DOMAIN Methods /\ "POST" \in Methods["/put"]
  BY DEF Methods
<1>3. r \in HandleRequest(req)
  OBVIOUS
<1>4. With(items, DOMAIN items)[k] = val
  BY DEF With
<1> HIDE DEF req
<1>5. Refusal(req) \in {0, 401}
  BY <1>1, <1>2 DEF Refusal
<1>6. \/ r = <<Reply(401, NoValue), store>>
      \/ r = <<Reply(201, NoValue), With(items, DOMAIN items)>>
      \/ r = <<Reply(500, NoValue), store>>
  BY <1>1, <1>3, <1>5 DEF HandleRequest, Writes
<1> QED
  BY <1>4, <1>6 DEF Reply

LEMMA DeleteReply ==
    ASSUME StoreTypeOK, NEW t, NEW k,
           NEW r \in HandleRequest(Request("POST", "/delete", t, k, NoItems))
    PROVE  /\ r[1].status \in {200, 400, 401, 500}
           /\ r[1].status = 200 /\ k \in Key => r[2][k] = NoValue
           /\ r[1].status # 200 => r[2] = store
<1> DEFINE req == Request("POST", "/delete", t, k, NoItems)
<1>1. req.method = "POST" /\ req.path = "/delete" /\ req.key = k
  BY DEF Request
<1>2. "/delete" \in DOMAIN Methods /\ "POST" \in Methods["/delete"]
  BY DEF Methods
<1>3. r \in HandleRequest(req)
  OBVIOUS
<1>4. k \in Key => DeletedAt(k)[k] = NoValue
  BY DEF DeletedAt, StoreTypeOK
<1> HIDE DEF req
<1>5. Refusal(req) \in {0, 400, 401}
  BY <1>1, <1>2 DEF Refusal
<1>6. \/ r = <<Reply(400, NoValue), store>>
      \/ r = <<Reply(401, NoValue), store>>
      \/ r = <<Reply(200, NoValue), DeletedAt(k)>>
      \/ r = <<Reply(500, NoValue), store>>
  BY <1>1, <1>3, <1>5 DEF HandleRequest, Writes
<1> QED
  BY <1>4, <1>6 DEF Reply

-----------------------------------------------------------------------------
(* The store holds values, whoever writes.                                 *)

LEMMA StoreKept ==
    ASSUME StoreTypeOK, NEW m, NEW p, NEW t, NEW k, NEW D, NEW items \in [D -> Value],
           NEW r \in HandleRequest(Request(m, p, t, k, items))
    PROVE  r[2] \in [Key -> Value \cup {NoValue}]
<1> DEFINE req == Request(m, p, t, k, items)
<1>1. req.items = items
  BY DEF Request
<1>2. r \in HandleRequest(req)
  OBVIOUS
<1> HIDE DEF req
<1>3. r[2] = store \/ r \in Writes(req)
  BY <1>2 DEF HandleRequest
<1>4. ASSUME NEW s \in SUBSET D PROVE With(items, s) \in [Key -> Value \cup {NoValue}]
  BY <1>4 DEF With, StoreTypeOK
<1>5. DeletedAt(req.key) \in [Key -> Value \cup {NoValue}]
  BY DEF DeletedAt, StoreTypeOK
<1>6. CASE r \in Writes(req)
  <2>1. D = DOMAIN items
    OBVIOUS
  <2>2. CASE req.path = "/put"
    <3>1. r[2] = With(items, D) \/ r[2] = store
      BY <1>1, <1>6, <2>1, <2>2 DEF Writes
    <3> QED
      BY <1>4, <3>1 DEF StoreTypeOK
  <2>3. CASE req.path = "/batch"
    <3>1. \E s \in SUBSET D : r[2] = With(items, s)
      BY <1>1, <1>6, <2>1, <2>3 DEF Writes
    <3> QED
      BY <1>4, <3>1
  <2>4. CASE req.path = "/delete"
    BY <1>5, <1>6, <2>4 DEF Writes, StoreTypeOK
  <2>5. CASE req.path \notin {"/put", "/batch", "/delete"}
    BY <1>6, <2>5 DEF Writes
  <2> QED
    BY <2>2, <2>3, <2>4, <2>5
<1> QED
  BY <1>3, <1>6 DEF StoreTypeOK

LEMMA WriteRepliesKept ==
    ASSUME StoreTypeOK, NEW r \in WriteReplies
    PROVE  r[2] \in [Key -> Value \cup {NoValue}]
<1>1. ASSUME NEW path, NEW keys, r \in Send(path, keys)
      PROVE  r[2] \in [Key -> Value \cup {NoValue}]
  <2>1. [k \in keys |-> TestValue] \in [keys -> Value]
    BY TestAssumption
  <2> QED
    BY <1>1, <2>1, StoreKept DEF Send
<1>2. \E path, keys : r \in Send(path, keys)
  BY DEF WriteReplies
<1> QED
  BY <1>1, <1>2

LEMMA TestStoreKept ==
    ASSUME StoreTypeOK, TestNext
    PROVE  StoreTypeOK'
<1>1. store' = store \/ \E r \in WriteReplies : store' = r[2]
  BY DEF TestNext, TestStep, WaitForReady, GetTokenFromLogs, TestWrite, HappyGet, Verify,
         BenchRequest, LoopEnds, RequestFails, GetTokenRaises, SaveResults, SaveRaises,
         Exit, Interrupted
<1> QED
  BY <1>1, WriteRepliesKept DEF StoreTypeOK

-----------------------------------------------------------------------------
(* One client.                                                             *)

(* The variables that are functions of the client.                         *)
ByClient ==
    /\ call \in [Client -> Operations]
    /\ stage \in [Client -> {"idle", "sent", "answered"}]
    /\ answer = [c \in Client |-> answer[c]]
    /\ result = [c \in Client |-> result[c]]
    /\ seen = [c \in Client |-> seen[c]]
    /\ left = [c \in Client |-> left[c]]

(* The reply on its way says what the call has left, or seen.              *)
WriteAnswer(o, a, v, w) ==
    o.op \in {"put", "delete"} =>
        /\ a.status \in {200, 201, 400, 401, 500}
        /\ a.status \in {200, 201} /\ (o.op = "put" \/ o.key \notin Reserved) => w = o.value
        /\ a.status \notin {200, 201} => w = v

GetAnswer(o, a, v, t) ==
    o.op = "get" /\ o.key \notin Reserved =>
        \/ a = Reply(401, NoValue)
        \/ v = NoValue /\ a = Reply(404, NoValue) /\ CheckAuth(t)
        \/ v # NoValue /\ a = Reply(200, v)

(* The two properties, for one client that has no call under way.          *)
WriteResult(o, res, v, w) ==
    o.op \in {"put", "delete"} =>
        /\ res = <<"none">> /\ (o.op = "put" \/ o.key \notin Reserved) => w = o.value
        /\ res[1] = "SndvError" => w = v

GetResult(o, res, v, t) ==
    o.op = "get" /\ o.key \notin Reserved =>
        /\ res = <<"none">> => v = NoValue /\ CheckAuth(t)
        /\ res[1] = "value" /\ v \notin Unescaped => res[2] = v

CallInv(c) ==
    /\ stage[c] = "sent" => seen[c] = left[c]
    /\ stage[c] = "answered" =>
          /\ WriteAnswer(call[c], answer[c], seen[c], left[c])
          /\ GetAnswer(call[c], answer[c], seen[c], headers[c])
    /\ stage[c] = "idle" =>
          /\ WriteResult(call[c], result[c], seen[c], left[c])
          /\ GetResult(call[c], result[c], seen[c], headers[c])

ClientInv == StoreTypeOK /\ ByClient /\ \A c \in Client : CallInv(c)

(* The clauses of the inductive invariant are the properties.              *)
LEMMA ClientInvImplies == ClientInv => EffectsAreReported /\ GetIsCurrent
  BY DEF ClientInv, ByClient, CallInv, WriteResult, GetResult, EffectsAreReported, GetIsCurrent

(* What a call makes of a reply is what the reply says.                    *)
LEMMA ResultsAgree ==
    ASSUME NEW o, NEW a, NEW v, NEW w, NEW t,
           WriteAnswer(o, a, v, w), GetAnswer(o, a, v, t),
           NEW r \in Results(o.op, a)
    PROVE  WriteResult(o, r, v, w) /\ GetResult(o, r, v, t)
<1>1. CASE o.op \in {"put", "delete"}
  <2>1. o.op # "get" /\ a.status \in {200, 201, 400, 401, 500}
    BY <1>1 DEF WriteAnswer
  <2>2. CASE a.status \in {200, 201}
    <3>1. r \in {<<"none">>}
      BY <2>1, <2>2 DEF Results
    <3> QED
      BY <1>1, <2>1, <2>2, <3>1 DEF WriteResult, GetResult, WriteAnswer
  <2>3. CASE a.status \in {400, 401, 500}
    <3>1. r \in {<<"SndvError", a.status>>}
      BY <2>1, <2>3 DEF Results, Raise
    <3>2. w = v
      BY <1>1, <2>3 DEF WriteAnswer
    <3> QED
      BY <1>1, <2>1, <3>1, <3>2 DEF WriteResult, GetResult
  <2> QED
    BY <2>1, <2>2, <2>3
<1>2. CASE o.op = "get" /\ o.key \notin Reserved
  <2>1. CASE a = Reply(401, NoValue)
    <3>1. r \in {<<"SndvError", 401>>}
      BY <1>2, <2>1 DEF Results, Reply, Raise, NotFound
    <3> QED
      BY <1>2, <3>1 DEF WriteResult, GetResult
  <2>2. CASE v = NoValue /\ a = Reply(404, NoValue) /\ CheckAuth(t)
    <3>1. r \in {<<"none">>}
      BY <1>2, <2>2 DEF Results, Reply, Raise, NotFound
    <3> QED
      BY <1>2, <2>2, <3>1 DEF WriteResult, GetResult
  <2>3. CASE v # NoValue /\ a = Reply(200, v)
    <3>1. r \in {IF x = NoValue THEN <<"raised">> ELSE <<"value", x>> : x \in Decoded(v)}
      BY <1>2, <2>3 DEF Results, Reply
    <3>2. PICK x \in Decoded(v) : r = IF x = NoValue THEN <<"raised">> ELSE <<"value", x>>
      BY <3>1
    <3>3. v \notin Unescaped => x = v
      BY DEF Decoded
    <3> QED
      BY <1>2, <3>2, <3>3 DEF WriteResult, GetResult
  <2> QED
    BY <1>2, <2>1, <2>2, <2>3 DEF GetAnswer
<1> QED
  BY <1>1, <1>2 DEF WriteResult, GetResult

(* A call that ends leaves the other clients as they were.                 *)
LEMMA FinishKeeps ==
    ASSUME ClientInv, NEW c \in Client, NEW r, Finish(c, r),
           WriteResult(call[c], r, seen[c], left[c]),
           GetResult(call[c], r, seen[c], headers[c])
    PROVE  ClientInv'
<1>1. ByClient'
  BY DEF ClientInv, ByClient, Finish
<1>2. ASSUME NEW d \in Client PROVE CallInv(d)'
  <2>1. CASE d = c
    <3>1. stage'[d] = "idle" /\ result'[d] = r
      BY <2>1 DEF ClientInv, ByClient, Finish
    <3> QED
      BY <2>1, <3>1 DEF CallInv, Finish
  <2>2. CASE d # c
    <3>1. stage'[d] = stage[d] /\ result'[d] = result[d] /\ answer'[d] = answer[d]
      BY <2>2 DEF ClientInv, ByClient, Finish
    <3>2. call' = call /\ seen' = seen /\ left' = left /\ headers' = headers
      BY DEF Finish
    <3> QED
      BY <3>1, <3>2 DEF ClientInv, CallInv
  <2> QED
    BY <2>1, <2>2
<1> QED
  BY <1>1, <1>2 DEF ClientInv, StoreTypeOK, Finish

(* A handled call: its reply, and what the client may conclude from it.    *)
LEMMA HandleAnswers ==
    ASSUME ClientInv, NEW c \in Client, NEW req \in RequestsOf(c),
           NEW r \in HandleRequest(req)
    PROVE  /\ WriteAnswer(call[c], r[1], At(store, call[c].key), At(r[2], call[c].key))
           /\ GetAnswer(call[c], r[1], At(store, call[c].key), headers[c])
<1> DEFINE o == call[c]
           t == headers[c]
<1>1. o \in Operations /\ StoreTypeOK
  BY DEF ClientInv, ByClient
<1>2. CASE o.op = "put"
  <2>1. o.key \in Key
    <3>1. o \in [op : {"put"}, key : ClientKeys, value : Value]
      BY <1>1, <1>2 DEF Operations, NoCall
    <3> QED
      BY <3>1, ClientAssumption
  <2>2. req = Request("POST", "/put", t, NoKey, [k \in {o.key} |-> o.value])
    BY <1>2 DEF RequestsOf
  <2> HIDE DEF o, t
  <2>3. /\ r[1].status \in {201, 401, 500}
        /\ r[1].status = 201 => r[2][o.key] = o.value
        /\ r[1].status # 201 => r[2] = store
    BY <2>1, <2>2, PutReply
  <2> QED
    BY <1>2, <2>1, <2>3 DEF WriteAnswer, GetAnswer, At, o
<1>3. CASE o.op = "delete"
  <2>1. o.key \in Key /\ o.value = NoValue
    <3>1. o \in [op : {"get", "delete"}, key : ClientKeys, value : {NoValue}]
      BY <1>1, <1>3 DEF Operations, NoCall
    <3> QED
      BY <3>1, ClientAssumption
  <2>2. PICK k \in Arriving(o.key) : req = Request("POST", "/delete", t, k, NoItems)
    BY <1>3 DEF RequestsOf
  <2>3. o.key \notin Reserved => k = o.key
    BY DEF Arriving
  <2>4. /\ r[1].status \in {200, 400, 401, 500}
        /\ r[1].status = 200 /\ k \in Key => r[2][k] = NoValue
        /\ r[1].status # 200 => r[2] = store
    BY <1>1, <2>2, DeleteReply
  <2> QED
    BY <1>3, <2>1, <2>3, <2>4 DEF WriteAnswer, GetAnswer, At
<1>4. CASE o.op = "get" /\ o.key \notin Reserved
  <2>1. o.key \in Key
    <3>1. o \in [op : {"get", "delete"}, key : ClientKeys, value : {NoValue}]
      BY <1>1, <1>4 DEF Operations, NoCall
    <3> QED
      BY <3>1, ClientAssumption
  <2>2. req = Request("GET", "/get", t, o.key, NoItems)
    BY <1>4 DEF RequestsOf, Arriving
  <2>3. /\ ~CheckAuth(t) => r[1] = Reply(401, NoValue)
        /\ CheckAuth(t) => r[1] = IF store[o.key] = NoValue THEN Reply(404, NoValue)
                                                            ELSE Reply(200, store[o.key])
    BY <2>1, <2>2, GetReply
  <2> QED
    BY <1>4, <2>1, <2>3 DEF WriteAnswer, GetAnswer, At
<1> QED
  BY <1>2, <1>3, <1>4 DEF WriteAnswer, GetAnswer

LEMMA CallKeeps ==
    ASSUME ClientInv, NEW c \in Client, Call(c)
    PROVE  ClientInv'
<1>1. PICK o \in Operations : call' = [call EXCEPT ![c] = o]
  BY DEF Call
<1>2. ByClient'
  BY <1>1 DEF ClientInv, ByClient, Call
<1>3. ASSUME NEW d \in Client PROVE CallInv(d)'
  <2>1. CASE d = c
    <3>1. stage'[d] = "sent" /\ seen'[d] = left'[d]
      BY <2>1 DEF ClientInv, ByClient, Call
    <3> QED
      BY <3>1 DEF CallInv
  <2>2. CASE d # c
    <3>1. /\ stage'[d] = stage[d] /\ result'[d] = result[d] /\ seen'[d] = seen[d]
          /\ left'[d] = left[d] /\ call'[d] = call[d] /\ answer' = answer
          /\ headers' = headers
      BY <1>1, <2>2 DEF ClientInv, ByClient, Call
    <3> QED
      BY <3>1 DEF ClientInv, CallInv
  <2> QED
    BY <2>1, <2>2
<1> QED
  BY <1>2, <1>3 DEF ClientInv, StoreTypeOK, Call

LEMMA ClientStoreKept ==
    ASSUME ClientInv, StoreTypeOK, NEW c \in Client, Handle(c)
    PROVE  StoreTypeOK'
<1>1. PICK req \in RequestsOf(c) : \E r \in HandleRequest(req) : store' = r[2]
  BY DEF Handle
<1>2. call[c] \in Operations
  BY DEF ClientInv, ByClient
<1>3. \E m, p, k, D : \E items \in [D -> Value] : req = Request(m, p, headers[c], k, items)
  <2>1. NoItems \in [{} -> Value]
    BY DEF NoItems
  <2>2. CASE call[c].op = "put"
    <3>1. call[c] \in [op : {"put"}, key : ClientKeys, value : Value]
      BY <1>2, <2>2 DEF Operations, NoCall
    <3>2. [k \in {call[c].key} |-> call[c].value] \in [{call[c].key} -> Value]
      BY <3>1
    <3>3. req = Request("POST", "/put", headers[c], NoKey, [k \in {call[c].key} |-> call[c].value])
      BY <2>2 DEF RequestsOf
    <3> QED
      BY <3>2, <3>3
  <2>3. CASE call[c].op \in {"get", "delete"}
    <3>1. \E m, p, k : req = Request(m, p, headers[c], k, NoItems)
      BY <2>3 DEF RequestsOf
    <3> QED
      BY <2>1, <3>1
  <2>4. CASE call[c].op \notin {"put", "get", "delete"}
    <3>1. req = Request("GET", "/metrics", headers[c], NoKey, NoItems)
      BY <2>4 DEF RequestsOf
    <3> QED
      BY <2>1, <3>1
  <2> QED
    BY <2>2, <2>3, <2>4
<1> QED
  BY <1>1, <1>3, StoreKept DEF StoreTypeOK

LEMMA HandleKeeps ==
    ASSUME ClientInv, NEW c \in Client, Handle(c)
    PROVE  ClientInv'
<1> DEFINE key == call[c].key
<1>1. PICK req \in RequestsOf(c) : \E r \in HandleRequest(req) :
          /\ answer' = [answer EXCEPT ![c] = r[1]]
          /\ left' = [left EXCEPT ![c] = At(r[2], key)]
  BY DEF Handle
<1>2. PICK r \in HandleRequest(req) :
          /\ answer' = [answer EXCEPT ![c] = r[1]]
          /\ left' = [left EXCEPT ![c] = At(r[2], key)]
  BY <1>1
<1>3. /\ WriteAnswer(call[c], r[1], At(store, key), At(r[2], key))
      /\ GetAnswer(call[c], r[1], At(store, key), headers[c])
  BY HandleAnswers
<1>4. /\ seen' = [seen EXCEPT ![c] = At(store, key)]
      /\ stage' = [stage EXCEPT ![c] = "answered"]
      /\ call' = call /\ result' = result /\ headers' = headers
  BY DEF Handle
<1> HIDE DEF key
<1>5. ByClient'
  BY <1>2, <1>4 DEF ClientInv, ByClient
<1>6. ASSUME NEW d \in Client PROVE CallInv(d)'
  <2>1. CASE d = c
    <3>1. /\ stage'[d] = "answered" /\ answer'[d] = r[1]
          /\ seen'[d] = At(store, key) /\ left'[d] = At(r[2], key)
      BY <1>2, <1>4, <2>1 DEF ClientInv, ByClient
    <3> QED
      BY <1>3, <1>4, <2>1, <3>1 DEF CallInv
  <2>2. CASE d # c
    <3>1. /\ stage'[d] = stage[d] /\ answer'[d] = answer[d]
          /\ seen'[d] = seen[d] /\ left'[d] = left[d]
      BY <1>2, <1>4, <2>2 DEF ClientInv, ByClient
    <3> QED
      BY <1>4, <3>1 DEF ClientInv, CallInv
  <2> QED
    BY <2>1, <2>2
<1>7. StoreTypeOK'
  BY ClientStoreKept DEF ClientInv
<1> QED
  BY <1>5, <1>6, <1>7 DEF ClientInv

LEMMA EndKeeps ==
    ASSUME ClientInv, NEW c \in Client, Refused(c) \/ Lost(c) \/ Return(c)
    PROVE  ClientInv'
<1>1. CallInv(c)
  BY DEF ClientInv
<1>2. CASE Refused(c)
  <2>1. stage[c] = "sent" /\ Finish(c, <<"SndvError", 0>>) /\ left[c] = seen[c]
    BY <1>1, <1>2 DEF Refused, CallInv, ConnectionFailed, Raise, NotFound
  <2>2. /\ WriteResult(call[c], <<"SndvError", 0>>, seen[c], left[c])
        /\ GetResult(call[c], <<"SndvError", 0>>, seen[c], headers[c])
    BY <2>1 DEF WriteResult, GetResult
  <2> QED
    BY <2>1, <2>2, FinishKeeps
<1>3. CASE Lost(c)
  <2>1. /\ WriteResult(call[c], <<"raised">>, seen[c], left[c])
        /\ GetResult(call[c], <<"raised">>, seen[c], headers[c])
    BY DEF WriteResult, GetResult
  <2> QED
    BY <1>3, <2>1, FinishKeeps DEF Lost
<1>4. CASE Return(c)
  <2>1. PICK r \in Results(call[c].op, answer[c]) : Finish(c, r)
    BY <1>4 DEF Return
  <2>2. /\ WriteAnswer(call[c], answer[c], seen[c], left[c])
        /\ GetAnswer(call[c], answer[c], seen[c], headers[c])
    BY <1>1, <1>4 DEF Return, CallInv
  <2>3. /\ WriteResult(call[c], r, seen[c], left[c])
        /\ GetResult(call[c], r, seen[c], headers[c])
    BY <1>1, <2>1, <2>2, ResultsAgree
  <2> QED
    BY <2>1, <2>3, FinishKeeps
<1> QED
  BY <1>2, <1>3, <1>4

(* What every client is told holds along every behaviour of several        *)
(* clients and the integration test on one server.                         *)
THEOREM ClientsInvariant == Spec => []ClientInv
<1>1. Init => ClientInv
  <2> SUFFICES ASSUME Init PROVE ClientInv
    OBVIOUS
  <2>1. NoCall \in Operations /\ NoCall.op = "metrics"
    BY DEF Operations, NoCall
  <2>2. ByClient
    BY <2>1 DEF Init, ClientInit, ByClient
  <2>3. ASSUME NEW c \in Client PROVE CallInv(c)
    <3>1. stage[c] = "idle" /\ call[c].op = "metrics"
      BY <2>1 DEF Init, ClientInit
    <3> QED
      BY <3>1 DEF CallInv, WriteResult, GetResult
  <2>4. StoreTypeOK
    BY DEF Init, StoreInit, StoreTypeOK
  <2> QED
    BY <2>2, <2>3, <2>4 DEF ClientInv
<1>2. ClientInv /\ [Next]_vars => ClientInv'
  <2> SUFFICES ASSUME ClientInv, [Next]_vars PROVE ClientInv'
    OBVIOUS
  <2>1. ASSUME UNCHANGED clientVars, StoreTypeOK' PROVE ClientInv'
    BY <2>1 DEF clientVars, ClientInv, ByClient, CallInv
  <2>2. CASE ClientNext
    BY <2>2, CallKeeps, HandleKeeps, EndKeeps DEF ClientNext
  <2>3. CASE TestNext /\ UNCHANGED clientVars
    BY <2>1, <2>3, TestStoreKept DEF ClientInv
  <2>4. CASE UNCHANGED vars
    BY <2>1, <2>4 DEF vars, ClientInv, StoreTypeOK
  <2> QED
    BY <2>2, <2>3, <2>4 DEF Next
<1> QED
  BY <1>1, <1>2, PTL DEF Spec

(* A put or delete of sndv.py that returns has had its effect, one that    *)
(* raises SndvError has left the key as it was.                            *)
THEOREM EffectsAreAlwaysReported == Spec => []EffectsAreReported
  BY ClientsInvariant, ClientInvImplies, PTL

(* A get of sndv.py returns what the store held while the call ran, and    *)
(* None only if that was nothing and its token was accepted.               *)
THEOREM GetIsAlwaysCurrent == Spec => []GetIsCurrent
  BY ClientsInvariant, ClientInvImplies, PTL

-----------------------------------------------------------------------------
(* The integration test.                                                   *)

TestResults == BOOLEAN \cup Nat
Truths == Value \cup {NoValue} \cup Nat

(* What a result says, given what happened.                                *)
Agrees(i, passed, happened) ==
    IF i = 1 THEN passed => happened \in {TestValue} \cup Unescaped /\ token = "valid"
             ELSE passed = IF token = "valid" THEN happened ELSE 0

ResultsTyped ==
    /\ tests \in Seq(TestResults) /\ truth \in Seq(Truths) /\ Len(tests) = Len(truth)
    /\ \A i \in DOMAIN tests : Agrees(i, tests[i], truth[i])

(* The counter of a loop, and the number of results at each label.         *)
LoopTells ==
    /\ loop \in [i : Nat, count : Nat, truth : Nat]
    /\ loop.count = IF token = "valid" THEN loop.truth ELSE 0

TokenKnown ==
    /\ tpc \in {"ready", "token"} => loop = Start
    /\ tpc \in {"put", "get", "critical", "verify", "single", "batch"} =>
          token \in {"valid", "placeholder"}

Saving == {"saveJson", "saveSummary", "return"}

ResultsSoFar ==
    /\ tpc \in {"ready", "token", "put", "get"} => Len(tests) = 0
    /\ tpc \in {"critical", "verify"} => Len(tests) = 1
    /\ tpc = "single" => Len(tests) = 2
    /\ tpc = "batch" => Len(tests) = 3
    /\ tpc \in Saving => (error = NoError <=> Len(tests) = 4)

Labels == {"ready", "token", "put", "get", "critical", "verify", "single", "batch", "exit"}
          \cup Saving

(* The files at each label.                                                *)
SavedSoFar ==
    /\ tpc \in Labels
    /\ artifacts = [json |-> artifacts.json, summary |-> artifacts.summary]
    /\ tpc # "exit" => escaped = Returned
    /\ tpc \notin Saving \cup {"exit"} => error = NoError
    /\ tpc \notin {"saveSummary", "return", "exit"} => artifacts.json = NoFile
    /\ tpc \in {"saveSummary", "return"} => artifacts.json = File("complete", tests, error)
    /\ tpc \notin {"return", "exit"} => artifacts.summary = NoFile
    /\ tpc = "return" => artifacts.summary = File("complete", tests, NoError)

TestInv ==
    /\ ResultsTyped /\ LoopTells /\ TokenKnown /\ ResultsSoFar
    /\ SavedSoFar /\ ArtifactsMatchExit

LEMMA TestInvImplies == TestInv => TestsTellTruth /\ ArtifactsMatchExit
  BY DEF TestInv, ResultsTyped, Agrees, TestsTellTruth

LEMMA AppendAgrees ==
    ASSUME ResultsTyped, NEW a \in TestResults, NEW b \in Truths,
           Agrees(Len(tests) + 1, a, b),
           tests' = Append(tests, a), truth' = Append(truth, b), token' = token
    PROVE  ResultsTyped' /\ Len(tests') = Len(tests) + 1
<1>1. tests \in Seq(TestResults) /\ truth \in Seq(Truths) /\ Len(tests) = Len(truth)
  BY DEF ResultsTyped
<1>2. /\ tests' \in Seq(TestResults) /\ truth' \in Seq(Truths)
      /\ Len(tests') = Len(tests) + 1 /\ Len(truth') = Len(tests) + 1
      /\ tests'[Len(tests) + 1] = a /\ truth'[Len(tests) + 1] = b
      /\ \A i \in 1..Len(tests) : tests'[i] = tests[i] /\ truth'[i] = truth[i]
  BY <1>1
<1>3. DOMAIN tests = 1..Len(tests) /\ DOMAIN tests' = 1..(Len(tests) + 1) /\ Len(tests) \in Nat
  BY <1>1, <1>2
<1>4. ASSUME NEW i \in DOMAIN tests' PROVE Agrees(i, tests'[i], truth'[i])
  <2>1. CASE i \in DOMAIN tests
    BY <1>2, <1>3, <2>1 DEF ResultsTyped
  <2>2. CASE i = Len(tests) + 1
    BY <1>2, <2>2
  <2> DEFINE n == Len(tests)
  <2>3. n \in Nat /\ DOMAIN tests = 1..n /\ i \in 1..(n + 1)
    BY <1>3
  <2> HIDE DEF n
  <2>4. i \in 1..n \/ i = n + 1
    BY <2>3
  <2> QED
    BY <2>1, <2>2, <2>3, <2>4 DEF n
<1> QED
  BY <1>2, <1>4 DEF ResultsTyped, Agrees

(* Without a token that is accepted nothing is created.                    *)
LEMMA WriteNeedsToken ==
    ASSUME NEW r \in WriteReplies, r[1].status = 201, token \in {"valid", "placeholder"}
    PROVE  token = "valid"
<1>1. PICK path, keys : r \in Send(path, keys)
  BY DEF WriteReplies
<1> DEFINE req == Request("POST", path, token, NoKey, [k \in keys |-> TestValue])
<1>2. r \in HandleRequest(req) /\ req.token = token
  BY <1>1 DEF Send, Request
<1> HIDE DEF req
<1> SUFFICES ASSUME token = "placeholder" PROVE FALSE
  OBVIOUS
<1>3. Refusal(req) = 401
  BY <1>2 DEF Refusal, CheckAuth
<1>4. r \in {<<Reply(401, NoValue), store>>}
  BY <1>2, <1>3 DEF HandleRequest
<1> QED
  BY <1>4 DEF Reply

(* A get is answered with 200 if there is a value and the token is good.   *)
LEMMA AskReply ==
    ASSUME NEW key \in Key, NEW r \in Ask(key), token \in {"valid", "placeholder"}
    PROVE  r[1].status = 200 <=> token = "valid" /\ store[key] # NoValue
<1>1. /\ ~CheckAuth(token) => r[1] = Reply(401, NoValue)
      /\ CheckAuth(token) => r[1] = IF store[key] = NoValue THEN Reply(404, NoValue)
                                                           ELSE Reply(200, store[key])
  BY GetReply DEF Ask
<1>2. CheckAuth(token) <=> token = "valid"
  BY DEF CheckAuth
<1> QED
  BY <1>1, <1>2 DEF Reply

(* A step that leaves the results alone keeps what they say.               *)
LEMMA SameResultsKeep ==
    ASSUME TestInv, loop' = loop \/ loop' = Start, token' = token,
           tests' = tests, truth' = truth
    PROVE  ResultsTyped' /\ LoopTells'
<1>1. ResultsTyped'
  BY DEF TestInv, ResultsTyped, Agrees
<1>2. CASE loop' = loop
  BY <1>1, <1>2 DEF TestInv, LoopTells
<1>3. CASE loop' = Start
  BY <1>1, <1>3 DEF LoopTells, Start
<1> QED
  BY <1>2, <1>3

(* run_all records an error, at any label of the tests.                    *)
LEMMA AbortKeeps ==
    ASSUME TestInv, tpc \notin Saving \cup {"token", "exit"}, Abort
    PROVE  TestInv'
<1>1. /\ tpc' = "saveJson" /\ error' = "recorded" /\ loop' = Start
      /\ token' = token /\ tests' = tests /\ truth' = truth
      /\ UNCHANGED <<artifacts, texit, escaped>>
  BY DEF Abort, AbortSaves
<1>2. ResultsTyped' /\ LoopTells'
  BY <1>1, SameResultsKeep
<1>3. Len(tests) # 4
  <2>1. tpc \in {"ready", "put", "get", "critical", "verify", "single", "batch"}
    BY DEF TestInv, SavedSoFar, Labels
  <2>2. Len(tests) = 0 \/ Len(tests) = 1 \/ Len(tests) = 2 \/ Len(tests) = 3
    <3>1. ResultsSoFar
      BY DEF TestInv
    <3> QED
      BY <2>1, <3>1 DEF ResultsSoFar
  <2> QED
    BY <2>2
<1>4. ResultsSoFar'
  BY <1>1, <1>3 DEF ResultsSoFar, NoError, Saving
<1>5. SavedSoFar'
  BY <1>1 DEF TestInv, SavedSoFar, Labels, Saving
<1> QED
  BY <1>1, <1>2, <1>4, <1>5 DEF TestInv, TokenKnown, ArtifactsMatchExit

(* An exception or an interrupt leaves run_all, at any label.              *)
LEMMA EscapeKeeps ==
    ASSUME TestInv, tpc # "exit", NEW code \in {1, 130}, Escape(code)
    PROVE  TestInv'
<1>1. /\ tpc' = "exit" /\ texit' = code /\ escaped' = tpc /\ loop' = Start
      /\ token' = token /\ tests' = tests /\ truth' = truth /\ error' = error
      /\ artifacts' \in CutShort
  BY DEF Escape
<1>2. ResultsTyped' /\ LoopTells'
  BY <1>1, SameResultsKeep
<1>3. /\ tpc \in Labels /\ tpc # Returned
      /\ artifacts = [json |-> artifacts.json, summary |-> artifacts.summary]
  BY DEF TestInv, SavedSoFar, Labels, Saving, Returned
<1>4. /\ artifacts' = [json |-> artifacts'.json, summary |-> artifacts'.summary]
      /\ artifacts'.json = artifacts.json \/ (tpc = "saveJson" /\ artifacts'.json = Torn)
      /\ \/ artifacts'.summary = artifacts.summary
         \/ tpc = "saveSummary" /\ artifacts'.summary = Torn
  BY <1>1, <1>3 DEF CutShort
<1>5. SavedSoFar'
  BY <1>1, <1>4 DEF SavedSoFar, Labels
<1>6. /\ NoFile.state = "none" /\ Torn.state = "torn"
      /\ \A e : File("complete", tests, e) = [state |-> "complete", tests |-> tests, error |-> e]
  BY DEF NoFile, Torn, File
<1>7. /\ artifacts'.json.state = "complete" <=> tpc \in {"saveSummary", "return"}
      /\ artifacts'.json.state = "complete" =>
            artifacts'.json.tests = tests /\ artifacts'.json.error = error
  <2>1. CASE tpc \in {"saveSummary", "return"}
    <3>1. artifacts'.json = [state |-> "complete", tests |-> tests, error |-> error]
      BY <1>4, <1>6, <2>1 DEF TestInv, SavedSoFar
    <3> QED
      BY <2>1, <3>1
  <2>2. CASE tpc \notin {"saveSummary", "return"}
    <3>1. artifacts'.json \in {NoFile, Torn}
      BY <1>4, <2>2 DEF TestInv, SavedSoFar
    <3> QED
      BY <1>6, <2>2, <3>1
  <2> QED
    BY <2>1, <2>2
<1>8. artifacts'.summary.state # "none" => tpc \in {"saveSummary", "return"}
  BY <1>4, <1>6 DEF TestInv, SavedSoFar
<1>9. tpc \in {"saveSummary", "return"} => (error = NoError <=> Len(tests) = 4)
  BY DEF TestInv, ResultsSoFar, Saving
<1>10. ArtifactsMatchExit'
  BY <1>1, <1>3, <1>7, <1>8, <1>9 DEF ArtifactsMatchExit
<1> QED
  BY <1>1, <1>2, <1>5, <1>10 DEF TestInv, TokenKnown, ResultsSoFar, Saving

(* A step to another label that changes no result.                         *)
LEMMA MoveKeeps ==
    ASSUME TestInv, Continue, SameResults,
           \/ To("ready", "token") \/ To("put", "get") \/ To("critical", "verify")
    PROVE  TestInv'
<1>1. UNCHANGED <<token, error, artifacts, texit, escaped, loop, tests, truth>>
  BY DEF Continue, Unsaved, SameResults
<1>2. ResultsTyped' /\ LoopTells'
  BY <1>1, SameResultsKeep
<1>3. TokenKnown' /\ ResultsSoFar'
  BY <1>1 DEF To, TestInv, TokenKnown, ResultsSoFar, Saving
<1>4. SavedSoFar' /\ ArtifactsMatchExit'
  BY <1>1 DEF To, TestInv, SavedSoFar, Labels, Saving, ArtifactsMatchExit
<1> QED
  BY <1>2, <1>3, <1>4 DEF TestInv

LEMMA HappyGetKeeps ==
    ASSUME TestInv, StoreTypeOK, HappyGet
    PROVE  TestInv'
<1>1. /\ tpc = "get" /\ tpc' = "critical" /\ Continue /\ loop' = loop
      /\ truth' = Append(truth, store[TestKey])
  BY DEF HappyGet, To
<1>2. PICK r \in Ask(TestKey) : \E v \in Decoded(r[1].val) :
          tests' = Append(tests, HappyPassed(r[1], v))
  BY DEF HappyGet
<1>3. PICK v \in Decoded(r[1].val) : tests' = Append(tests, HappyPassed(r[1], v))
  BY <1>2
<1>4. TestKey \in Key /\ token \in {"valid", "placeholder"} /\ Len(tests) = 0
  BY <1>1, TestAssumption DEF TestInv, TokenKnown, ResultsSoFar
<1>5. HappyPassed(r[1], v) => store[TestKey] \in {TestValue} \cup Unescaped /\ token = "valid"
  <2> SUFFICES ASSUME r[1].status = 200, v = TestValue
               PROVE  store[TestKey] \in {TestValue} \cup Unescaped /\ token = "valid"
    BY DEF HappyPassed
  <2>1. token = "valid" /\ store[TestKey] # NoValue
    BY <1>4, AskReply
  <2>2. r[1] = Reply(200, store[TestKey])
    <3>1. CheckAuth(token)
      BY <2>1 DEF CheckAuth
    <3>2. r \in HandleRequest(Request("GET", "/get", token, TestKey, NoItems))
      BY DEF Ask
    <3>3. r[1] = IF store[TestKey] = NoValue THEN Reply(404, NoValue) ELSE Reply(200, store[TestKey])
      BY <1>4, <3>1, <3>2, GetReply
    <3> QED
      BY <2>1, <3>3
  <2> QED
    BY <1>3, <2>1, <2>2 DEF Decoded, Reply
<1>6. Agrees(Len(tests) + 1, HappyPassed(r[1], v), store[TestKey])
  BY <1>4, <1>5 DEF Agrees
<1>7. HappyPassed(r[1], v) \in TestResults /\ store[TestKey] \in Truths
  <2>1. HappyPassed(r[1], v) \in BOOLEAN
    BY DEF HappyPassed
  <2>2. store[TestKey] \in Truths
    BY <1>4 DEF StoreTypeOK, Truths
  <2> QED
    BY <2>1, <2>2 DEF TestResults
<1>8. ResultsTyped' /\ Len(tests') = 1
  BY <1>1, <1>3, <1>4, <1>6, <1>7, AppendAgrees DEF TestInv, Continue
<1>9. UNCHANGED <<token, error, artifacts, texit, escaped>>
  BY <1>1 DEF Continue, Unsaved
<1>10. LoopTells' /\ TokenKnown' /\ ResultsSoFar'
  BY <1>1, <1>8, <1>9 DEF TestInv, LoopTells, TokenKnown, ResultsSoFar, Saving
<1>11. SavedSoFar' /\ ArtifactsMatchExit'
  BY <1>1, <1>9 DEF TestInv, SavedSoFar, Labels, Saving, ArtifactsMatchExit
<1> QED
  BY <1>8, <1>10, <1>11 DEF TestInv

(* A turn of a loop: the count and the truth grow alike.                   *)
LEMMA TurnKeeps ==
    ASSUME TestInv, NEW n \in Nat, NEW m \in Nat,
           tpc \in {"verify", "single", "batch"}, n = IF token = "valid" THEN m ELSE 0,
           loop' = [i |-> loop.i + 1, count |-> loop.count + n, truth |-> loop.truth + m],
           Continue, UNCHANGED <<tpc, tests, truth>>
    PROVE  TestInv'
<1>1. LoopTells'
  <2>1. loop.i \in Nat /\ loop.count \in Nat /\ loop.truth \in Nat
        /\ loop.count = IF token = "valid" THEN loop.truth ELSE 0
    BY DEF TestInv, LoopTells
  <2>2. loop' \in [i : Nat, count : Nat, truth : Nat]
    BY <2>1
  <2>3. loop'.count = loop.count + n /\ loop'.truth = loop.truth + m /\ token' = token
    BY DEF Continue
  <2>4. loop.count + n = IF token = "valid" THEN loop.truth + m ELSE 0
    BY <2>1
  <2> QED
    BY <2>2, <2>3, <2>4 DEF LoopTells
<1>2. UNCHANGED <<token, error, artifacts, texit, escaped, tpc, tests, truth>>
  BY DEF Continue, Unsaved
<1>3. ResultsTyped'
  BY <1>2 DEF TestInv, ResultsTyped, Agrees
<1>4. TokenKnown' /\ ResultsSoFar'
  BY <1>2 DEF TestInv, TokenKnown, ResultsSoFar
<1>5. SavedSoFar' /\ ArtifactsMatchExit'
  BY <1>2 DEF TestInv, SavedSoFar, ArtifactsMatchExit
<1> QED
  BY <1>1, <1>3, <1>4, <1>5 DEF TestInv

LEMMA VerifyKeeps ==
    ASSUME TestInv, Verify
    PROVE  TestInv'
<1> DEFINE key == CriticalKeys[loop.i + 1]
<1>1. /\ tpc = "verify" /\ loop.i < Len(CriticalKeys)
      /\ Continue /\ UNCHANGED <<tpc, tests, truth>>
  BY DEF Verify
<1>2. PICK r \in Ask(key) :
          loop' = [i |-> loop.i + 1,
                   count |-> loop.count + (IF r[1].status = 200 THEN 1 ELSE 0),
                   truth |-> loop.truth + (IF store[key] # NoValue THEN 1 ELSE 0)]
  BY DEF Verify
<1>3. token \in {"valid", "placeholder"} /\ loop.i \in Nat
  BY <1>1 DEF TestInv, TokenKnown, LoopTells
<1>4. key \in Key
  BY <1>1, <1>3, TestAssumption
<1> HIDE DEF key
<1>5. r[1].status = 200 <=> token = "valid" /\ store[key] # NoValue
  BY <1>3, <1>4, AskReply
<1> QED
  BY <1>1, <1>2, <1>5, TurnKeeps

LEMMA BenchKeeps ==
    ASSUME TestInv, BenchRequest
    PROVE  TestInv'
<1>1. tpc \in {"single", "batch"} /\ Continue /\ UNCHANGED <<tpc, tests, truth>>
  BY DEF BenchRequest
<1>2. PICK r \in WriteReplies :
          loop' = [i |-> loop.i + 1, count |-> loop.count + CountCreated(r[1]),
                   truth |-> loop.truth + (IF r[1].status = 201 THEN BenchSize ELSE 0)]
  BY DEF BenchRequest
<1> DEFINE n == CountCreated(r[1])
           m == IF r[1].status = 201 THEN BenchSize ELSE 0
<1>3. token \in {"valid", "placeholder"} /\ BenchSize \in Nat
  BY <1>1, TestAssumption DEF TestInv, TokenKnown, BenchSize
<1>4. n \in Nat /\ m \in Nat /\ n = IF token = "valid" THEN m ELSE 0
  BY <1>3, WriteNeedsToken DEF CountCreated
<1>5. loop' = [i |-> loop.i + 1, count |-> loop.count + n, truth |-> loop.truth + m]
  BY <1>2
<1> HIDE DEF n, m
<1> QED
  BY <1>1, <1>4, <1>5, TurnKeeps

LEMMA LoopEndsKeeps ==
    ASSUME TestInv, LoopEnds
    PROVE  TestInv'
<1>1. /\ Continue /\ loop' = Start
      /\ tests' = Append(tests, loop.count) /\ truth' = Append(truth, loop.truth)
  BY DEF LoopEnds
<1>2. To("verify", "single") \/ To("single", "batch") \/ To("batch", "saveJson")
  BY DEF LoopEnds
<1>3. Len(tests) \in {1, 2, 3}
  BY <1>2 DEF TestInv, ResultsSoFar, To
<1>4. loop.count \in TestResults /\ loop.truth \in Truths
  BY DEF TestInv, LoopTells, TestResults, Truths
<1>5. Agrees(Len(tests) + 1, loop.count, loop.truth)
  BY SMTT(30), <1>3 DEF TestInv, LoopTells, Agrees
<1>6. ResultsTyped' /\ Len(tests') = Len(tests) + 1
  BY <1>1, <1>4, <1>5, AppendAgrees DEF TestInv, Continue
<1>7. LoopTells'
  BY <1>1 DEF LoopTells, Start
<1>8. ResultsSoFar'
  <2>1. CASE To("verify", "single")
    <3>1. tpc' = "single" /\ Len(tests) = 1
      BY <2>1 DEF To, TestInv, ResultsSoFar
    <3>2. Len(tests') = 2
      BY <1>6, <3>1
    <3> QED
      BY <3>1, <3>2 DEF ResultsSoFar, Saving
  <2>2. CASE To("single", "batch")
    <3>1. tpc' = "batch" /\ Len(tests) = 2
      BY <2>2 DEF To, TestInv, ResultsSoFar
    <3>2. Len(tests') = 3
      BY <1>6, <3>1
    <3> QED
      BY <3>1, <3>2 DEF ResultsSoFar, Saving
  <2>3. CASE To("batch", "saveJson")
    <3>1. tpc' = "saveJson" /\ Len(tests) = 3 /\ error' = NoError
      BY <1>1, <2>3 DEF To, TestInv, ResultsSoFar, SavedSoFar, Saving, Continue, Unsaved
    <3>2. Len(tests') = 4
      BY <1>6, <3>1
    <3> QED
      BY <3>1, <3>2 DEF ResultsSoFar
  <2> QED
    BY <1>2, <2>1, <2>2, <2>3
<1>9. UNCHANGED <<token, error, artifacts, texit, escaped>>
  BY <1>1 DEF Continue, Unsaved
<1>10. TokenKnown'
  BY <1>2, <1>9 DEF To, TestInv, TokenKnown
<1>11. SavedSoFar' /\ ArtifactsMatchExit'
  BY <1>2, <1>9 DEF To, TestInv, SavedSoFar, Labels, Saving, ArtifactsMatchExit
<1> QED
  BY <1>6, <1>7, <1>8, <1>10, <1>11 DEF TestInv

(* save_results and the return: the files are written in their order.      *)
LEMMA SaveKeeps ==
    ASSUME TestInv, SaveResults
    PROVE  TestInv'
<1>1. UNCHANGED <<token, loop, tests, truth, error, texit, escaped>>
  BY DEF SaveResults, SameResults
<1>2. ResultsTyped' /\ LoopTells'
  BY <1>1, SameResultsKeep
<1>3. artifacts = [json |-> artifacts.json, summary |-> artifacts.summary]
  BY DEF TestInv, SavedSoFar
<1>4. CASE To("saveJson", "saveSummary")
  <2>1. /\ tpc = "saveJson" /\ tpc' = "saveSummary"
        /\ artifacts' = [artifacts EXCEPT !.json = File("complete", tests, error)]
    BY <1>4 DEF SaveResults, To
  <2>2. /\ artifacts' = [json |-> artifacts'.json, summary |-> artifacts'.summary]
        /\ artifacts'.json = File("complete", tests, error)
        /\ artifacts'.summary = artifacts.summary
    BY <1>3, <2>1
  <2>3. SavedSoFar'
    BY <1>1, <2>1, <2>2 DEF TestInv, SavedSoFar, Labels, Saving
  <2> QED
    BY <1>1, <1>2, <2>1, <2>3 DEF TestInv, TokenKnown, ResultsSoFar, Saving,
       ArtifactsMatchExit
<1>5. CASE To("saveSummary", "return")
  <2>1. /\ tpc = "saveSummary" /\ tpc' = "return"
        /\ artifacts' = [artifacts EXCEPT !.summary = File("complete", tests, NoError)]
    BY <1>5 DEF SaveResults, To
  <2>2. /\ artifacts' = [json |-> artifacts'.json, summary |-> artifacts'.summary]
        /\ artifacts'.summary = File("complete", tests, NoError)
        /\ artifacts'.json = artifacts.json
    BY <1>3, <2>1
  <2>3. SavedSoFar'
    BY <1>1, <2>1, <2>2 DEF TestInv, SavedSoFar, Labels, Saving
  <2> QED
    BY <1>1, <1>2, <2>1, <2>3 DEF TestInv, TokenKnown, ResultsSoFar, Saving,
       ArtifactsMatchExit
<1> QED
  BY <1>4, <1>5 DEF SaveResults

LEMMA ExitKeeps ==
    ASSUME TestInv, Exit
    PROVE  TestInv'
<1>1. /\ tpc = "return" /\ tpc' = "exit" /\ texit' = IF error = NoError THEN 0 ELSE 1
      /\ UNCHANGED <<token, loop, tests, truth, error, artifacts, escaped>>
  BY DEF Exit, To, SameResults
<1>2. ResultsTyped' /\ LoopTells'
  BY <1>1, SameResultsKeep
<1>3. /\ escaped = Returned
      /\ artifacts.json = File("complete", tests, error)
      /\ artifacts.summary = File("complete", tests, NoError)
      /\ error = NoError <=> Len(tests) = 4
  BY <1>1 DEF TestInv, SavedSoFar, ResultsSoFar, Saving
<1>4. /\ artifacts.json.state = "complete" /\ artifacts.json.tests = tests
      /\ artifacts.json.error = error
  BY <1>3 DEF File
<1>5. ArtifactsMatchExit'
  BY <1>1, <1>3, <1>4 DEF ArtifactsMatchExit
<1>6. SavedSoFar'
  BY <1>1 DEF TestInv, SavedSoFar, Labels
<1> QED
  BY <1>1, <1>2, <1>5, <1>6 DEF TestInv, TokenKnown, ResultsSoFar, Saving

(* What the script records and saves is what happened, at every step of it *)
(* and of the clients that use the server meanwhile.                       *)
THEOREM TestInvariant == Spec => []TestInv
<1>1. Init => TestInv
  <2> SUFFICES ASSUME Init PROVE TestInv
    OBVIOUS
  <2>1. /\ tpc = "ready" /\ token = "" /\ loop = Start /\ tests = <<>> /\ truth = <<>>
        /\ artifacts = [json |-> NoFile, summary |-> NoFile]
        /\ error = NoError /\ escaped = Returned
    BY DEF Init, TestInit
  <2>2. ResultsTyped
    <3>1. tests = <<>> /\ truth = <<>>
      BY <2>1
    <3>2. <<>> \in Seq(TestResults) /\ <<>> \in Seq(Truths) /\ Len(<<>>) = 0
      OBVIOUS
    <3>3. DOMAIN <<>> = {}
      OBVIOUS
    <3> QED
      BY <3>1, <3>2, <3>3 DEF ResultsTyped
  <2>3. LoopTells
    BY <2>1 DEF LoopTells, Start
  <2>4. SavedSoFar
    BY <2>1 DEF SavedSoFar, Labels, Saving
  <2> QED
    BY <2>1, <2>2, <2>3, <2>4 DEF TestInv, TokenKnown, ResultsSoFar, Saving,
                                  ArtifactsMatchExit
<1>2. ClientInv /\ TestInv /\ [Next]_vars => TestInv'
  <2> SUFFICES ASSUME ClientInv, TestInv, [Next]_vars
               PROVE  TestInv'
    OBVIOUS
  <2>1. ASSUME UNCHANGED testVars PROVE TestInv'
    <3>1. UNCHANGED <<tpc, token, loop, tests, error, artifacts, texit, escaped, truth>>
      BY <2>1 DEF testVars
    <3>2. ResultsTyped'
      BY <3>1 DEF TestInv, ResultsTyped, Agrees
    <3>3. LoopTells' /\ TokenKnown' /\ ResultsSoFar'
      BY <3>1 DEF TestInv, LoopTells, TokenKnown, ResultsSoFar
    <3>4. SavedSoFar' /\ ArtifactsMatchExit'
      BY <3>1 DEF TestInv, SavedSoFar, ArtifactsMatchExit
    <3> QED
      BY <3>2, <3>3, <3>4 DEF TestInv
  <2>2. CASE WaitForReady
    BY <2>2, MoveKeeps, AbortKeeps DEF WaitForReady, Saving
  <2>3. CASE GetTokenFromLogs
    <3>1. /\ tpc = "token" /\ tpc' = "put" /\ token' \in {"valid", "placeholder"}
          /\ UNCHANGED <<error, artifacts, texit, escaped, loop, tests, truth>>
          /\ loop = Start /\ Len(tests) = 0
      BY <2>3 DEF GetTokenFromLogs, To, Unsaved, SameResults, TestInv, TokenKnown, ResultsSoFar
    <3>2. ResultsTyped'
      BY <3>1 DEF TestInv, ResultsTyped
    <3>3. LoopTells'
      BY <3>1 DEF LoopTells, Start
    <3>4. TokenKnown' /\ ResultsSoFar'
      BY <3>1 DEF TokenKnown, ResultsSoFar, Saving
    <3>5. SavedSoFar' /\ ArtifactsMatchExit'
      BY <3>1 DEF TestInv, SavedSoFar, Labels, Saving, ArtifactsMatchExit
    <3> QED
      BY <3>2, <3>3, <3>4, <3>5 DEF TestInv
  <2>4. CASE TestWrite
    BY <2>4, MoveKeeps DEF TestWrite
  <2>5. CASE HappyGet
    BY <2>5, HappyGetKeeps DEF ClientInv
  <2>6. CASE Verify
    BY <2>6, VerifyKeeps
  <2>7. CASE BenchRequest
    BY <2>7, BenchKeeps
  <2>8. CASE LoopEnds
    BY <2>8, LoopEndsKeeps
  <2>9. CASE RequestFails
    BY <2>9, AbortKeeps DEF RequestFails, Saving
  <2>10. CASE GetTokenRaises \/ SaveRaises \/ Interrupted
    BY <2>10, EscapeKeeps DEF GetTokenRaises, SaveRaises, Interrupted
  <2>11. CASE SaveResults
    BY <2>11, SaveKeeps
  <2>12. CASE Exit
    BY <2>12, ExitKeeps
  <2>13. CASE TestNext
    BY <2>2, <2>3, <2>4, <2>5, <2>6, <2>7, <2>8, <2>9, <2>10, <2>11, <2>12,
       <2>13 DEF TestNext, TestStep
  <2>14. CASE ClientNext /\ UNCHANGED testVars
    BY <2>1, <2>14
  <2>15. CASE UNCHANGED vars
    BY <2>1, <2>15 DEF vars
  <2> QED
    BY <2>13, <2>14, <2>15 DEF Next
<1> QED
  BY <1>1, <1>2, ClientsInvariant, PTL DEF Spec

(* A test of docker_integration.py passes, and a count grows, only for     *)
(* what the store held and the server accepted then.                       *)
THEOREM TestsAlwaysTellTruth == Spec => []TestsTellTruth
  BY TestInvariant, TestInvImplies, PTL

(* The exit code of docker_integration.py and the files it leaves agree,   *)
(* wherever an exception or an interrupt cuts it short, in the writing of  *)
(* the files too.                                                          *)
THEOREM ArtifactsAlwaysMatchExit == Spec => []ArtifactsMatchExit
  BY TestInvariant, TestInvImplies, PTL
=============================================================================
