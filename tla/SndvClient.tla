----------------------------- MODULE SndvClient -----------------------------
(***************************************************************************)
(* clients/python/sndv.py: several clients, each with its token, call put, *)
(* get, delete and metrics.  A call is sent, handled by the server, and    *)
(* returns or raises; the connection may be refused, or be lost before or  *)
(* after the server has handled the request.                               *)
(*                                                                         *)
(* Results: <<"none">>, <<"value", v>>, <<"SndvError", code>> and          *)
(* <<"raised">> for the exceptions that _request lets through.             *)
(***************************************************************************)
EXTENDS HttpApi

CONSTANTS
    Client,
    ClientKeys,     \* the keys that clients use
    MaxCalls        \* bound: calls in a behaviour

ASSUME ClientAssumption ==
    ClientKeys \subseteq Key /\ MaxCalls \in Nat

VARIABLES
    headers,    \* by client: the token it was made with
    call,       \* by client: the operation it has called
    stage,      \* "idle", "sent" or "answered"
    answer,     \* the reply on its way
    result,     \* of its last call
    seen,       \* history: the value of the key when the call was handled,
    left,       \* history: and the value that handling it has left;
                \* NotHandled if the server did not get to it
    calls       \* calls so far

clientVars == <<headers, call, stage, answer, result, seen, left, calls>>

NoCall == [op |-> "metrics", key |-> NoKey, value |-> NoValue]
NoReply == Reply(0, NoValue)
NotHandled == "not handled"

ClientInit ==
    /\ headers \in [Client -> Tokens]
    /\ call = [c \in Client |-> NoCall]
    /\ stage = [c \in Client |-> "idle"]
    /\ answer = [c \in Client |-> NoReply]
    /\ result = [c \in Client |-> <<"none">>]
    /\ seen = [c \in Client |-> NotHandled] /\ left = [c \in Client |-> NotHandled]
    /\ calls = 0

(* The key that arrives in a query: it is not quoted.                      *)
Arriving(key) == IF key \in Reserved THEN Key \cup {NoKey} ELSE {key}

(* The requests that a call may become.                                    *)
RequestsOf(c) ==
    LET o == call[c]
        t == headers[c]
    IN  CASE o.op = "put"    -> {Request("POST", "/put", t, NoKey, [k \in {o.key} |-> o.value])}
          [] o.op = "get"    -> {Request("GET", "/get", t, k, NoItems) : k \in Arriving(o.key)}
          [] o.op = "delete" -> {Request("POST", "/delete", t, k, NoItems) : k \in Arriving(o.key)}
          [] OTHER           -> {Request("GET", "/metrics", t, NoKey, NoItems)}

Operations ==
    [op : {"put"}, key : ClientKeys, value : Value]
    \cup [op : {"get", "delete"}, key : ClientKeys, value : {NoValue}]
    \cup {NoCall}

Call(c) ==
    /\ stage[c] = "idle" /\ calls < MaxCalls
    /\ \E o \in Operations : call' = [call EXCEPT ![c] = o]
    /\ stage' = [stage EXCEPT ![c] = "sent"]
    /\ result' = [result EXCEPT ![c] = <<"none">>]
    /\ seen' = [seen EXCEPT ![c] = NotHandled] /\ left' = [left EXCEPT ![c] = NotHandled]
    /\ calls' = calls + 1
    /\ UNCHANGED <<headers, answer, store>>

At(s, key) == IF key \in Key THEN s[key] ELSE NoValue

Handle(c) ==
    /\ stage[c] = "sent"
    /\ \E req \in RequestsOf(c) : \E r \in HandleRequest(req) :
          /\ answer' = [answer EXCEPT ![c] = r[1]]
          /\ store' = r[2]
          /\ left' = [left EXCEPT ![c] = At(r[2], call[c].key)]
    /\ seen' = [seen EXCEPT ![c] = At(store, call[c].key)]
    /\ stage' = [stage EXCEPT ![c] = "answered"]
    /\ UNCHANGED <<headers, call, result, calls>>

Finish(c, r) ==
    /\ result' = [result EXCEPT ![c] = r]
    /\ stage' = [stage EXCEPT ![c] = "idle"]
    /\ answer' = [answer EXCEPT ![c] = NoReply]
    /\ UNCHANGED <<headers, call, seen, left, calls, store>>

(* Mutant: get takes a failed connection for a key that is not there.      *)
NotFoundOrFailed(code) == code \in {0, 404}

(* if e.code == 404: return None                                           *)
NotFound(code) == code = 404

(* _request raises SndvError, which get looks at.                          *)
Raise(op, code) ==
    IF op = "get" /\ NotFound(code) THEN <<"none">> ELSE <<"SndvError", code>>

(* Mutant: a connection that fails looks like an empty answer.             *)
ConnectionIgnored(op) == <<"none">>

(* except urllib.error.URLError                                            *)
ConnectionFailed(op) == Raise(op, 0)

(* The connection is refused: URLError.                                    *)
Refused(c) ==
    /\ stage[c] = "sent"
    /\ Finish(c, ConnectionFailed(call[c].op))

(* The connection is lost, or the URL is refused by urllib: neither is a   *)
(* URLError.                                                               *)
Lost(c) ==
    /\ stage[c] \in {"sent", "answered"}
    /\ Finish(c, <<"raised">>)

(* What the call makes of the reply: json.loads raises, or yields a dict.  *)
Results(op, reply) ==
    CASE reply.status >= 400 -> {Raise(op, reply.status)}
      [] op = "get" /\ reply.status = 200 ->
           {IF v = NoValue THEN <<"raised">> ELSE <<"value", v>> : v \in Decoded(reply.val)}
      [] OTHER -> {<<"none">>}

Return(c) ==
    /\ stage[c] = "answered"
    /\ \E r \in Results(call[c].op, answer[c]) : Finish(c, r)

ClientNext ==
    \E c \in Client : Call(c) \/ Handle(c) \/ Refused(c) \/ Lost(c) \/ Return(c)

-----------------------------------------------------------------------------
(* put and delete tell the truth, whatever other clients write meanwhile:  *)
(* returning means that the server has stored or removed the value,        *)
(* SndvError that it has left the key as it was.  A delete of a key with   *)
(* reserved characters may remove another one.                             *)
EffectsAreReported ==
    \A c \in Client :
        LET o == call[c]
        IN  stage[c] = "idle" /\ o.op \in {"put", "delete"} =>
              /\ result[c] = <<"none">> /\ (o.op = "put" \/ o.key \notin Reserved) =>
                    left[c] = o.value
              /\ result[c][1] = "SndvError" => left[c] = seen[c]

(* get of a key without reserved characters returns what the store held    *)
(* while the call ran, for whatever the other clients did meanwhile        *)
(* (values that need escapes excepted), and None only if the server looked *)
(* the key up, for a token it accepts, and had nothing: a connection that  *)
(* fails is no None.  Nor is an invalid token, of which the docstring      *)
(* (line 54) says that get returns None: it raises SndvError(401).         *)
GetIsCurrent ==
    \A c \in Client :
        stage[c] = "idle" /\ call[c].op = "get" /\ call[c].key \notin Reserved =>
            /\ result[c] = <<"none">> => seen[c] = NoValue /\ CheckAuth(headers[c])
            /\ result[c][1] = "value" /\ seen[c] \notin Unescaped => result[c][2] = seen[c]

=============================================================================
