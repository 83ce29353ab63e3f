------------------------------ MODULE HttpApi ------------------------------
(***************************************************************************)
(* The HTTP API as its clients see it: authentication, routing, methods    *)
(* and status codes of http_router.go over a store that is a map.  (Engine *)
(* and ReadPath say how far the real store is one.)  Strings are model     *)
(* data: some keys hold characters with a meaning in URLs, some values     *)
(* hold characters that JSON wants escaped.                                *)
(***************************************************************************)
EXTENDS Naturals, FiniteSets

CONSTANTS
    Key, Value,
    Reserved,       \* the keys with reserved characters ("a&b")
    Unescaped,      \* the values that JSON would have to escape
    ConfigToken     \* AuthenticationToken of the configuration, "" if unset

NoKey == "no key"
NoValue == "no value"

ASSUME ApiAssumption ==
    /\ Reserved \subseteq Key /\ Unescaped \subseteq Value
    /\ NoKey \notin Key /\ NoValue \notin Value

VARIABLE store

StoreInit == store = [k \in Key |-> NoValue]

(* The Authorization headers: none, a token that decrypts, another one.    *)
Tokens == {"", "valid", "placeholder"}

CheckAuth(token) == (ConfigToken = "" /\ token = "") \/ token = "valid"

Methods ==
    [path \in {"/put", "/get", "/batch", "/delete", "/metrics"} |->
        CASE path = "/put"    -> {"POST", "PUT"}
          [] path = "/batch"  -> {"POST"}
          [] path = "/delete" -> {"DELETE", "POST"}
          [] OTHER            -> {"GET"}]

(* A request: key is the query's, items the body's (a function on some     *)
(* keys).                                                                  *)
Request(method, path, token, key, items) ==
    [method |-> method, path |-> path, token |-> token, key |-> key, items |-> items]

NoItems == [k \in {} |-> NoValue]
Reply(status, val) == [status |-> status, val |-> val]

(* The store with some of the items in it.                                 *)
With(items, keys) == [k \in Key |-> IF k \in keys THEN items[k] ELSE store[k]]

DeletedAt(key) == [store EXCEPT ![key] = NoValue]

(* The writes that a request may do, each with its reply: 500 if the log   *)
(* fails.  A batch is answered 201 even then, and the shards whose log     *)
(* failed have applied nothing of it.                                      *)
Writes(req) ==
    CASE req.path = "/put" ->
           {<<Reply(201, NoValue), With(req.items, DOMAIN req.items)>>,
            <<Reply(500, NoValue), store>>}
      [] req.path = "/batch" ->
           {<<Reply(201, NoValue), With(req.items, s)>> : s \in SUBSET DOMAIN req.items}
      [] req.path = "/delete" ->
           {<<Reply(200, NoValue), DeletedAt(req.key)>>,
            <<Reply(500, NoValue), store>>}
      [] OTHER -> {}

Read(req) ==
    IF req.path = "/metrics" THEN Reply(200, NoValue)
    ELSE IF store[req.key] = NoValue THEN Reply(404, NoValue)
    ELSE Reply(200, store[req.key])

(* The status with which a request is refused before its handler does      *)
(* anything, 0 if it is not: authentication, then path, method and key.    *)
Refusal(req) ==
    IF ~CheckAuth(req.token) THEN 401
    ELSE IF req.path \notin DOMAIN Methods THEN 404
    ELSE IF req.method \notin Methods[req.path] THEN 405
    ELSE IF req.path \in {"/get", "/delete"} /\ req.key = NoKey THEN 400
    ELSE 0

(* handleRequest: the pairs of a reply and the store after it.             *)
HandleRequest(req) ==
    IF Refusal(req) # 0 THEN {<<Reply(Refusal(req), NoValue), store>>}
    ELSE IF req.path \in {"/put", "/batch", "/delete"} THEN Writes(req)
    ELSE {<<Read(req), store>>}

(* The values that a client may decode from the body that writeJSON puts   *)
(* together without escaping; NoValue: it is not JSON.                     *)
Decoded(val) == IF val \in Unescaped THEN Value \cup {NoValue} ELSE {val}

StoreTypeOK == store \in [Key -> Value \cup {NoValue}]
=============================================================================
