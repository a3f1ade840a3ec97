---------------------------- MODULE LogsyncHTTP ----------------------------
(***************************************************************************)
(* Logsync over HTTP (src/logbook/logsync/http.go): HTTPClient's put, get *)
(* and del against HTTPHandler.  Each client sends one request at a time; *)
(* the server handles requests one by one (lsync serializes on the       *)
(* logbook).  The network may fail the round trip before the server sees *)
(* the request or after it answered (http.Client.Do returns a nil        *)
(* response and an error), and the client may fail to read an error     *)
(* body (ioutil.ReadAll of a broken connection).                         *)
(*                                                                         *)
(* Abstraction: a log is named by its ref; lsync.put succeeds or fails    *)
(* (merge validation is outside src/); lsync.get and lsync.del fail when *)
(* the server holds no log for the ref.  Author headers always encode and *)
(* decode: the key handling is outside src/.                             *)
(***************************************************************************)
EXTENDS Naturals

CONSTANTS
    Clients,         \* goroutines using an HTTPClient
    Refs,            \* dataset refs whose logs are synced
    TransportFails,  \* whether Do can return (nil, err)
    BodyReadFails,   \* whether ReadAll of an error body can fail
    KeyBytesFails    \* whether an author's PubKey().Bytes() can fail

VARIABLES
    held,     \* refs the server holds a log for
    req,      \* req[c]: the request c is making
    phase,    \* phase[c]: "idle", "sent", "served", "lost", "done"
    status,   \* status[c]: the status code the server wrote
    applied,  \* applied[c]: the server performed c's operation
    signed,   \* signed[c]: the response carries the receiver's key headers
    outcome   \* outcome[c]: what c's call returned

vars == << held, req, phase, status, applied, signed, outcome >>

Ops == {"put", "get", "del"}
NoReq == [op |-> "none", ref |-> "none"]
\* "ok" is a nil error (for get: with the sender and body), "nobody" is a
\* nil error with a nil body, "err" an error, "panic" a nil dereference.
Outcomes == {"none", "ok", "nobody", "err", "panic"}

TypeOK ==
    /\ held \subseteq Refs
    /\ req \in [Clients -> [op: Ops, ref: Refs] \cup {NoReq}]
    /\ phase \in [Clients -> {"idle", "sent", "served", "lost", "done"}]
    /\ status \in [Clients -> {0, 200, 400}]
    /\ applied \in [Clients -> BOOLEAN]
    /\ signed \in [Clients -> BOOLEAN]
    /\ outcome \in [Clients -> Outcomes]

Init ==
    /\ held = {}
    /\ req = [c \in Clients |-> NoReq]
    /\ phase = [c \in Clients |-> "idle"]
    /\ status = [c \in Clients |-> 0]
    /\ applied = [c \in Clients |-> FALSE]
    /\ signed = [c \in Clients |-> FALSE]
    /\ outcome = [c \in Clients |-> "none"]

-----------------------------------------------------------------------------
(* What each client method returns once Do has returned a response.      *)

\* Faulty variant: put ignoring the status code.
ClientPutNoStatusCheck(st, readable, hdr) == "ok"

\* put: a non-200 status returns the body as the error; when the body
\* cannot be read it returns err, the nil error of Do.
ClientPut(st, readable, hdr) ==
    IF st = 200 THEN "ok" ELSE IF readable THEN "err" ELSE "ok"

\* get: as put, but the nil-error return on an unreadable body also has a
\* nil body; a 200 returns the sender decoded from the response headers,
\* and fails when they carry no key (senderFromHTTPHeaders).
ClientGet(st, readable, hdr) ==
    CASE st = 200 /\ hdr -> "ok"
      [] st = 200        -> "err"
      [] readable        -> "err"
      [] OTHER           -> "nobody"

\* del: as put; after the status check it returns Do's err (nil).
ClientDel(st, readable, hdr) ==
    IF st # 200 /\ readable THEN "err" ELSE "ok"

ClientResult(op, st, readable, hdr) ==
    CASE op = "put" -> ClientPut(st, readable, hdr)
      [] op = "get" -> ClientGet(st, readable, hdr)
      [] op = "del" -> ClientDel(st, readable, hdr)

\* Do returned (nil, err): get checks err; put and del read res.StatusCode.
ClientTransportError(op) == IF op = "get" THEN "err" ELSE "panic"

\* addAuthorHTTPHeaders: AuthorID always, PubKey when the key's Bytes()
\* succeeds; the outcomes of one call of it.
KeyHeaders == IF KeyBytesFails THEN BOOLEAN ELSE {TRUE}

-----------------------------------------------------------------------------
(* Client c builds a request and adds its author headers.  When they     *)
(* cannot be encoded the method returns that error before calling Do.     *)
Send(c) ==
    /\ phase[c] = "idle"
    /\ \E op \in Ops, r \in Refs, hdr \in KeyHeaders :
         /\ req' = [req EXCEPT ![c] = [op |-> op, ref |-> r]]
         /\ phase' = [phase EXCEPT ![c] = IF hdr THEN "sent" ELSE "done"]
         /\ outcome' = [outcome EXCEPT ![c] = IF hdr THEN "none" ELSE "err"]
    /\ status' = [status EXCEPT ![c] = 0]
    /\ applied' = [applied EXCEPT ![c] = FALSE]
    /\ signed' = [signed EXCEPT ![c] = FALSE]
    /\ UNCHANGED held

(* The connection fails before the server reads the request.             *)
DropRequest(c) ==
    /\ TransportFails
    /\ phase[c] = "sent"
    /\ phase' = [phase EXCEPT ![c] = "lost"]
    /\ UNCHANGED << held, req, status, applied, signed, outcome >>

(* HTTPHandler: decode the sender (the headers an HTTPClient encoded     *)
(* always decode), then PUT/GET/DELETE on lsync; a failing lsync call     *)
(* writes 400 and the error, otherwise the handler returns with 200 after *)
(* adding its own key headers, ignoring their error.                      *)
ServePut(c, r) ==
    \E ok \in BOOLEAN :
       /\ held' = IF ok THEN held \cup {r} ELSE held
       /\ status' = [status EXCEPT ![c] = IF ok THEN 200 ELSE 400]
       /\ applied' = [applied EXCEPT ![c] = ok]

ServeGet(c, r) ==
    /\ held' = held
    /\ status' = [status EXCEPT ![c] = IF r \in held THEN 200 ELSE 400]
    /\ applied' = [applied EXCEPT ![c] = r \in held]

\* Faulty variant: the log removed and 200 written without asking lsync.
ServeDelUnchecked(c, r) ==
    /\ held' = held \ {r}
    /\ status' = [status EXCEPT ![c] = 200]
    /\ applied' = [applied EXCEPT ![c] = TRUE]

ServeDel(c, r) ==
    /\ held' = held \ {r}
    /\ status' = [status EXCEPT ![c] = IF r \in held THEN 200 ELSE 400]
    /\ applied' = [applied EXCEPT ![c] = r \in held]

Serve(c) ==
    /\ phase[c] = "sent"
    /\ CASE req[c].op = "put" -> ServePut(c, req[c].ref)
         [] req[c].op = "get" -> ServeGet(c, req[c].ref)
         [] req[c].op = "del" -> ServeDel(c, req[c].ref)
    /\ \E hdr \in KeyHeaders : signed' = [signed EXCEPT ![c] = hdr]
    /\ phase' = [phase EXCEPT ![c] = "served"]
    /\ UNCHANGED << req, outcome >>

(* The connection breaks after the server answered.                       *)
LoseResponse(c) ==
    /\ TransportFails
    /\ phase[c] = "served"
    /\ phase' = [phase EXCEPT ![c] = "lost"]
    /\ UNCHANGED << held, req, status, applied, signed, outcome >>

(* Do returns the response and the client method inspects it.            *)
Receive(c) ==
    /\ phase[c] = "served"
    /\ \E readable \in IF BodyReadFails THEN BOOLEAN ELSE {TRUE} :
         outcome' = [outcome EXCEPT ![c] =
                       ClientResult(req[c].op, status[c], readable, signed[c])]
    /\ phase' = [phase EXCEPT ![c] = "done"]
    /\ UNCHANGED << held, req, status, applied, signed >>

(* Do returns (nil, err).                                                 *)
TransportError(c) ==
    /\ phase[c] = "lost"
    /\ outcome' = [outcome EXCEPT ![c] = ClientTransportError(req[c].op)]
    /\ phase' = [phase EXCEPT ![c] = "done"]
    /\ UNCHANGED << held, req, status, applied, signed >>

(* The caller moves on to its next request.                               *)
Finish(c) ==
    /\ phase[c] = "done"
    /\ phase' = [phase EXCEPT ![c] = "idle"]
    /\ UNCHANGED << held, req, status, applied, signed, outcome >>

Next ==
    \E c \in Clients :
       \/ Send(c)
       \/ DropRequest(c)
       \/ Serve(c)
       \/ LoseResponse(c)
       \/ Receive(c)
       \/ TransportError(c)
       \/ Finish(c)

Spec == Init /\ [][Next]_vars

-----------------------------------------------------------------------------
(* Properties, about the result a caller of put/get/del acts on.          *)

(* A put, get or del that returns a nil error was carried out by the      *)
(* server: the log was merged, read or removed.  Callers of logsync push *)
(* and pull treat a nil error as done.                                    *)
SuccessMeansApplied ==
    \A c \in Clients :
       (phase[c] = "done" /\ outcome[c] \in {"ok", "nobody"}) => applied[c]

(* The client contract as a whole: no put, get or del panics, and one    *)
(* that returns a nil error was carried out by the server.                *)
CallContract ==
    \A c \in Clients :
       /\ outcome[c] # "panic"
       /\ (phase[c] = "done" /\ outcome[c] \in {"ok", "nobody"}) => applied[c]
-----------------------------------------------------------------------------
(***************************************************************************)
(* The client and handler implement the contract of a logsync remote      *)
(* (RemoteLogs).  A call is in progress from Send until Finish; the       *)
(* server's step is the call's effect, told apart by the status it wrote  *)
(* (0 until then); the value the client method returned is its result.  *)
(***************************************************************************)
RemoteCall(c) == IF phase[c] = "idle" THEN [op |-> "none", ref |-> "none"] ELSE req[c]

RemoteEffect(c) ==
    CASE status[c] = 0 -> "pending"
      [] applied[c]    -> "applied"
      [] OTHER         -> "refused"

RemoteResult(c) ==
    CASE outcome[c] \in {"ok", "nobody"} -> "ok"
      [] OTHER                          -> outcome[c]

Remote == INSTANCE RemoteLogs WITH
    call <- [c \in Clients |-> RemoteCall(c)],
    effect <- [c \in Clients |-> RemoteEffect(c)],
    result <- [c \in Clients |-> RemoteResult(c)]

(* Refinement: every behaviour of put, get and del over HTTP, lost        *)
(* requests and lost responses included, is one the remote contract      *)
(* allows: each call takes effect at most once and before it returns, a   *)
(* get or del succeeds only for a log the server held when it handled it, *)
(* and a nil error only follows a call that took effect.                  *)
ImplementsRemote == Remote!RemoteSpec
=============================================================================
