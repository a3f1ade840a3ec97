----------------------------- MODULE RemoteLogs -----------------------------
(***************************************************************************)
(* What a caller of the logsync remote interface (put, get, del on a      *)
(* remote that holds dataset logs) may rely on, whatever carries the      *)
(* calls.  A call takes effect on the remote at most once, atomically,   *)
(* between its start and its return, and never after it returned.  The   *)
(* remote refuses a put it cannot merge, and a get or del of a log it     *)
(* does not hold.  A call that returns a nil error ("ok") took effect;   *)
(* one that returns an error may or may not have.  A call may also fail  *)
(* before it reaches the remote.                                          *)
(*                                                                         *)
(* A call may end the caller's goroutine with a panic: the HTTP client   *)
(* does so when the connection fails (the logsync_contract run).  The     *)
(* contract admits it so that the rest of it can be checked against the  *)
(* client as it is.                                                        *)
(***************************************************************************)
CONSTANTS Clients, Refs

VARIABLES
    held,     \* the refs the remote holds a log for
    call,     \* call[c]: the call c is making, or NoCall
    effect,   \* effect[c]: "pending", "applied" or "refused"
    result    \* result[c]: "none" until the call returned, then
              \* "ok", "err" or "panic"

avars == << held, call, effect, result >>

RemoteOps == {"put", "get", "del"}
NoCall == [op |-> "none", ref |-> "none"]

RemoteTypeOK ==
    /\ held \subseteq Refs
    /\ call \in [Clients -> [op: RemoteOps, ref: Refs] \cup {NoCall}]
    /\ effect \in [Clients -> {"pending", "applied", "refused"}]
    /\ result \in [Clients -> {"none", "ok", "err", "panic"}]

RemoteInit ==
    /\ held = {}
    /\ call = [c \in Clients |-> NoCall]
    /\ effect = [c \in Clients |-> "pending"]
    /\ result = [c \in Clients |-> "none"]

\* c starts a call; it may fail at once without reaching the remote.
Call(c) ==
    /\ call[c] = NoCall
    /\ \E op \in RemoteOps, r \in Refs :
          call' = [call EXCEPT ![c] = [op |-> op, ref |-> r]]
    /\ effect' = [effect EXCEPT ![c] = "pending"]
    /\ result' \in {[result EXCEPT ![c] = x] : x \in {"none", "err"}}
    /\ UNCHANGED held

\* The remote performs c's call, once, while c waits for it.
Perform(c) ==
    /\ call[c] # NoCall /\ effect[c] = "pending" /\ result[c] = "none"
    /\ LET r == call[c].ref IN
       CASE call[c].op = "put" ->
               \/ held' = held \cup {r} /\ effect' = [effect EXCEPT ![c] = "applied"]
               \/ held' = held /\ effect' = [effect EXCEPT ![c] = "refused"]
         [] call[c].op = "get" ->
               /\ held' = held
               /\ effect' = [effect EXCEPT ![c] = IF r \in held THEN "applied" ELSE "refused"]
         [] call[c].op = "del" ->
               /\ held' = held \ {r}
               /\ effect' = [effect EXCEPT ![c] = IF r \in held THEN "applied" ELSE "refused"]
    /\ UNCHANGED << call, result >>

\* The call returns: nil only if it took effect.
Return(c) ==
    /\ call[c] # NoCall /\ result[c] = "none"
    /\ \E x \in IF effect[c] = "applied" THEN {"ok", "err", "panic"}
                                          ELSE {"err", "panic"} :
          result' = [result EXCEPT ![c] = x]
    /\ UNCHANGED << held, call, effect >>

\* The caller is done with the call.
Done(c) ==
    /\ result[c] # "none"
    /\ call' = [call EXCEPT ![c] = NoCall]
    /\ UNCHANGED << held, effect, result >>

RemoteNext == \E c \in Clients : Call(c) \/ Perform(c) \/ Return(c) \/ Done(c)

RemoteSpec == RemoteInit /\ [][RemoteNext]_avars
=============================================================================
