------------------------------ MODULE MQLifecycle ------------------------------
(***************************************************************************)
(* internal/mqruntime: the life of one MQ client, shared by the Kafka and  *)
(* the Redis stream implementations.  A client is open, closing or closed; *)
(* it counts the operations under way (Begin, End) and tracks the          *)
(* subscriptions it has to stop.  A subscription has two contexts: the end *)
(* of pollCtx stops the polling and the start of handlers, the end of      *)
(* workCtx cancels handlers that still run.  Each client subscribes at     *)
(* most once.  The module has no Next of its own: a middleware composes    *)
(* its actions with what its goroutines do.                                *)
(***************************************************************************)
EXTENDS Integers

CONSTANTS
    Clients  \* MQ clients, one per process

VARIABLES
    state,   \* state[c]: open, closing, closed, or crashed with its process
    ops,     \* ops[c]: the operations between Begin and End
    sub,     \* sub[c]: none, tracked, or finished (done is closed)
    pollCtx, \* pollCtx[c]: the poll context is live
    workCtx  \* workCtx[c]: the work context is live

lifecycle == <<state, ops, sub, pollCtx, workCtx>>

Calls == {"publish", "subscribe"}

LifecycleTypeOK ==
    /\ state \in [Clients -> {"open", "closing", "closed", "crashed"}]
    /\ ops \in [Clients -> SUBSET Calls]
    /\ sub \in [Clients -> {"none", "tracked", "finished"}]
    /\ pollCtx \in [Clients -> BOOLEAN]
    /\ workCtx \in [Clients -> BOOLEAN]

LifecycleInit ==
    /\ state = [c \in Clients |-> "open"]
    /\ ops = [c \in Clients |-> {}]
    /\ sub = [c \in Clients |-> "none"]
    /\ pollCtx = [c \in Clients |-> FALSE]
    /\ workCtx = [c \in Clients |-> FALSE]

-------------------------------------------------------------------------------
(* Operations and subscriptions. *)

Begin(c, call) ==
    /\ state[c] = "open" /\ call \notin ops[c]
    /\ ops' = [ops EXCEPT ![c] = @ \cup {call}]
    /\ UNCHANGED <<state, sub, pollCtx, workCtx>>

End(c, call) ==
    /\ call \in ops[c]
    /\ ops' = [ops EXCEPT ![c] = @ \ {call}]

\* Faulty: a client that has begun to close still takes a subscription.
TrackAlways(c) ==
    /\ sub' = [sub EXCEPT ![c] = "tracked"]
    /\ pollCtx' = [pollCtx EXCEPT ![c] = TRUE]
    /\ workCtx' = [workCtx EXCEPT ![c] = TRUE]

\* Track after NewSubscription; it is refused by a client that closes, and the
\* handle is aborted.
Track(c) ==
    LET open == state[c] = "open" IN
    /\ sub' = [sub EXCEPT ![c] = IF open THEN "tracked" ELSE @]
    /\ pollCtx' = [pollCtx EXCEPT ![c] = open]
    /\ workCtx' = [workCtx EXCEPT ![c] = open]

\* Finish: both contexts are released and whoever waits for done goes on.
Finish(c) ==
    /\ sub' = [sub EXCEPT ![c] = "finished"]
    /\ pollCtx' = [pollCtx EXCEPT ![c] = FALSE]
    /\ workCtx' = [workCtx EXCEPT ![c] = FALSE]
    /\ UNCHANGED <<state, ops>>

-------------------------------------------------------------------------------
(* Stop of a subscription and Close of the client. *)

\* Stop: polling ends; the caller waits for done.
Stop(c) ==
    /\ sub[c] = "tracked" /\ pollCtx[c]
    /\ pollCtx' = [pollCtx EXCEPT ![c] = FALSE]
    /\ UNCHANGED <<state, ops, sub, workCtx>>

\* The context of a Subscribe call ends, or, once polling has ended, that of the
\* Stop or Close that ended it: handlers that still run are cancelled.
Cancel(c) ==
    /\ sub[c] = "tracked" /\ workCtx[c]
    /\ pollCtx' = [pollCtx EXCEPT ![c] = FALSE]
    /\ workCtx' = [workCtx EXCEPT ![c] = FALSE]
    /\ UNCHANGED <<state, ops, sub>>

\* Close: no operation begins any more, tracked subscriptions stop polling.
Close(c) ==
    /\ state[c] = "open"
    /\ state' = [state EXCEPT ![c] = "closing"]
    /\ pollCtx' = [pollCtx EXCEPT ![c] = FALSE]
    /\ UNCHANGED <<ops, sub, workCtx>>

\* What the goroutine of Close waits for.  No subscription can be tracked once
\* the client is closing, so the ones Close has found are those that are left.
Stopped(c) == ops[c] = {} /\ sub[c] # "tracked"

\* release() closes the store; the client is closed.
CloseReleases(c) ==
    /\ state[c] = "closing" /\ Stopped(c)
    /\ state' = [state EXCEPT ![c] = "closed"]
    /\ UNCHANGED <<ops, sub, pollCtx, workCtx>>

\* The process dies.
LifecycleCrash(c) ==
    /\ state[c] # "crashed"
    /\ state' = [state EXCEPT ![c] = "crashed"]
    /\ ops' = [ops EXCEPT ![c] = {}]
    /\ sub' = [sub EXCEPT ![c] = "finished"]
    /\ pollCtx' = [pollCtx EXCEPT ![c] = FALSE]
    /\ workCtx' = [workCtx EXCEPT ![c] = FALSE]
===============================================================================
