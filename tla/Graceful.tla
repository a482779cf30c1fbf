------------------------------ MODULE Graceful ------------------------------
(***************************************************************************)
(* Shutting a binary down (internal/graceful/graceful.go), as the proxy     *)
(* uses it (cmd/proxy/main.go): on a signal stop accepting, let requests    *)
(* finish, cut long-lived streams after StreamGrace, force-close whatever   *)
(* is left at Timeout, then run the hooks (save the metrics) and exit.  A   *)
(* second signal kills the process at any point of this.                    *)
(*                                                                         *)
(* A request is one connection.  net/http is external: its Shutdown waits   *)
(* for connections that are not hijacked, its Close closes them, and a      *)
(* connection once hijacked is no longer its business.                      *)
(***************************************************************************)
EXTENDS Naturals, FiniteSets

CONSTANTS Request,      \* requests
          Long,         \* those isLongLived sees: WebSocket upgrades and SSE
          Upgrade,      \* those whose handler hijacks the connection
          Timeout       \* SHUTDOWN_TIMEOUT, in clock units since the signal

(* The only hijacker is the reverse proxy, for requests with an Upgrade     *)
(* header, which isLongLived sees.                                          *)
GracefulAssumption == Upgrade \subseteq Long /\ Timeout \in Nat

VARIABLES
    StreamGrace, \* SHUTDOWN_STREAM_GRACE, fixed when the process starts
    phase,      \* where Run is
    clock,      \* time since the drain began
    req,        \* "none", "conn" (accepted), "running", "left" the tracker, "gone"
    cancelled,  \* requests whose context is cancelled
    hijack,     \* "no", "taken" from net/http, "tracked" by the tracker
    shut,       \* requests whose connection has been closed
    cut,        \* the tracker's cut
    changed,    \* a token lies in the tracker's channel
    waiter      \* the goroutine that closes done: "shutdown", "check", "blocked", "done"

runVars == <<StreamGrace, phase, clock, req, cancelled, hijack, shut, cut, changed, waiter>>

(* TimeoutFromEnv clamps the grace to the timeout. *)
Grace == 0..Timeout

RunInit ==
    /\ StreamGrace \in Grace
    /\ phase = "serving"
    /\ clock = 0
    /\ req = [r \in Request |-> "none"]
    /\ cancelled = {}
    /\ hijack = [r \in Request |-> "no"]
    /\ shut = {}
    /\ cut = FALSE
    /\ changed = FALSE
    /\ waiter = "shutdown"

(* The requests of the tracker's map; active is their number. *)
reqs == {r \in Request : req[r] = "running"}

Tracked == {r \in reqs : hijack[r] = "tracked"}

Alive == phase \notin {"exited", "killed"}

-----------------------------------------------------------------------------
(* Requests. *)

(* A connection is accepted while the listener is open. *)
Accept(r) ==
    /\ phase = "serving"
    /\ req[r] = "none"
    /\ req' = [req EXCEPT ![r] = "conn"]
    /\ UNCHANGED <<StreamGrace, phase, clock, cancelled, hijack, shut, cut, changed, waiter>>

\* Mutant: a stream that arrives after the cut is let in.
CutOnArrivalNever(r) == FALSE

(* wrap: a long-lived request that comes after the cut is cut on arrival. *)
CutOnArrival(r) == r \in Long /\ cut

(* The request is read and its handler begins; this can be long after the   *)
(* connection was accepted, but not once it is closed.                      *)
Serve(r) ==
    /\ Alive
    /\ req[r] = "conn"
    /\ r \notin shut
    /\ req' = [req EXCEPT ![r] = "running"]
    /\ cancelled' = IF CutOnArrival(r) THEN cancelled \union {r} ELSE cancelled
    /\ UNCHANGED <<StreamGrace, phase, clock, hijack, shut, cut, changed, waiter>>

(* The handler takes the connection from net/http. *)
Hijack(r) ==
    /\ Alive
    /\ req[r] = "running"
    /\ r \in Upgrade \ shut
    /\ hijack[r] = "no"
    /\ hijack' = [hijack EXCEPT ![r] = "taken"]
    /\ UNCHANGED <<StreamGrace, phase, clock, req, cancelled, shut, cut, changed, waiter>>

(* ConnState: the tracker hears of it, and closes it if streams are cut. *)
ConnState(r) ==
    /\ Alive
    /\ hijack[r] = "taken"
    /\ hijack' = [hijack EXCEPT ![r] = IF cut THEN "no" ELSE "tracked"]
    /\ shut' = IF cut THEN shut \union {r} ELSE shut
    /\ UNCHANGED <<StreamGrace, phase, clock, req, cancelled, cut, changed, waiter>>

(* The handler returns, and the tracker forgets the request. *)
Leave(r) ==
    /\ Alive
    /\ req[r] = "running"
    /\ hijack[r] # "taken"
    /\ req' = [req EXCEPT ![r] = "left"]
    /\ hijack' = [hijack EXCEPT ![r] = "no"]
    /\ UNCHANGED <<StreamGrace, phase, clock, cancelled, shut, cut, changed, waiter>>

(* ... and, the lock released, leaves a token unless one is there. *)
Notify(r) ==
    /\ Alive
    /\ req[r] = "left"
    /\ req' = [req EXCEPT ![r] = "gone"]
    /\ changed' = TRUE
    /\ UNCHANGED <<StreamGrace, phase, clock, cancelled, hijack, shut, cut, waiter>>

-----------------------------------------------------------------------------
(* Run. *)

(* The signal: the OnSignal callbacks run, and the drain begins. *)
Signal ==
    /\ phase = "serving"
    /\ phase' = "draining"
    /\ UNCHANGED <<StreamGrace, clock, req, cancelled, hijack, shut, cut, changed, waiter>>

(* A second signal kills the process the normal way. *)
Kill ==
    /\ phase \notin {"serving", "exited", "killed"}
    /\ phase' = "killed"
    /\ UNCHANGED <<StreamGrace, clock, req, cancelled, hijack, shut, cut, changed, waiter>>

Tick ==
    /\ phase = "draining"
    /\ clock < Timeout
    /\ (clock >= StreamGrace) => cut
    /\ clock' = clock + 1
    /\ UNCHANGED <<StreamGrace, phase, req, cancelled, hijack, shut, cut, changed, waiter>>

(* The stream timer: cutStreams. *)
cutStreams ==
    /\ phase = "draining"
    /\ clock >= StreamGrace
    /\ ~cut
    /\ cut' = TRUE
    /\ cancelled' = cancelled \union (reqs \intersect Long)
    /\ shut' = shut \union Tracked
    /\ UNCHANGED <<StreamGrace, phase, clock, req, hijack, changed, waiter>>

(* Connections Shutdown waits for: open, and not hijacked. *)
Busy == {r \in Request : req[r] \in {"conn", "running", "left"} /\ hijack[r] = "no" /\ r \notin shut}

(* Shutdown closes a connection on which no request has come. *)
CloseIdle(r) ==
    /\ phase = "draining"
    /\ req[r] = "conn"
    /\ req' = [req EXCEPT ![r] = "gone"]
    /\ UNCHANGED <<StreamGrace, phase, clock, cancelled, hijack, shut, cut, changed, waiter>>

(* Every Shutdown has returned; the goroutine goes on to waitIdle. *)
ShutdownReturns ==
    /\ phase = "draining"
    /\ waiter = "shutdown"
    /\ Busy = {} \/ clock = Timeout
    /\ waiter' = "check"
    /\ UNCHANGED <<StreamGrace, phase, clock, req, cancelled, hijack, shut, cut, changed>>

(* waitIdle: look at the count, and wait for a token if it is not zero. *)
WaitCheck ==
    /\ Alive
    /\ waiter = "check"
    /\ waiter' = IF reqs = {} THEN "done" ELSE "blocked"
    /\ UNCHANGED <<StreamGrace, phase, clock, req, cancelled, hijack, shut, cut, changed>>

WaitToken ==
    /\ Alive
    /\ waiter = "blocked"
    /\ changed
    /\ changed' = FALSE
    /\ waiter' = "check"
    /\ UNCHANGED <<StreamGrace, phase, clock, req, cancelled, hijack, shut, cut>>

\* Mutant: Run waits for the drain without a time limit.
cancelAllDrained ==
    /\ phase = "draining"
    /\ waiter = "done"
    /\ phase' = "cancelled"
    /\ cancelled' = cancelled \union reqs
    /\ UNCHANGED <<StreamGrace, clock, req, hijack, shut, cut, changed, waiter>>

(* Drained, or the time is up: cancelAll. *)
cancelAll ==
    /\ phase = "draining"
    /\ waiter = "done" \/ clock = Timeout
    /\ phase' = "cancelled"
    /\ cancelled' = cancelled \union reqs
    /\ UNCHANGED <<StreamGrace, clock, req, hijack, shut, cut, changed, waiter>>

closeHijacked ==
    /\ phase = "cancelled"
    /\ phase' = "hijacksClosed"
    /\ cut' = TRUE
    /\ shut' = shut \union Tracked
    /\ UNCHANGED <<StreamGrace, clock, req, cancelled, hijack, changed, waiter>>

(* srv.Close: every connection net/http still has. *)
Close ==
    /\ phase = "hijacksClosed"
    /\ phase' = "closed"
    /\ shut' = shut \union {r \in Request : req[r] \in {"conn", "running"} /\ hijack[r] = "no"}
    /\ UNCHANGED <<StreamGrace, clock, req, cancelled, hijack, cut, changed, waiter>>

(* The aux servers are shut down, or closed at AuxTimeout. *)
AuxDown ==
    /\ phase = "closed"
    /\ phase' = "auxDown"
    /\ UNCHANGED <<StreamGrace, clock, req, cancelled, hijack, shut, cut, changed, waiter>>

(* The hooks run, the last thing before Run returns. *)
Hooks ==
    /\ phase = "auxDown"
    /\ phase' = "exited"
    /\ UNCHANGED <<StreamGrace, clock, req, cancelled, hijack, shut, cut, changed, waiter>>

Drain ==
    \/ Tick \/ cutStreams \/ ShutdownReturns \/ WaitCheck \/ WaitToken
    \/ cancelAll \/ closeHijacked \/ Close \/ AuxDown \/ Hooks

RunNext ==
    \/ \E r \in Request :
         Accept(r) \/ Serve(r) \/ Hijack(r) \/ ConnState(r) \/ Leave(r) \/ Notify(r) \/ CloseIdle(r)
    \/ Signal \/ Drain \/ Kill

(* The goroutines of the drain are scheduled; no handler need ever end. *)
RunFairness == WF_runVars(Drain)

RunSpec == RunInit /\ [][RunNext]_runVars /\ RunFairness

-----------------------------------------------------------------------------
(* While the drain lasts, a long-lived request that is being served after   *)
(* the cut has its context cancelled, and once the primary servers are      *)
(* closed every request has, or has lost its connection (or is about to,    *)
(* in ConnState): nothing goes on undisturbed into the hooks, in whatever   *)
(* order requests arrive, are hijacked and are cut (graceful.go: "anything  *)
(* that arrives later is cut on arrival").                                  *)
NothingEscapes ==
    /\ (cut /\ phase = "draining") => (reqs \intersect Long) \subseteq cancelled
    /\ phase \in {"closed", "auxDown", "exited"} =>
         \A r \in reqs : r \in cancelled \union shut \/ hijack[r] = "taken"

(* Nobody is disturbed early: streams have their grace, the others the      *)
(* whole timeout, hijacked connections that Shutdown does not wait for      *)
(* included (graceful.go: "a drain is only complete once Shutdown has       *)
(* returned AND no handler is still running").                              *)
GraceKept ==
    /\ clock < StreamGrace => \A r \in reqs : r \notin cancelled \union shut
    /\ clock < Timeout => \A r \in reqs \ Long : r \notin cancelled \union shut

(* The tracker's channel holds one token for any number of requests, yet    *)
(* waitIdle never sleeps through the end of the last one.                   *)
WakesWhenIdle ==
    (waiter = "blocked" /\ reqs = {}) => changed \/ \E r \in Request : req[r] = "left"

(* A drain is orderly: in whatever order requests arrive, are hijacked, end *)
(* and are cut, nobody goes on undisturbed into the hooks, nobody is        *)
(* disturbed early, and the end of the last request is noticed.             *)
DrainsCleanly == NothingEscapes /\ GraceKept /\ WakesWhenIdle

Stopping == Alive /\ phase # "serving"

(* Whatever the handlers do, and with no help from them, Run returns once   *)
(* the signal has come.                                                     *)
Terminates == []<>~Stopping
=============================================================================
